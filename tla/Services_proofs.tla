---------------------------- MODULE Services_proofs ----------------------------
(***************************************************************************)
(* Proofs about the smaller parts of the server and the administrator's    *)
(* panels, for any requests, users, addresses, endpoints and photos.       *)
(***************************************************************************)
EXTENDS PushSubscriptions, StatusAvailability, LaunchNotify, UsersPanel, SmsPanel, PricesPanel, Screening,
        ChatRateLimit, CursorPages, WellFoundedInduction, FiniteSetTheorems, TLAPS

(* StatusAvailability.  What is known is the database's list, and loading  *)
(* is not begun again.                                                     *)
StatusIInv ==
  /\ asking \in [Asking -> {"rest", "querying", "answering"}]
  /\ \A r \in Asking : asking[r] # "rest" => loaded
  /\ known => loaded /\ stored \subseteq have
  /\ told => known
  /\ StatusInv

LEMMA StatusStart == StatusInit => StatusIInv
BY DEF StatusInit, StatusIInv, StatusInv, NoFalseRefusal, AnswersSettle

LEMMA StatusStep == StatusIInv /\ [StatusNext]_statusVars => StatusIInv'
<1> SUFFICES ASSUME StatusIInv, [StatusNext]_statusVars PROVE StatusIInv'
  OBVIOUS
<1> USE DEF StatusIInv, StatusInv, NoFalseRefusal, AnswersSettle
<1>1. CASE UNCHANGED statusVars
  BY <1>1 DEF statusVars
<1>2. ASSUME NEW r \in Asking, Load(r) PROVE StatusIInv'
  BY <1>2 DEF Load
<1>3. ASSUME NEW r \in Asking, Loaded(r) PROVE StatusIInv'
  BY <1>3 DEF Loaded
<1>4. ASSUME NEW r \in Asking, Answered(r), refused' \cap stored = {} PROVE StatusIInv'
  <2>1. /\ asking' \in [Asking -> {"rest", "querying", "answering"}] /\ loaded' = loaded
        /\ \A q \in Asking : asking'[q] # "rest" => asking[q] # "rest"
        /\ known' = known /\ stored' = stored /\ have' = have
    BY <1>4 DEF Answered
  <2>2. (told' => known') /\ ~doubted'
    <3>1. (told => known) /\ ~doubted /\ known' = known
      BY <2>1
    <3>2. told' = (told \/ known) /\ doubted' = (doubted \/ (told /\ ~known))
      BY <1>4 DEF Answered
    <3> QED
      BY <3>1, <3>2, Zenon
  <2> QED
    BY <1>4, <2>1, <2>2
<1>5. ASSUME NEW r \in Asking, AskForList(r) PROVE StatusIInv'
  BY <1>4, <1>5 DEF AskForList
<1>6. ASSUME NEW r \in Asking, NEW s \in Statuses, AskToSet(r, s) PROVE StatusIInv'
  <2>1. refused' \cap stored = {}
    BY <1>6 DEF AskToSet
  <2> QED
    BY <1>4, <1>6, <2>1 DEF AskToSet
<1> QED
  BY <1>1, <1>2, <1>3, <1>5, <1>6 DEF StatusNext

(* A status that the database has is never refused, and no answer falls    *)
(* back to the built-in list after one from the database's.                *)
THEOREM StatusesHold == StatusSpec => []StatusInv
<1>1. StatusIInv => StatusInv
  BY DEF StatusIInv
<1> QED
  BY <1>1, StatusStart, StatusStep, PTL DEF StatusSpec

-----------------------------------------------------------------------------
(* LaunchNotify.  A request is told once, and an address is on the list by *)
(* one that was told so, or was told of a time-out.                        *)
LaunchIInv ==
  /\ insert \in [Notifiers -> {"rest", "going", "late", "done"}]
  /\ address \in [Notifiers -> Addresses]
  /\ reply \in [Notifiers -> {"none", "ok", "conflict", "error", "timeout"}]
  /\ \A r \in Notifiers : insert[r] \in {"rest", "going"} => reply[r] = "none"
  /\ \A r \in Notifiers : insert[r] = "late" => reply[r] = "timeout"
  /\ ToldIsListed
  /\ \A r, s \in Notifiers : reply[r] = "ok" /\ reply[s] = "ok" /\ address[r] = address[s] => r = s
  /\ \A e \in list : \E r \in Notifiers : address[r] = e /\ reply[r] \in {"ok", "timeout"}

LEMMA LaunchImplied == LaunchIInv => LaunchInv
<1> SUFFICES ASSUME LaunchIInv PROVE AcceptedOrTimedOut
  BY DEF LaunchIInv, LaunchInv
<1>1. ASSUME NEW e \in Addresses PROVE Cardinality(Told(e, "ok")) <= 1
  <2>1. \A r, s \in Told(e, "ok") : r = s
    BY DEF Told, LaunchIInv
  <2>2. CASE Told(e, "ok") = {}
    BY <2>2, FS_EmptySet
  <2>3. CASE Told(e, "ok") # {}
    <3>1. PICK r \in Told(e, "ok") : TRUE
      BY <2>3
    <3>2. Told(e, "ok") = {r}
      BY <2>1, <3>1
    <3> QED
      BY <3>2, FS_Singleton
  <2> QED
    BY <2>2, <2>3
<1>2. ASSUME NEW e \in Addresses, Told(e, "conflict") # {}
      PROVE  Told(e, "ok") \cup Told(e, "timeout") # {}
  <2>1. e \in list
    BY <1>2 DEF Told, LaunchIInv, ToldIsListed
  <2>2. PICK r \in Notifiers : address[r] = e /\ reply[r] \in {"ok", "timeout"}
    BY <2>1 DEF LaunchIInv
  <2> QED
    BY <2>2 DEF Told
<1> QED
  BY <1>1, <1>2 DEF AcceptedOrTimedOut

LEMMA LaunchStart == LaunchInit => LaunchIInv
BY DEF LaunchInit, LaunchIInv, ToldIsListed

LEMMA LaunchStep == LaunchIInv /\ [LaunchNext]_launchVars => LaunchIInv'
<1> SUFFICES ASSUME LaunchIInv, [LaunchNext]_launchVars PROVE LaunchIInv'
  OBVIOUS
<1> USE DEF LaunchIInv, ToldIsListed
<1>1. CASE UNCHANGED launchVars
  BY <1>1 DEF launchVars
<1>2. ASSUME NEW r \in Notifiers, Enter(r) PROVE LaunchIInv'
  BY <1>2 DEF Enter
<1>3. ASSUME NEW r \in Notifiers, Insert(r) PROVE LaunchIInv'
  <2>1. /\ insert[r] \in {"going", "late"} /\ insert' = [insert EXCEPT ![r] = "done"]
        /\ list' = list \cup {address[r]} /\ address' = address
    BY <1>3 DEF Insert
  <2>2. CASE insert[r] = "late"
    <3>1. reply' = reply /\ reply[r] = "timeout"
      BY <1>3, <2>2 DEF Insert, Reply
    <3> QED
      BY <2>1, <3>1
  <2>3. CASE insert[r] = "going" /\ address[r] \in list
    <3>1. reply' = [reply EXCEPT ![r] = "conflict"] /\ reply[r] = "none"
      BY <1>3, <2>3 DEF Insert, Reply
    <3> QED
      BY <2>1, <2>3, <3>1
  <2>4. CASE insert[r] = "going" /\ address[r] \notin list
    <3>1. reply' = [reply EXCEPT ![r] = "ok"] /\ reply[r] = "none"
      BY <1>3, <2>4 DEF Insert, Reply
    <3>2. \A s \in Notifiers : reply[s] = "ok" => address[s] # address[r]
      BY <2>4
    <3> QED
      BY <2>1, <2>4, <3>1, <3>2
  <2> QED
    BY <2>1, <2>2, <2>3, <2>4
<1>4. ASSUME NEW r \in Notifiers, InsertFails(r) PROVE LaunchIInv'
  BY <1>4 DEF InsertFails, Reply
<1>5. ASSUME NEW r \in Notifiers, TimesOut(r) PROVE LaunchIInv'
  BY <1>5 DEF TimesOut
<1> QED
  BY <1>1, <1>2, <1>3, <1>4, <1>5 DEF LaunchNext

(* Whoever is told that the address was accepted has it on the list; it is *)
(* accepted once, however many requests race their time-outs.              *)
THEOREM LaunchHolds == LaunchSpec => []LaunchInv
BY LaunchStart, LaunchStep, LaunchImplied, PTL DEF LaunchSpec

-----------------------------------------------------------------------------
(* UsersPanel.  A save that waits for a network says so.                   *)
SaveSet ==
  [op : {"create", "update"}, of : People \cup {NoPerson}, user : People \cup {NoPerson},
   stage : {"sent", "paused"}, waited : BOOLEAN]

PanelIInv ==
  /\ editing \in People \cup {NoPerson} /\ form \in [of : People \cup {NoPerson}, full : BOOLEAN]
  /\ saving = NoSave \/ saving \in SaveSet
  /\ saving.stage = "paused" => saving.waited
  /\ UsersPanelInv

LEMMA PanelStart == UsersPanelInit => PanelIInv
BY DEF UsersPanelInit, PanelIInv, UsersPanelInv, NoSave, Blank

LEMMA PanelStep == PanelIInv /\ [UsersPanelNext]_panelVars => PanelIInv'
<1> SUFFICES ASSUME PanelIInv, [UsersPanelNext]_panelVars PROVE PanelIInv'
  OBVIOUS
<1> USE DEF PanelIInv, UsersPanelInv
<1>1. CASE UNCHANGED panelVars
  BY <1>1 DEF panelVars
<1>2. ASSUME AddUser \/ CloseUser \/ UserSaved \/ UserNotSaved \/ LoseNetwork PROVE PanelIInv'
  <2>1. UNCHANGED <<confirm, deleting, removals>>
    BY <1>2 DEF AddUser, CloseUser, UserSaved, UserNotSaved, LoseNetwork, removalVars
  <2>2. CASE AddUser
    BY <2>1, <2>2 DEF AddUser, ResetForm, Blank
  <2>3. CASE CloseUser
    BY <2>1, <2>3 DEF CloseUser
  <2>4. CASE UserSaved
    BY <2>1, <2>4 DEF UserSaved, ResetForm, Blank, NoSave
  <2>5. CASE UserNotSaved
    BY <2>1, <2>5 DEF UserNotSaved, NoSave
  <2>6. CASE LoseNetwork
    BY <2>1, <2>6 DEF LoseNetwork
  <2> QED
    BY <1>2, <2>2, <2>3, <2>4, <2>5, <2>6
<1>3. ASSUME NEW p \in People, EditUser(p) PROVE PanelIInv'
  BY <1>3 DEF EditUser, removalVars
<1>4. ASSUME TypeUser PROVE PanelIInv'
  BY <1>4 DEF TypeUser, removalVars
<1>5. ASSUME SaveUser PROVE PanelIInv'
  BY <1>5 DEF SaveUser, SaveSet, removalVars
<1>6. ASSUME Reconnect PROVE PanelIInv'
  <2>1. CASE saving.stage # "paused"
    BY <1>6, <2>1 DEF Reconnect, removalVars
  <2>2. CASE saving.stage = "paused"
    <3>1. PICK u : u = IF saving.op = "update" THEN editing ELSE saving.user
      OBVIOUS
    <3>2. saving \in SaveSet /\ saving.waited
      BY <2>2 DEF NoSave
    <3>3. u \in People \cup {NoPerson}
      BY <3>1, <3>2 DEF SaveSet
    <3>4. saving' = [saving EXCEPT !.stage = "sent", !.user = u]
      BY <1>6, <2>2, <3>1, <3>2 DEF Reconnect, SaveSet
    <3>5. saving' \in SaveSet /\ saving'.stage = "sent" /\ saving'.waited
      BY <3>2, <3>3, <3>4 DEF SaveSet
    <3> QED
      BY <1>6, <3>5 DEF Reconnect, removalVars
  <2> QED
    BY <2>1, <2>2
<1>7. ASSUME CancelRemoval \/ (\E p \in People : AskRemoval(p)) PROVE PanelIInv'
  <2>1. UNCHANGED <<online, dialog, editing, form, saving, deleting, removals>>
    BY <1>7 DEF CancelRemoval, AskRemoval, dialogVars
  <2> QED
    BY <2>1
<1>8. ASSUME ConfirmRemoval PROVE PanelIInv'
  BY <1>8 DEF ConfirmRemoval, dialogVars
<1>9. ASSUME NEW k \in removals, NEW ok \in BOOLEAN, RemovalAnswered(k, ok) PROVE PanelIInv'
  <2>1. UNCHANGED <<online, dialog, editing, form, saving>>
    BY <1>9 DEF RemovalAnswered, dialogVars
  <2>2. deleting' # NoPerson => [user |-> deleting', latest |-> TRUE] \in removals'
    <3>1. CASE k.latest
      BY <1>9, <3>1 DEF RemovalAnswered
    <3>2. CASE ~k.latest
      <4>1. deleting' = deleting /\ removals' = removals \ {k}
        BY <1>9, <3>2 DEF RemovalAnswered
      <4>2. k # [user |-> deleting, latest |-> TRUE]
        BY <3>2
      <4> QED
        BY <4>1, <4>2
    <3> QED
      BY <3>1, <3>2
  <2> QED
    BY <2>1, <2>2
<1> QED
  BY <1>1, <1>2, <1>3, <1>4, <1>5, <1>6, <1>7, <1>8, <1>9 DEF UsersPanelNext

(* Whatever is closed, opened for another and answered late, the dialog    *)
(* shows the user it names and a save sends that user's own data.          *)
THEOREM UsersPanelHolds == UsersPanelSpec => []UsersPanelInv
<1>1. PanelIInv => UsersPanelInv
  BY DEF PanelIInv
<1> QED
  BY <1>1, PanelStart, PanelStep, PTL DEF UsersPanelSpec

-----------------------------------------------------------------------------
(* PushSubscriptions.                                                      *)
RequestSet ==
  [n : Tickets, kind : {"subscribe", "unsubscribe"}, user : Subscribers, endpoint : Endpoints,
   at : {"out", "late", "answered"}]

Waits(kind) == IF kind = "subscribe" THEN "subscribing" ELSE "unsubscribing"

PushTypes ==
  /\ sub \in Endpoints \cup {NoEndpoint} /\ old \subseteq Endpoints
  /\ me \in Subscribers /\ shown \in BOOLEAN
  /\ hook \in {"mounting", "rest", "subscribing", "unsubscribing"}
  /\ asked \subseteq RequestSet
  /\ row \in [Endpoints -> Subscribers \cup {Nobody}]
  /\ notice \in [Notices -> SUBSET Endpoints]
  /\ unsure \in BOOLEAN /\ stuck \in BOOLEAN

(* A request is about the subscription there is or one that is gone; one   *)
(* that the page waits for is the user's, about the subscription there is, *)
(* and the page waits for one at most.                                     *)
AskedOK ==
  /\ \A q \in asked :
       /\ q.endpoint \in old \cup {sub}
       /\ q.at # "late" => hook = Waits(q.kind) /\ q.endpoint = sub /\ q.user = me
  /\ \A p, q \in asked : p.at # "late" /\ q.at # "late" => p = q

(* The row of an endpoint is that of the user who switched on last, or was *)
(* taken because the endpoint is gone.                                     *)
Backed(e) == row[e] = by \/ (e \in old /\ row[e] = Nobody)

(* As long as nothing was given up, no request that was is under way about *)
(* the subscription, and its row is there once answered.                   *)
SureOK ==
  ~unsure =>
    /\ ~LateAbout(sub)
    /\ hook \in {"mounting", "rest"} /\ sub # NoEndpoint => Backed(sub)
    /\ hook = "subscribing" /\ Served # {} => Backed(sub)

SwitchOK ==
  /\ hook = "mounting" => ~shown
  /\ hook = "subscribing" => shown /\ sub # NoEndpoint /\ by = me
  /\ hook = "unsubscribing" => ~shown /\ sub # NoEndpoint
  /\ hook = "rest" /\ ~stuck => (shown <=> sub # NoEndpoint)
  /\ hook = "rest" /\ shown /\ ~unsure => sub # NoEndpoint

PushIInv == PushTypes /\ AskedOK /\ SureOK /\ SwitchOK

LEMMA PushImplied == PushIInv => PushInv
<1> SUFFICES ASSUME PushIInv PROVE PushInv
  OBVIOUS
<1>1. PushTypeOK
  BY DEF PushIInv, PushTypes, PushTypeOK, RequestSet
<1>2. ShownIsStored
  BY DEF PushIInv, SureOK, SwitchOK, ShownIsStored, Backed
<1>3. ShownIsSubscribed
  BY DEF PushIInv, SwitchOK, ShownIsSubscribed
<1> QED
  BY <1>1, <1>2, <1>3 DEF PushInv

LEMMA PushStart == PushInit => PushIInv
BY PushAssumption DEF PushInit, PushIInv, PushTypes, AskedOK, SureOK, SwitchOK, LateAbout, Served

(* A step that leaves the browser, the page and the requests alone.        *)
LEMMA ServerStep ==
  ASSUME PushIInv, UNCHANGED <<sub, old, shown, me, hook, asked, by, stuck>>,
         row' \in [Endpoints -> Subscribers \cup {Nobody}], notice' \in [Notices -> SUBSET Endpoints],
         \/ unsure' = TRUE
         \/ unsure' = unsure /\ \A e \in Endpoints : row'[e] = row[e] \/ (e \in old /\ row'[e] = Nobody)
  PROVE  PushIInv'
<1>1. PushTypes' /\ AskedOK' /\ SwitchOK'
  BY DEF PushIInv, PushTypes, AskedOK, SwitchOK
<1>2. SureOK'
  <2>1. CASE unsure' = TRUE
    BY <2>1 DEF SureOK
  <2>2. CASE unsure' = unsure /\ \A e \in Endpoints : row'[e] = row[e] \/ (e \in old /\ row'[e] = Nobody)
    <3>1. \A e \in Endpoints : Backed(e) => Backed(e)'
      BY <2>2 DEF Backed
    <3>2. (sub # NoEndpoint => sub \in Endpoints) /\ (hook = "subscribing" => sub # NoEndpoint)
      BY DEF PushIInv, PushTypes, SwitchOK
    <3>3. LateAbout(sub)' = LateAbout(sub) /\ Served' = Served
      BY DEF LateAbout, Served
    <3> QED
      BY <2>2, <3>1, <3>2, <3>3 DEF PushIInv, SureOK
  <2> QED
    BY <2>1, <2>2
<1> QED
  BY <1>1, <1>2 DEF PushIInv

(* What is given up goes on, and the page waits for nothing.               *)
LEMMA NoneWaitedFor ==
  ASSUME PushTypes
  PROVE  /\ GivenUp \subseteq RequestSet
         /\ \A q \in GivenUp : q.at = "late" /\ \E p \in asked : p.endpoint = q.endpoint /\ p.kind = q.kind
<1> SUFFICES ASSUME NEW p \in asked
             PROVE  LET q == [p EXCEPT !.at = "late"] IN
                    q \in RequestSet /\ q.at = "late" /\ p.endpoint = q.endpoint /\ p.kind = q.kind
  BY DEF GivenUp
<1>1. p \in RequestSet
  BY DEF PushTypes
<1> QED
  BY <1>1 DEF RequestSet

(* A page that asks waits for its answer.                                  *)
LEMMA AskedOne ==
  ASSUME PushTypes, NEW kind \in {"subscribe", "unsubscribe"}, NEW e \in Endpoints, Ask(kind, e)
  PROVE  \E q \in RequestSet :
           /\ asked' = asked \cup {q}
           /\ q.at = "out" /\ q.endpoint = e /\ q.kind = kind /\ q.user = me
<1> DEFINE t == CHOOSE n \in Unused : TRUE
           q == [n |-> t, kind |-> kind, user |-> me, endpoint |-> e, at |-> "out"]
<1>1. t \in Tickets
  BY DEF Ask, Unused
<1>2. asked' = asked \cup {q}
  BY DEF Ask
<1> HIDE DEF t
<1>3. q \in RequestSet /\ q.at = "out" /\ q.endpoint = e /\ q.kind = kind /\ q.user = me
  BY <1>1 DEF PushTypes, RequestSet
<1> HIDE DEF q
<1> QED
  BY <1>2, <1>3

LEMMA PageKeeps ==
  ASSUME PushIInv, Ready \/ Unsubscribe \/ Reload
  PROVE  PushIInv'
<1> USE DEF PushIInv
<1>1. CASE Ready
  <2>1. /\ hook = "mounting" /\ hook' = "rest" /\ shown' = (sub # NoEndpoint)
        /\ UNCHANGED <<sub, old, me, asked, row, notice, by, unsure, stuck>>
    BY <1>1 DEF Ready, pushHistory
  <2>2. PushTypes' /\ AskedOK' /\ SwitchOK'
    BY <2>1 DEF PushTypes, AskedOK, SwitchOK, Waits
  <2>3. SureOK'
    BY <2>1 DEF SureOK, LateAbout, Backed
  <2> QED
    BY <2>2, <2>3
<1>2. CASE Unsubscribe
  <2>1. CASE sub = NoEndpoint
    <3>1. /\ hook = "rest" /\ shown' = FALSE /\ shown
          /\ UNCHANGED <<sub, old, me, hook, asked, row, notice, by, unsure, stuck>>
      BY <1>2, <2>1 DEF Unsubscribe, pushHistory
    <3>2. PushTypes' /\ AskedOK' /\ SwitchOK'
      BY <2>1, <3>1 DEF PushTypes, AskedOK, SwitchOK
    <3>3. SureOK'
      BY <2>1, <3>1 DEF SureOK, LateAbout, Backed
    <3> QED
      BY <3>2, <3>3
  <2>2. CASE sub # NoEndpoint
    <3>1. /\ hook = "rest" /\ hook' = "unsubscribing" /\ ~shown' /\ shown' \in BOOLEAN
          /\ UNCHANGED <<sub, old, me, row, notice, by, unsure, stuck>> /\ sub \in Endpoints
          /\ Ask("unsubscribe", sub)
      BY <1>2, <2>2 DEF Unsubscribe, pushHistory, PushTypes
    <3>2. PICK q \in RequestSet : /\ asked' = asked \cup {q} /\ q.at = "out" /\ q.endpoint = sub
                                  /\ q.kind = "unsubscribe" /\ q.user = me
      BY <3>1, AskedOne
    <3>3. PushTypes'
      BY <3>1, <3>2 DEF PushTypes
    <3>4. AskedOK'
      BY <3>1, <3>2 DEF AskedOK, Waits, PushTypes, RequestSet
    <3>5. SureOK' /\ SwitchOK'
      BY <2>2, <3>1, <3>2 DEF SureOK, SwitchOK, LateAbout
    <3> QED
      BY <3>3, <3>4, <3>5
  <2> QED
    BY <2>1, <2>2
<1>3. CASE Reload
  <2>1. /\ me' \in Subscribers /\ hook' = "mounting" /\ ~shown' /\ shown' \in BOOLEAN
        /\ asked' = GivenUp /\ unsure' = (unsure \/ hook \in {"subscribing", "unsubscribing"})
        /\ UNCHANGED <<sub, old, row, notice, by, stuck>>
    BY <1>3 DEF Reload
  <2>2. /\ asked' \subseteq RequestSet
        /\ \A q \in asked' : q.at = "late" /\ \E p \in asked : p.endpoint = q.endpoint /\ p.kind = q.kind
    BY <2>1, NoneWaitedFor
  <2>3. PushTypes' /\ AskedOK' /\ SwitchOK'
    BY <2>1, <2>2 DEF PushTypes, AskedOK, SwitchOK
  <2>4. SureOK'
    <3>1. SUFFICES ASSUME ~unsure, hook \in {"mounting", "rest"}
                   PROVE  ~LateAbout(sub)' /\ (sub # NoEndpoint => Backed(sub)')
      BY <2>1 DEF SureOK, PushTypes
    <3>2. \A p \in asked : p.at = "late"
      BY <3>1 DEF AskedOK, Waits
    <3>3. ~LateAbout(sub)'
      BY <2>1, <2>2, <3>1, <3>2 DEF SureOK, LateAbout
    <3> QED
      BY <2>1, <3>1, <3>3 DEF SureOK, Backed
  <2> QED
    BY <2>3, <2>4
<1> QED
  BY <1>1, <1>2, <1>3

LEMMA SubscribeKeeps ==
  ASSUME PushIInv, Subscribe
  PROVE  PushIInv'
<1> USE DEF PushIInv
<1>1. /\ hook \in {"mounting", "rest"} /\ shown' = TRUE /\ hook' = "subscribing" /\ by' = me
      /\ UNCHANGED <<old, me, row, notice, unsure, stuck>>
      /\ sub' \in Endpoints /\ (sub # NoEndpoint => sub' = sub) /\ (sub = NoEndpoint => sub' \notin old)
      /\ Ask("subscribe", sub')
  BY DEF Subscribe, PushTypes
<1>2. PICK q \in RequestSet : /\ asked' = asked \cup {q} /\ q.at = "out" /\ q.endpoint = sub'
                              /\ q.kind = "subscribe" /\ q.user = me
  <2>1. PICK e \in Endpoints : e = sub'
    BY <1>1
  <2>2. Ask("subscribe", e)
    BY <1>1, <2>1
  <2> QED
    BY <2>1, <2>2, AskedOne
<1>3. PushTypes'
  BY <1>1, <1>2 DEF PushTypes
<1>4. \A p \in asked : p.endpoint \in Endpoints /\ p.endpoint \in old \cup {sub} /\ p.at = "late"
  BY <1>1 DEF PushTypes, RequestSet, AskedOK, Waits
<1>5. AskedOK'
  BY <1>1, <1>2, <1>4, PushAssumption DEF AskedOK, Waits
<1>6. Served' = {}
  BY <1>2, <1>4 DEF Served
<1>7. ~unsure => ~LateAbout(sub)'
  BY <1>1, <1>2, <1>4, PushAssumption DEF SureOK, LateAbout
<1>8. SureOK'
  BY <1>1, <1>6, <1>7 DEF SureOK
<1>9. SwitchOK'
  BY <1>1, PushAssumption DEF SwitchOK
<1> QED
  BY <1>3, <1>5, <1>8, <1>9

(* The subscription lapses, and the browser drops it or not.               *)
LEMMA LapseKeeps ==
  ASSUME PushIInv, Lapse
  PROVE  PushIInv'
<1> USE DEF PushIInv
<1>1. /\ sub \in Endpoints /\ old' = old \cup {sub} /\ UNCHANGED <<me, shown, hook, asked, row, notice, by>>
      /\ Served' = Served /\ sub # NoEndpoint
  BY PushAssumption DEF Lapse, PushTypes, Served
<1>2. CASE UNCHANGED <<sub, unsure, stuck>>
  <2>1. PushTypes' /\ AskedOK' /\ SwitchOK'
    BY <1>1, <1>2 DEF PushTypes, AskedOK, SwitchOK
  <2>2. (Backed(sub) => Backed(sub)') /\ LateAbout(sub)' = LateAbout(sub)
    BY <1>1, <1>2 DEF Backed, LateAbout
  <2>3. SureOK'
    BY <1>1, <1>2, <2>2 DEF SureOK
  <2> QED
    BY <2>1, <2>3
<1>3. CASE /\ hook \in {"mounting", "rest"} /\ sub' = NoEndpoint
           /\ unsure' = (unsure \/ hook = "rest") /\ stuck' = (stuck \/ hook = "rest")
  <2>1. PushTypes'
    BY <1>1, <1>3 DEF PushTypes
  <2>2. AskedOK'
    BY <1>1, <1>3 DEF AskedOK, Waits
  <2>3. SwitchOK'
    BY <1>1, <1>3 DEF SwitchOK
  <2>4. ~LateAbout(sub)'
    BY <1>1, <1>3, PushAssumption DEF LateAbout, PushTypes, RequestSet
  <2>5. SureOK'
    BY <1>1, <1>3, <2>4 DEF SureOK
  <2> QED
    BY <2>1, <2>2, <2>3, <2>5
<1> QED
  BY <1>2, <1>3 DEF Lapse

(* The end of a call: the subscription is given up, or stays.              *)
LEMMA GaveUp ==
  ASSUME PushIInv, GiveUpSubscription, hook \in {"subscribing", "unsubscribing"}, hook' = "rest", ~shown', shown' \in BOOLEAN,
         asked' \subseteq RequestSet, \A q \in asked' : q.at = "late" /\ \E p \in asked : p.endpoint = q.endpoint,
         UNCHANGED <<me, row, notice, by, stuck, unsure>>
  PROVE  PushIInv'
<1> USE DEF PushIInv
<1>1. sub \in Endpoints /\ sub' = NoEndpoint /\ old' = old \cup {sub}
  BY DEF GiveUpSubscription, SwitchOK, PushTypes
<1>2. PushTypes'
  BY <1>1 DEF PushTypes
<1>3. AskedOK'
  BY <1>1 DEF AskedOK
<1>4. SureOK'
  BY <1>1, PushAssumption DEF SureOK, RequestSet, LateAbout
<1>5. SwitchOK'
  BY <1>1 DEF SwitchOK
<1> QED
  BY <1>2, <1>3, <1>4, <1>5

LEMMA StayedUnsure ==
  ASSUME PushIInv, UNCHANGED <<sub, old, me, row, notice, by>>, hook \in {"subscribing", "unsubscribing"}, hook' = "rest",
         shown' \in BOOLEAN, stuck' \in BOOLEAN, unsure' = TRUE, shown' \/ stuck',
         asked' \subseteq RequestSet, \A q \in asked' : q.at = "late" /\ \E p \in asked : p.endpoint = q.endpoint
  PROVE  PushIInv'
<1> USE DEF PushIInv
<1>1. sub # NoEndpoint
  BY DEF SwitchOK
<1>2. PushTypes' /\ AskedOK' /\ SureOK'
  BY DEF PushTypes, AskedOK, SureOK
<1>3. SwitchOK'
  BY <1>1 DEF SwitchOK
<1> QED
  BY <1>2, <1>3

(* The answer was the one the page waits for: the rest is late.            *)
LEMMA LateIsLeft ==
  ASSUME PushIInv, Served # {}
  PROVE  /\ asked \ Served \subseteq RequestSet
         /\ \A q \in asked \ Served : q.at = "late" /\ \E p \in asked : p.endpoint = q.endpoint
<1>1. asked \subseteq RequestSet /\ \A p, q \in asked : p.at # "late" /\ q.at # "late" => p = q
  BY DEF PushIInv, PushTypes, AskedOK
<1>2. PICK a \in asked : a.at = "answered"
  BY DEF Served
<1> SUFFICES ASSUME NEW q \in asked \ Served PROVE q.at = "late"
  BY <1>1
<1>3. q.at # "late" => q = a
  BY <1>1, <1>2
<1> QED
  BY <1>2, <1>3 DEF Served

LEMMA EndsKeep ==
  ASSUME PushIInv, TakeSubscribed \/ SubscribeFails \/ TakeUnsubscribed \/ UnsubscribeFails
  PROVE  PushIInv'
<1> USE DEF PushIInv
<1>0. PushTypes /\ shown \in BOOLEAN /\ stuck \in BOOLEAN
  BY DEF PushTypes
<1>1. CASE TakeSubscribed
  <2>1. /\ hook = "subscribing" /\ Served # {} /\ asked' = asked \ Served /\ hook' = "rest"
        /\ UNCHANGED <<sub, old, shown, me, row, notice, by, unsure, stuck>>
    BY <1>1 DEF TakeSubscribed, browser, pushHistory
  <2>2. asked' \subseteq RequestSet /\ asked' \subseteq asked /\ \A q \in asked' : q.at = "late"
    BY <2>1, LateIsLeft
  <2>3. PushTypes' /\ AskedOK' /\ SwitchOK'
    BY <2>1, <2>2 DEF PushTypes, AskedOK, SwitchOK
  <2>4. SureOK'
    <3>1. ~LateAbout(sub) => ~LateAbout(sub)'
      BY <2>1, <2>2 DEF LateAbout
    <3> QED
      BY <2>1, <3>1 DEF SureOK, Backed
  <2> QED
    BY <2>3, <2>4
<1>2. CASE SubscribeFails
  <2>1. /\ hook = "subscribing" /\ hook' = "rest" /\ ~shown' /\ shown' \in BOOLEAN
        /\ asked' = GivenUp /\ UNCHANGED <<me, row, notice, by>>
    BY <1>2 DEF SubscribeFails
  <2>2. /\ asked' \subseteq RequestSet
        /\ \A q \in asked' : q.at = "late" /\ \E p \in asked : p.endpoint = q.endpoint
    BY <1>0, <2>1, NoneWaitedFor
  <2>3. \/ GiveUpSubscription /\ UNCHANGED <<stuck, unsure>>
        \/ UNCHANGED <<sub, old>> /\ stuck' = TRUE /\ unsure' = TRUE
    BY <1>2 DEF SubscribeFails
  <2> QED
    BY <2>1, <2>2, <2>3, GaveUp, StayedUnsure
<1>3. CASE TakeUnsubscribed
  <2>1. /\ hook = "unsubscribing" /\ hook' = "rest" /\ Served # {} /\ asked' = asked \ Served
        /\ UNCHANGED <<me, row, notice, by, stuck>>
    BY <1>3 DEF TakeUnsubscribed
  <2>2. /\ asked' \subseteq RequestSet
        /\ \A q \in asked' : q.at = "late" /\ \E p \in asked : p.endpoint = q.endpoint
    BY <2>1, LateIsLeft
  <2>3. \/ GiveUpSubscription /\ UNCHANGED <<shown, unsure>>
        \/ UNCHANGED <<sub, old>> /\ shown' = TRUE /\ unsure' = TRUE
    BY <1>3 DEF TakeUnsubscribed
  <2>4. CASE GiveUpSubscription /\ UNCHANGED <<shown, unsure>>
    <3>1. ~shown' /\ shown' \in BOOLEAN
      BY <1>0, <2>1, <2>4 DEF SwitchOK
    <3> QED
      BY <2>1, <2>2, <2>4, <3>1, GaveUp
  <2>5. CASE UNCHANGED <<sub, old>> /\ shown' = TRUE /\ unsure' = TRUE
    <3>1. (shown' \/ stuck') /\ shown' \in BOOLEAN /\ stuck' \in BOOLEAN
      BY <1>0, <2>1, <2>5
    <3> QED
      BY <2>1, <2>2, <2>5, <3>1, StayedUnsure
  <2> QED
    BY <2>3, <2>4, <2>5
<1>4. CASE UnsubscribeFails
  <2>1. /\ hook = "unsubscribing" /\ hook' = "rest" /\ asked' = GivenUp
        /\ UNCHANGED <<me, row, notice, by>>
    BY <1>4 DEF UnsubscribeFails
  <2>2. /\ asked' \subseteq RequestSet
        /\ \A q \in asked' : q.at = "late" /\ \E p \in asked : p.endpoint = q.endpoint
    BY <1>0, <2>1, NoneWaitedFor
  <2>3. \/ GiveUpSubscription /\ UNCHANGED <<shown, unsure, stuck>>
        \/ UNCHANGED <<sub, old, shown>> /\ stuck' = TRUE /\ unsure' = TRUE
        \/ shown' = TRUE /\ unsure' = TRUE /\ UNCHANGED <<sub, old, stuck>>
    BY <1>4 DEF UnsubscribeFails
  <2>4. CASE GiveUpSubscription /\ UNCHANGED <<shown, unsure, stuck>>
    <3>1. ~shown' /\ shown' \in BOOLEAN
      BY <1>0, <2>1, <2>4 DEF SwitchOK
    <3> QED
      BY <2>1, <2>2, <2>4, <3>1, GaveUp
  <2>5. CASE UNCHANGED <<sub, old, shown>> /\ stuck' = TRUE /\ unsure' = TRUE
    BY <1>0, <2>1, <2>2, <2>5, StayedUnsure
  <2>6. CASE shown' = TRUE /\ unsure' = TRUE /\ UNCHANGED <<sub, old, stuck>>
    BY <1>0, <2>1, <2>2, <2>6, StayedUnsure
  <2> QED
    BY <2>3, <2>4, <2>5, <2>6
<1> QED
  BY <1>1, <1>2, <1>3, <1>4

(* What an answer leaves of the requests.                                  *)
LEMMA AnswerLeaves ==
  ASSUME PushIInv, NEW q \in asked, Answer(q), UNCHANGED <<sub, old, me, hook>>
  PROVE  /\ asked' \subseteq RequestSet /\ AskedOK'
         /\ LateAbout(sub)' => LateAbout(sub)
         /\ Served' # {} => Served # {} \/ q.at = "out"
<1>1. q \in RequestSet /\ q.endpoint \in old \cup {sub}
  BY DEF PushIInv, PushTypes, AskedOK
<1> DEFINE p == [q EXCEPT !.at = "answered"]
<1>2. p \in RequestSet /\ p.at = "answered" /\ p.kind = q.kind /\ p.endpoint = q.endpoint /\ p.user = q.user
  BY <1>1 DEF RequestSet
<1>3. \/ asked' = asked \ {q}
      \/ asked' = (asked \ {q}) \cup {p} /\ q.at = "out"
  BY DEF Answer
<1> HIDE DEF p
<1>4. asked \subseteq RequestSet /\ AskedOK
  BY DEF PushIInv, PushTypes
<1>5. AskedOK'
  BY <1>2, <1>3, <1>4 DEF AskedOK
<1> QED
  BY <1>2, <1>3, <1>4, <1>5 DEF LateAbout, Served

LEMMA ServeKeeps ==
  ASSUME PushIInv, NEW q \in asked, ServeSubscribe(q) \/ ServeUnsubscribe(q) \/ Lose(q)
  PROVE  PushIInv'
<1> USE DEF PushIInv
<1>1. /\ q \in RequestSet /\ q.at \in {"out", "late", "answered"} /\ q.kind \in {"subscribe", "unsubscribe"}
      /\ q.endpoint \in Endpoints /\ q.user \in Subscribers /\ (sub # NoEndpoint => sub \in Endpoints)
      /\ row \in [Endpoints -> Subscribers \cup {Nobody}]
  BY DEF PushTypes, RequestSet
<1>2. CASE Lose(q)
  <2>1. asked' = asked \ {q} /\ UNCHANGED <<sub, old, shown, me, hook, row, notice, by, unsure, stuck>>
    BY <1>2 DEF Lose, browser, pushHistory
  <2>2. PushTypes' /\ AskedOK' /\ SwitchOK'
    BY <2>1 DEF PushTypes, AskedOK, SwitchOK
  <2>3. SureOK'
    BY <2>1 DEF SureOK, LateAbout, Served, Backed
  <2> QED
    BY <2>2, <2>3
<1>3. CASE ServeSubscribe(q)
  <2>1. /\ q.kind = "subscribe" /\ q.at # "answered" /\ row' = [row EXCEPT ![q.endpoint] = q.user] /\ Answer(q)
        /\ unsure' = (unsure /\ (q.at = "late" \/ LateAbout(sub)))
        /\ UNCHANGED <<sub, old, shown, me, hook, by, stuck>> /\ notice' \in [Notices -> SUBSET Endpoints]
    BY <1>3 DEF ServeSubscribe, browser, PushTypes
  <2>2. /\ asked' \subseteq RequestSet /\ AskedOK' /\ (LateAbout(sub)' => LateAbout(sub))
        /\ Served' # {} => Served # {} \/ q.at = "out"
    BY <2>1, AnswerLeaves
  <2>3. /\ row' \in [Endpoints -> Subscribers \cup {Nobody}] /\ row'[q.endpoint] = q.user
        /\ \A e \in Endpoints : e # q.endpoint => row'[e] = row[e]
    BY <1>1, <2>1
  <2>4. PushTypes'
    BY <2>1, <2>2, <2>3 DEF PushTypes
  <2>5. SwitchOK'
    BY <2>1, <2>2 DEF SwitchOK, SureOK, AskedOK, Waits
  <2>6. q.at = "out" => hook = "subscribing" /\ q.endpoint = sub /\ q.user = by
    BY <2>1 DEF AskedOK, Waits, SwitchOK
  <2>7. SureOK'
    <3>1. SUFFICES ASSUME ~unsure'
                   PROVE  /\ ~LateAbout(sub)'
                          /\ hook \in {"mounting", "rest"} /\ sub # NoEndpoint => Backed(sub)'
                          /\ hook = "subscribing" /\ Served' # {} => Backed(sub)'
      BY <2>1 DEF SureOK
    <3>2. ~LateAbout(sub)
      BY <2>1, <3>1 DEF SureOK
    <3>3. CASE q.at = "out"
      BY <2>1, <2>2, <2>3, <2>6, <3>2, <3>3 DEF Backed
    <3>4. CASE q.at = "late"
      <4>1. ~unsure /\ q.endpoint # sub
        BY <2>1, <3>1, <3>2, <3>4 DEF LateAbout
      <4>2. sub # NoEndpoint => Backed(sub)' = Backed(sub)
        BY <1>1, <2>1, <2>3, <4>1 DEF Backed
      <4>3. hook = "subscribing" => sub # NoEndpoint
        BY DEF SwitchOK
      <4> QED
        BY <2>1, <2>2, <3>2, <3>4, <4>1, <4>2, <4>3 DEF SureOK
    <3> QED
      BY <1>1, <2>1, <3>3, <3>4
  <2> QED
    BY <2>2, <2>4, <2>5, <2>7
<1>4. CASE ServeUnsubscribe(q)
  <2>1. /\ q.kind = "unsubscribe" /\ q.at # "answered" /\ Answer(q)
        /\ row' = [row EXCEPT ![q.endpoint] = IF @ = q.user THEN Nobody ELSE @]
        /\ UNCHANGED <<sub, old, shown, me, hook, by, stuck, unsure, notice>>
    BY <1>4 DEF ServeUnsubscribe, browser, pushHistory
  <2>2. /\ asked' \subseteq RequestSet /\ AskedOK' /\ (LateAbout(sub)' => LateAbout(sub))
        /\ Served' # {} => Served # {} \/ q.at = "out"
    BY <2>1, AnswerLeaves
  <2>3. /\ row' \in [Endpoints -> Subscribers \cup {Nobody}]
        /\ \A e \in Endpoints : e # q.endpoint => row'[e] = row[e]
    BY <1>1, <2>1
  <2>4. PushTypes'
    BY <2>1, <2>2, <2>3 DEF PushTypes
  <2>5. SwitchOK'
    BY <2>1 DEF SwitchOK
  <2>6. SureOK'
    <3>1. q.at = "out" => hook = "unsubscribing"
      BY <2>1 DEF AskedOK, Waits
    <3>2. q.at # "late" => q.at = "out"
      BY <1>1, <2>1
    <3>3. ~unsure /\ q.at = "late" => q.endpoint # sub
      BY DEF SureOK, LateAbout
    <3>4. sub # NoEndpoint /\ q.endpoint # sub => Backed(sub)' = Backed(sub)
      BY <1>1, <2>1, <2>3 DEF Backed
    <3>5. hook = "subscribing" => sub # NoEndpoint
      BY DEF SwitchOK
    <3> QED
      BY <2>1, <2>2, <3>1, <3>2, <3>3, <3>4, <3>5 DEF SureOK
  <2> QED
    BY <2>2, <2>4, <2>5, <2>6
<1> QED
  BY <1>2, <1>3, <1>4

LEMMA NoticesKeep ==
  ASSUME PushIInv, \/ \E u \in Subscribers : DeleteRows(u)
                   \/ \E n \in Notices, users \in SUBSET Subscribers : Notify(n, users)
                   \/ \E n \in Notices, e \in Endpoints : Send(n, e)
  PROVE  PushIInv'
<1>1. /\ row \in [Endpoints -> Subscribers \cup {Nobody}] /\ notice \in [Notices -> SUBSET Endpoints]
  BY DEF PushIInv, PushTypes
<1>2. ASSUME NEW u \in Subscribers, DeleteRows(u) PROVE PushIInv'
  BY <1>1, <1>2, ServerStep DEF DeleteRows, browser
<1>3. ASSUME NEW n \in Notices, NEW users \in SUBSET Subscribers, Notify(n, users) PROVE PushIInv'
  <2>1. notice' \in [Notices -> SUBSET Endpoints]
    BY <1>1, <1>3 DEF Notify
  <2> QED
    BY <1>1, <1>3, <2>1, ServerStep DEF Notify, browser, pushHistory
<1>4. ASSUME NEW n \in Notices, NEW e \in Endpoints, Send(n, e) PROVE PushIInv'
  <2>1. PICK left : Tried(n, e, left) /\ left = IF e \in old THEN [row EXCEPT ![e] = Nobody] ELSE row
    BY <1>4 DEF Send
  <2>2. row' = left /\ notice' \in [Notices -> SUBSET Endpoints]
    BY <1>1, <2>1 DEF Tried
  <2>3. /\ row' \in [Endpoints -> Subscribers \cup {Nobody}]
        /\ \A x \in Endpoints : row'[x] = row[x] \/ (x \in old /\ row'[x] = Nobody)
    BY <1>1, <2>1, <2>2
  <2> QED
    BY <2>1, <2>2, <2>3, ServerStep DEF Tried, browser, pushHistory
<1> QED
  BY <1>2, <1>3, <1>4

LEMMA PushStep == PushIInv /\ [PushNext]_pushVars => PushIInv'
<1> SUFFICES ASSUME PushIInv, [PushNext]_pushVars PROVE PushIInv'
  OBVIOUS
<1>1. CASE UNCHANGED pushVars
  BY <1>1 DEF pushVars, pushHistory, PushIInv, PushTypes, AskedOK, SureOK, SwitchOK, LateAbout, Served, Backed
<1>2. CASE PushNext
  <2>1. ASSUME NEW n \in Notices, NEW users \in SUBSET Subscribers, Notify(n, users) PROVE PushIInv'
    BY <2>1, NoticesKeep
  <2>2. ASSUME NEW n \in Notices,
               (\E u \in Subscribers : Notify(n, {u})) \/ Notify(n, Subscribers) \/ (\E e \in Endpoints : Send(n, e))
        PROVE  PushIInv'
    <3>1. \A u \in Subscribers : {u} \in SUBSET Subscribers
      OBVIOUS
    <3>2. Subscribers \in SUBSET Subscribers
      OBVIOUS
    <3> QED
      BY <2>1, <2>2, <3>1, <3>2, NoticesKeep
  <2>3. ASSUME \/ \E u \in Subscribers : DeleteRows(u)
               \/ \E n \in Notices, e \in Endpoints : Send(n, e)
        PROVE  PushIInv'
    BY <2>3, NoticesKeep
  <2> QED
    BY <1>2, <2>3, <2>2, PageKeeps, SubscribeKeeps, LapseKeeps, EndsKeep, ServeKeeps DEF PushNext
<1> QED
  BY <1>1, <1>2

(* A switch that is on has a row of the user who switched on last behind   *)
(* it, or the push service let the subscription lapse; and it tells what   *)
(* the browser has; unless a request was given up, rows were deleted with  *)
(* their user, or the browser refused or dropped a subscription.           *)
THEOREM PushHolds == PushSpec => []PushInv
BY PushStart, PushStep, PushImplied, PTL DEF PushSpec

(* Screening.  What a photo's answer must lead to: one that must be seen   *)
(* alerts, and one that alerts is not vouched for.                         *)
LEMMA SeenAlerts ==
  ASSUME NEW r \in Replies, MustBeSeen(r)
  PROVE  ShouldAlert(Result(r))
<1>1. CASE r.kind # "answer"
  BY <1>1 DEF Replies, MustBeSeen, Result, ShouldAlert
<1>2. CASE r.kind = "answer"
  <2>1. /\ r.verdict \in Verdicts \cup {"none"} /\ r.waste \in {"yes", "no", "unsaid"}
        /\ r.nonWaste \in BOOLEAN /\ r.names \in {"none", "expected", "other"}
    BY <1>2 DEF Replies
  <2>2. Result(r).nonWaste = r.nonWaste
    BY <1>2 DEF Result
  <2>3. ~Vouches(r) => Result(r).verdict \in Verdicts \ {"MATCHING_WASTE"}
    BY <1>2, <2>1 DEF Vouches, Result, ParseVerdict, IsWaste, Verdicts
  <2>4. r.confidence # Unrated => Result(r).confidence = r.confidence
    BY <1>2 DEF Result
  <2>5. CASE ~Vouches(r) /\ r.confidence # Unrated /\ \A v \in Verdicts \ {"MATCHING_WASTE"} : r.confidence >= AlertFrom[v]
    BY <2>3, <2>4, <2>5 DEF ShouldAlert
  <2>6. CASE r.nonWaste /\ (r.verdict = "NON_WASTE" \/ (r.verdict = "none" /\ r.waste # "yes"))
    <3>1. Result(r).verdict = "NON_WASTE"
      BY <1>2, <2>1, <2>6 DEF Result, ParseVerdict, IsWaste, Verdicts
    <3> QED
      BY <2>2, <2>6, <3>1 DEF ShouldAlert
  <2> QED
    BY <1>2, <2>5, <2>6 DEF MustBeSeen
<1> QED
  BY <1>1, <1>2

LEMMA AlertsAreDoubts ==
  ASSUME NEW r \in Replies, ShouldAlert(Result(r))
  PROVE  ~Vouches(r)
<1> SUFFICES ASSUME Vouches(r) PROVE FALSE
  OBVIOUS
<1>1. r.kind = "answer" /\ r.names # "other"
  BY DEF Vouches
<1>2. r.verdict \in Verdicts \cup {"none"} /\ r.waste \in {"yes", "no", "unsaid"} /\ r.nonWaste \in BOOLEAN
  BY <1>1 DEF Replies
<1>3. Result(r).verdict = "MATCHING_WASTE" /\ ~Result(r).fallback
  BY <1>1, <1>2 DEF Vouches, Result, ParseVerdict, IsWaste, Verdicts
<1> QED
  BY <1>3 DEF ShouldAlert

(* The order reads its pickups in turn once all their rows are made; a     *)
(* check stays "looking" while a photo waits; a photo that had to be seen  *)
(* is among the suspicious ones, and those are doubtful.                   *)
ScreenTypes ==
  /\ next \in Nat \ {0} /\ booking \in [Pickups -> {"none", "going", "made", "failed"}]
  /\ check \in [Pickups -> {"rest", "looking", "clean", "asking", "noting", "given up"}]
  /\ waiting = [p \in Pickups |-> waiting[p]] /\ suspicious = [p \in Pickups |-> suspicious[p]]

OrderOK ==
  /\ confirmed = 1 .. next - 1 /\ next <= Cardinality(Pickups) + 1
  /\ order \in {"rest", "creating"} => next = 1
  /\ order = "telling" => next <= Cardinality(Pickups)
  /\ order \in {"clearing", "ok"} => next = Cardinality(Pickups) + 1
  /\ (next # 1 \/ order \in {"telling", "clearing", "ok"}) => \A p \in Pickups : booking[p] = "made"

CheckOf(p) ==
  /\ check[p] = "rest" <=> p >= next
  /\ check[p] = "rest" => waiting[p] = {} /\ suspicious[p] = {}
  /\ check[p] \notin {"rest", "looking"} => waiting[p] = {}
  /\ check[p] = "clean" => suspicious[p] = {}
  /\ check[p] \in {"asking", "noting", "given up"} => suspicious[p] # {}
  /\ p \in owed => suspicious[p] # {}
  /\ suspicious[p] # {} => p \in doubtful

CheckOK == \A p \in Pickups : CheckOf(p)

ScreenIInv == ScreenTypes /\ OrderOK /\ CheckOK

LEMMA ScreenStart == ScreenInit => ScreenIInv
<1> SUFFICES ASSUME ScreenInit PROVE ScreenIInv
  OBVIOUS
<1>1. Cardinality(Pickups) \in Nat /\ Pickups \subseteq Nat \ {0}
  BY PickupsAssumption, FS_CardinalityType
<1> QED
  BY <1>1 DEF ScreenInit, ScreenIInv, ScreenTypes, OrderOK, CheckOK, CheckOf

LEMMA PickupsCounted == Cardinality(Pickups) \in Nat /\ Pickups = 1 .. Cardinality(Pickups)
BY PickupsAssumption, FS_CardinalityType

LEMMA RowEndKeeps ==
  ASSUME ScreenIInv, NEW p \in Pickups, NEW end \in {"made", "failed"}, RowEnds(p, end)
  PROVE  ScreenIInv'
<1> USE DEF ScreenIInv
<1>1. /\ booking[p] = "going" /\ booking' = [booking EXCEPT ![p] = end]
      /\ UNCHANGED <<next, confirmed, check, waiting, suspicious, owed, doubtful>>
  BY DEF RowEnds, checkVars
<1>2. next = 1 /\ order \notin {"telling", "clearing", "ok"}
  BY <1>1 DEF OrderOK
<1>3. \/ order' \notin {"telling", "clearing", "ok"}
      \/ order' = "telling" /\ \A q \in Pickups : booking'[q] = "made"
  BY <1>2 DEF RowEnds
<1>4. next <= Cardinality(Pickups)
  BY <1>2, PickupsCounted
<1>5. ScreenTypes' /\ CheckOK'
  BY <1>1 DEF ScreenTypes, CheckOK, CheckOf
<1>6. OrderOK'
  BY <1>1, <1>2, <1>3, <1>4 DEF OrderOK
<1> QED
  BY <1>5, <1>6

LEMMA TellKeeps == ASSUME ScreenIInv, TellCustomer PROVE ScreenIInv'
<1> USE DEF ScreenIInv
<1>1. /\ order = "telling" /\ next' = next + 1 /\ confirmed' = confirmed \cup {next}
      /\ order' = IF next = Cardinality(Pickups) THEN "clearing" ELSE order
      /\ waiting' = [waiting EXCEPT ![next] = PhotosOf[next]]
      /\ check' = [check EXCEPT ![next] = IF PhotosOf[next] = {} THEN "clean" ELSE "looking"]
      /\ UNCHANGED <<booking, suspicious, owed, doubtful>>
  BY DEF TellCustomer
<1>2. next \in Nat \ {0} /\ next <= Cardinality(Pickups) /\ confirmed = 1 .. next - 1
  BY <1>1 DEF ScreenTypes, OrderOK
<1>3. next \in Pickups
  BY <1>2, PickupsCounted
<1>4. check[next] = "rest" /\ waiting[next] = {} /\ suspicious[next] = {} /\ next \notin owed
  <2>1. next >= next
    BY <1>2
  <2> QED
    BY <1>3, <2>1 DEF CheckOK, CheckOf
<1>5. ScreenTypes'
  <2>1. next' \in Nat \ {0}
    BY <1>1, <1>2
  <2>2. /\ check' \in [Pickups -> {"rest", "looking", "clean", "asking", "noting", "given up"}]
        /\ waiting' = [p \in Pickups |-> waiting'[p]]
    BY <1>1 DEF ScreenTypes
  <2> QED
    BY <1>1, <2>1, <2>2 DEF ScreenTypes
<1>6. OrderOK'
  <2>1. confirmed' = 1 .. next' - 1
    BY <1>1, <1>2
  <2>2. \A p \in Pickups : booking'[p] = "made"
    BY <1>1 DEF OrderOK
  <2>3. order' \in {"telling", "clearing"}
    BY <1>1
  <2> QED
    BY <1>1, <1>2, <2>1, <2>2, <2>3, PickupsCounted DEF OrderOK
<1>7. CheckOK'
  <2>1. \A p \in Pickups : p # next => check'[p] = check[p] /\ waiting'[p] = waiting[p]
    BY <1>1 DEF ScreenTypes
  <2>2. /\ waiting'[next] = PhotosOf[next]
        /\ check'[next] = IF PhotosOf[next] = {} THEN "clean" ELSE "looking"
    BY <1>1, <1>3 DEF ScreenTypes
  <2>3. \A p \in Pickups : p # next => (p >= next <=> p >= next')
    BY <1>1, <1>2, PickupsCounted
  <2>4. ~(next >= next')
    BY <1>1, <1>2
  <2> QED
    <3>1. ASSUME NEW p \in Pickups, p # next PROVE CheckOf(p)'
      BY <1>1, <2>1, <2>3, <3>1 DEF CheckOK, CheckOf
    <3>2. ASSUME NEW p \in Pickups, p = next PROVE CheckOf(p)'
      <4>1. ~(p >= next') /\ suspicious'[p] = {} /\ p \notin owed'
        BY <1>1, <1>4, <2>4, <3>2
      <4>2. check'[p] \in {"clean", "looking"} /\ (check'[p] = "clean" => waiting'[p] = {})
        BY <2>2, <3>2
      <4> QED
        BY <4>1, <4>2 DEF CheckOf
    <3> QED
      BY <3>1, <3>2 DEF CheckOK
<1> QED
  BY <1>5, <1>6, <1>7

LEMMA LookKeeps ==
  ASSUME ScreenIInv, NEW p \in Pickups, NEW i \in PhotosOf[p], NEW r \in Replies, Look(p, i, r)
  PROVE  ScreenIInv'
<1> USE DEF ScreenIInv
<1>1. /\ i \in waiting[p] /\ waiting' = [waiting EXCEPT ![p] = @ \ {i}]
      /\ UNCHANGED <<order, booking, next, confirmed, check>>
  BY DEF Look
<1>2. OrderOK'
  BY <1>1 DEF OrderOK
<1>3. check[p] = "looking"
  BY <1>1 DEF CheckOK, CheckOf, ScreenTypes
<1>4. \A q \in Pickups : waiting'[q] \subseteq waiting[q]
  BY <1>1 DEF ScreenTypes
<1>5. CASE enabled /\ ShouldAlert(Result(r))
  <2>1. /\ suspicious' = [suspicious EXCEPT ![p] = @ \cup {i}]
        /\ doubtful' = doubtful \cup {p} /\ owed' \subseteq owed \cup {p}
    BY <1>5, AlertsAreDoubts DEF Look
  <2>2. ScreenTypes'
    BY <1>1, <2>1 DEF ScreenTypes
  <2>3. suspicious'[p] # {} /\ \A q \in Pickups : q # p => suspicious'[q] = suspicious[q]
    BY <2>1 DEF ScreenTypes
  <2>4. CheckOK'
    BY <1>1, <1>3, <1>4, <2>1, <2>3 DEF CheckOK, CheckOf
  <2> QED
    BY <1>2, <2>2, <2>4
<1>6. CASE ~(enabled /\ ShouldAlert(Result(r)))
  <2>1. UNCHANGED <<suspicious, owed>> /\ doubtful \subseteq doubtful'
    BY <1>6, SeenAlerts DEF Look
  <2>2. ScreenTypes'
    BY <1>1, <2>1 DEF ScreenTypes
  <2>3. CheckOK'
    BY <1>1, <1>4, <2>1 DEF CheckOK, CheckOf
  <2> QED
    BY <1>2, <2>2, <2>3
<1> QED
  BY <1>5, <1>6

LEMMA ChecksKeep ==
  ASSUME ScreenIInv, NEW p \in Pickups, Decide(p) \/ FindAdmins(p) \/ GiveUpCheck(p)
  PROVE  ScreenIInv'
<1> USE DEF ScreenIInv
<1>1. PICK c : /\ check' = [check EXCEPT ![p] = c]
               /\ \/ check[p] = "looking" /\ waiting[p] = {} /\ c = IF suspicious[p] = {} THEN "clean" ELSE "asking"
                  \/ check[p] = "asking" /\ c \in {"noting", "given up"}
  BY DEF Decide, FindAdmins, GiveUpCheck
<1>2. UNCHANGED <<order, booking, next, confirmed, waiting, suspicious, owed, doubtful>>
  BY DEF Decide, FindAdmins, GiveUpCheck
<1>3. ScreenTypes' /\ OrderOK'
  BY <1>1, <1>2 DEF ScreenTypes, OrderOK
<1>4. check'[p] = c /\ \A q \in Pickups : q # p => check'[q] = check[q]
  BY <1>1 DEF ScreenTypes
<1>5. CheckOK'
  BY <1>1, <1>2, <1>4 DEF CheckOK, CheckOf
<1> QED
  BY <1>3, <1>5

LEMMA ScreenStep == ScreenIInv /\ [ScreenNext]_screenVars => ScreenIInv'
<1> SUFFICES ASSUME ScreenIInv, [ScreenNext]_screenVars PROVE ScreenIInv'
  OBVIOUS
<1> USE DEF ScreenIInv
<1>1. CASE UNCHANGED screenVars
  BY <1>1 DEF screenVars, ScreenTypes, OrderOK, CheckOK, CheckOf
<1>2. CASE Order \/ OrderFails \/ ClearCache
  <2>1. UNCHANGED <<next, confirmed, check, waiting, suspicious, owed, doubtful>>
    BY <1>2 DEF Order, OrderFails, ClearCache, checkVars
  <2>2. booking' \in [Pickups -> {"none", "going", "made", "failed"}]
    BY <1>2 DEF Order, OrderFails, ClearCache, ScreenTypes
  <2>3. ScreenTypes' /\ CheckOK'
    BY <2>1, <2>2 DEF ScreenTypes, CheckOK, CheckOf
  <2>4. OrderOK'
    BY <1>2, <2>1 DEF Order, OrderFails, ClearCache, OrderOK
  <2> QED
    BY <2>3, <2>4
<1>3. ASSUME NEW p \in Pickups, NEW a \in Admins, NoteEnds(p, a, "kept") \/ NoteEnds(p, a, "failed")
      PROVE  ScreenIInv'
  <2>1. UNCHANGED <<order, booking, next, confirmed, check, waiting, suspicious, owed, doubtful>>
    BY <1>3 DEF NoteEnds
  <2> QED
    BY <2>1 DEF ScreenTypes, OrderOK, CheckOK, CheckOf
<1> QED
  BY <1>1, <1>2, <1>3, RowEndKeeps, TellKeeps, LookKeeps, ChecksKeep DEF ScreenNext

(* What is confirmed was booked, an order that succeeds had every pickup   *)
(* told and checked, no photo that had to be seen passes, and nobody is    *)
(* called for photos that are all vouched for.                             *)
THEOREM ScreeningHolds == ScreenSpec => []ScreenInv
<1>1. ScreenIInv => ScreenInv
  <2> SUFFICES ASSUME ScreenIInv PROVE ScreenInv
    OBVIOUS
  <2>1. Cardinality(Pickups) \in Nat /\ Pickups = 1 .. Cardinality(Pickups)
    BY PickupsCounted
  <2>2. next \in Nat /\ confirmed = 1 .. next - 1 /\ next <= Cardinality(Pickups) + 1
    BY DEF ScreenIInv, ScreenTypes, OrderOK
  <2>3. confirmed \subseteq Pickups /\ (confirmed # {} => next # 1)
    BY <2>1, <2>2
  <2>4. \A p \in confirmed : booking[p] = "made"
    BY <2>3 DEF ScreenIInv, OrderOK
  <2>5. order = "ok" => confirmed = Pickups
    BY <2>1, <2>2 DEF ScreenIInv, OrderOK
  <2>6. order = "ok" => \A p \in Pickups : check[p] # "rest"
    <3>1. order = "ok" => \A p \in Pickups : ~(p >= next)
      BY <2>1, <2>2 DEF ScreenIInv, OrderOK
    <3> QED
      BY <3>1 DEF ScreenIInv, CheckOK, CheckOf
  <2> QED
    BY <2>4, <2>5, <2>6 DEF ScreenIInv, CheckOK, CheckOf, ScreenInv
<1> QED
  BY <1>1, ScreenStart, ScreenStep, PTL DEF ScreenSpec

(* PricesPanel.  A category without a row has no price loaded either, so   *)
(* the zeros that are added never stand for a price that was loaded.       *)
Price == Nat \cup {NoRow}
Item == [price : Nat, from : {"loaded", "added", "typed"}]
Items == [Kinds -> Item \cup {NoRow}]

PricesTypes ==
  /\ prices \in [Kinds -> Price] /\ priceItems \in Items
  /\ queries = [q \in {"pricing", "categories"} |-> queries[q]]
  /\ queries["pricing"] \in {Unanswered, Wanted} \cup [Kinds -> Price]
  /\ made \in Nat /\ \A k \in saves : k.op = "save" => k.priceItems \in Items

NoRowNoPrice == \A c \in Kinds : priceItems[c] = NoRow => pricing = Unanswered \/ pricing[c] = NoRow

PricesIInv == PricesTypes /\ NoRowNoPrice /\ RowsFromPrices

LEMMA RowsAreNotNone == \A x \in Item : x # NoRow
BY PricesAssumption DEF Item

LEMMA PricesStart == PricesInit => PricesIInv
<1> SUFFICES ASSUME PricesInit PROVE PricesIInv
  OBVIOUS
<1>1. prices \in [Kinds -> Price]
  BY DEF PricesInit, Price
<1> QED
  BY <1>1 DEF PricesInit, PricesIInv, PricesTypes, NoRowNoPrice, RowsFromPrices, Items

LEMMA TakePricingKeeps == ASSUME PricesIInv, TakePricing PROVE PricesIInv'
<1> USE DEF PricesIInv
<1>1. /\ pricing' = queries["pricing"] /\ pricing' \in [Kinds -> Price] /\ pricing' # Unanswered
      /\ queries' = [queries EXCEPT !["pricing"] = Unanswered] /\ UNCHANGED <<prices, saves, made>>
  BY DEF TakePricing, PricesTypes
<1>2. queries' = [q \in {"pricing", "categories"} |-> queries'[q]] /\ queries'["pricing"] = Unanswered
  BY <1>1 DEF PricesTypes
<1>3. CASE pricing' = pricing
  <2>1. priceItems' = priceItems
    BY <1>3 DEF TakePricing
  <2> QED
    BY <1>1, <1>2, <1>3, <2>1 DEF PricesTypes, NoRowNoPrice, RowsFromPrices
<1>4. CASE pricing' # pricing
  <2>1. priceItems' = [c \in Kinds |-> IF pricing'[c] = NoRow THEN NoRow ELSE [price |-> pricing'[c], from |-> "loaded"]]
    BY <1>4 DEF TakePricing, FromAnswer
  <2>2. \A c \in Kinds : pricing'[c] # NoRow => [price |-> pricing'[c], from |-> "loaded"] \in Item
    BY <1>1 DEF Item, Price
  <2>3. priceItems' \in Items /\ NoRowNoPrice'
    BY <2>1, <2>2, RowsAreNotNone DEF Items, NoRowNoPrice
  <2>4. RowsFromPrices'
    BY <1>1, <2>1, <2>2, RowsAreNotNone DEF RowsFromPrices
  <2> QED
    BY <1>1, <1>2, <2>3, <2>4 DEF PricesTypes
<1> QED
  BY <1>3, <1>4

(* A row put in place of another, neither loaded nor for want of a price.  *)
LEMMA RowsReplaced ==
  ASSUME PricesIInv, NEW from \in {"added", "typed"}, NEW p \in Nat, NEW C \in SUBSET Kinds,
         from = "added" => \A c \in C : priceItems[c] = NoRow,
         priceItems' = [c \in Kinds |-> IF c \in C THEN [price |-> p, from |-> from] ELSE priceItems[c]],
         UNCHANGED <<prices, pricing, saves, made>>, queries' = [q \in {"pricing", "categories"} |-> queries'[q]],
         UNCHANGED queries \/ queries' = [queries EXCEPT !["categories"] = Unanswered]
  PROVE  PricesIInv'
<1> USE DEF PricesIInv
<1>1. [price |-> p, from |-> from] \in Item
  BY DEF Item
<1>2. priceItems' \in Items /\ queries'["pricing"] = queries["pricing"]
  BY <1>1 DEF PricesTypes, Items
<1>3. PricesTypes'
  BY <1>2 DEF PricesTypes
<1>4. NoRowNoPrice'
  BY <1>1, RowsAreNotNone DEF NoRowNoPrice
<1>5. RowsFromPrices'
  BY DEF NoRowNoPrice, RowsFromPrices
<1> QED
  BY <1>3, <1>4, <1>5

LEMMA PricesStep == PricesIInv /\ [PricesNext]_pricesVars => PricesIInv'
<1> SUFFICES ASSUME PricesIInv, [PricesNext]_pricesVars PROVE PricesIInv'
  OBVIOUS
<1> USE DEF PricesIInv
<1>1. CASE UNCHANGED pricesVars
  BY <1>1 DEF pricesVars, PricesTypes, NoRowNoPrice, RowsFromPrices
<1>2. CASE TakeCategories
  <2>1. /\ queries' = [queries EXCEPT !["categories"] = Unanswered]
        /\ UNCHANGED <<prices, pricing, saves, made>>
    BY <1>2 DEF TakeCategories
  <2>2. queries' = [q \in {"pricing", "categories"} |-> queries'[q]]
    BY <2>1 DEF PricesTypes
  <2>3. PICK C \in SUBSET Kinds : C = {c \in Kinds : categories' # categories /\ c \in categories' /\ priceItems[c] = NoRow}
    OBVIOUS
  <2>4. priceItems' = [c \in Kinds |-> IF c \in C THEN [price |-> 0, from |-> "added"] ELSE priceItems[c]]
    BY <1>2, <2>3 DEF TakeCategories, PricesTypes, Items
  <2> QED
    <3>1. /\ "added" \in {"added", "typed"} /\ 0 \in Nat /\ \A c \in C : priceItems[c] = NoRow
          /\ (UNCHANGED queries \/ queries' = [queries EXCEPT !["categories"] = Unanswered])
      BY <2>1, <2>3
    <3> QED
      BY <2>1, <2>2, <2>4, <3>1, RowsReplaced
<1>3. ASSUME NEW c \in Kinds, TypePrice(c) PROVE PricesIInv'
  <2>1. UNCHANGED <<prices, pricing, queries, saves, made>>
    BY <1>3 DEF TypePrice
  <2>2. queries' = [q \in {"pricing", "categories"} |-> queries'[q]]
    BY <2>1 DEF PricesTypes
  <2>3. priceItems' = [d \in Kinds |-> IF d \in {c} THEN [price |-> 2, from |-> "typed"] ELSE priceItems[d]]
    BY <1>3 DEF TypePrice, PricesTypes, Items
  <2> QED
    <3>1. /\ "typed" \in {"added", "typed"} /\ 2 \in Nat /\ {c} \in SUBSET Kinds /\ "typed" # "added"
          /\ UNCHANGED queries \/ queries' = [queries EXCEPT !["categories"] = Unanswered]
      BY <2>1
    <3> QED
      BY <2>1, <2>2, <2>3, <3>1, RowsReplaced
<1>4. ASSUME UNCHANGED <<pricing, priceItems>>, PricesTypes' PROVE PricesIInv'
  BY <1>4 DEF NoRowNoPrice, RowsFromPrices
<1>5. ASSUME NEW q \in {"pricing", "categories"}, AnswerQuery(q) \/ QueryFails(q) PROVE PricesIInv'
  <2>1. UNCHANGED <<prices, pricing, priceItems, saves, made>>
    BY <1>5 DEF AnswerQuery, QueryFails
  <2>2. queries' = [p \in {"pricing", "categories"} |-> queries'[p]]
    BY <1>5 DEF AnswerQuery, QueryFails, PricesTypes
  <2>3. queries'["pricing"] \in {Unanswered, queries["pricing"], prices}
    BY <1>5 DEF AnswerQuery, QueryFails, PricesTypes
  <2> QED
    BY <1>4, <2>1, <2>2, <2>3 DEF PricesTypes
<1>6. ASSUME NEW c \in Kinds, ByAnother(c) PROVE PricesIInv'
  <2>1. prices' \in [Kinds -> Price] /\ made' \in Nat /\ UNCHANGED <<pricing, queries, priceItems, saves>>
    BY <1>6 DEF ByAnother, PricesTypes, Price
  <2> QED
    BY <1>4, <2>1 DEF PricesTypes
<1>7. ASSUME NEW call \in Commands, PressButton(call) PROVE PricesIInv'
  <2>1. PICK k : k = [call EXCEPT !.id = made]
    OBVIOUS
  <2>2. made' \in Nat /\ saves' = saves \cup {k} /\ UNCHANGED <<prices, pricing, queries, priceItems>>
    BY <1>7, <2>1 DEF PressButton, PricesTypes
  <2>3. call.op = "save" => call \in [op : {"save"}, stage : {"sent"}, id : {0}, priceItems : {priceItems}]
    BY <1>7 DEF Commands
  <2>4. k.op = "save" => k.priceItems = priceItems
    BY <1>7, <2>1, <2>3 DEF Commands
  <2> QED
    BY <1>4, <2>2, <2>4 DEF PricesTypes
<1>8. ASSUME NEW k \in saves, ServeSave(k) PROVE PricesIInv'
  <2>1. k.priceItems \in Items
    BY <1>8 DEF ServeSave, PricesTypes
  <2>2. PICK stage : saves' = (saves \ {k}) \cup {[k EXCEPT !.stage = stage]}
    BY <1>8 DEF ServeSave
  <2>3. \A c \in Kinds : k.priceItems[c] # NoRow => k.priceItems[c].price \in Nat
    BY <2>1 DEF Items, Item
  <2>4. prices' \in [Kinds -> Price] /\ UNCHANGED <<pricing, queries, priceItems, made>>
    BY <1>8, <2>3 DEF ServeSave, PricesTypes, Price
  <2>5. PICK x : x = [k EXCEPT !.stage = stage]
    OBVIOUS
  <2>6. x.op = k.op /\ x.priceItems = k.priceItems
    BY <2>5
  <2> QED
    BY <1>4, <2>1, <2>2, <2>4, <2>5, <2>6 DEF PricesTypes
<1>9. ASSUME NEW k \in saves, ServeCategory(k) PROVE PricesIInv'
  <2>1. PICK stage : saves' = (saves \ {k}) \cup {[k EXCEPT !.stage = stage]}
    BY <1>9 DEF ServeCategory
  <2>2. k.op # "save" /\ UNCHANGED <<prices, pricing, queries, priceItems, made>>
    BY <1>9 DEF ServeCategory
  <2>3. PICK x : x = [k EXCEPT !.stage = stage]
    OBVIOUS
  <2>4. x.op # "save"
    BY <2>2, <2>3
  <2> QED
    BY <1>4, <2>1, <2>2, <2>3, <2>4 DEF PricesTypes
<1>10. ASSUME NEW k \in saves, TakeAnswer(k) PROVE PricesIInv'
  <2>1. saves' \subseteq saves /\ UNCHANGED <<prices, pricing, priceItems, made>>
    BY <1>10 DEF TakeAnswer
  <2>2. queries' = [q \in {"pricing", "categories"} |-> queries'[q]]
    BY <1>10 DEF TakeAnswer, PricesTypes
  <2>3. queries'["pricing"] \in {Wanted, queries["pricing"]}
    BY <1>10 DEF TakeAnswer, PricesTypes
  <2> QED
    BY <1>4, <2>1, <2>2, <2>3 DEF PricesTypes
<1> QED
  BY <1>1, <1>2, <1>3, <1>5, <1>6, <1>7, <1>8, <1>9, <1>10, TakePricingKeeps DEF PricesNext

(* What Save would send for a category nobody typed a price for is what    *)
(* was last loaded for it; zeros only when nothing was.                    *)
THEOREM RowsComeFromPrices == PricesSpec => []RowsFromPrices
<1>1. PricesIInv => RowsFromPrices
  BY DEF PricesIInv
<1> QED
  BY <1>1, PricesStart, PricesStep, PTL DEF PricesSpec

(* SmsPanel.  A number is selected in the one form it is called in, so a   *)
(* person is in the list once; and a message that reached someone is no    *)
(* longer written when the next call can be made.                          *)
Numbers == {Normalized(p) : p \in Phones}
Texting == [stage : {"sent", "success", "error"}, to : SUBSET Numbers, m : 1 .. MaxTexts]

SmsTypes ==
  /\ listed \subseteq Phones /\ selected \subseteq Numbers
  /\ written \in 0 .. MaxTexts /\ message \in 0 .. written
  /\ texting = NoText \/ (texting \in Texting /\ texting.m <= written)
  /\ received \in [Phones -> [1 .. MaxTexts -> 0 .. 2]]

ReachedOK ==
  \A p \in Phones, m \in 1 .. MaxTexts : m \notin undecided =>
    /\ received[p][m] <= 1
    /\ received[p][m] > 0 => m <= written
    /\ received[p][m] > 0 => message # m \/ (texting.stage \in {"success", "error"} /\ texting.m = m)
    /\ texting.stage = "sent" /\ texting.m = m => received[p][m] = 0

SmsIInv == SmsTypes /\ ReachedOK

LEMMA OneForm ==
  ASSUME NEW p \in Phones, NEW to \in SUBSET Numbers
  PROVE  Texts(p, to) \in {0, 1}
<1> DEFINE T == {n \in to : n = p \/ n = Dialled[p]}
<1>1. ASSUME NEW n \in T PROVE T = {n}
  <2>1. 0 \notin Numbers
    BY PhonesAssumption DEF Numbers, Normalized
  <2>2. ASSUME p \in to, Dialled[p] \in to PROVE Dialled[p] = p
    <3>1. PICK q \in Phones : p = Normalized(q)
      BY <2>2 DEF Numbers
    <3>2. Dialled[q] # 0
      BY <2>1, <2>2, <3>1 DEF Normalized
    <3>3. p = Dialled[q]
      BY <3>1, <3>2 DEF Normalized
    <3> QED
      BY <3>3, PhonesAssumption
  <2> QED
    BY <1>1, <2>2
<1>2. T = {} \/ \E n : T = {n}
  BY <1>1
<1>3. Cardinality(T) \in {0, 1}
  BY <1>2, FS_EmptySet, FS_Singleton
<1> QED
  BY <1>3 DEF Texts

LEMMA SmsStart == SmsInit => SmsIInv
<1> SUFFICES ASSUME SmsInit PROVE SmsIInv
  OBVIOUS
<1>1. \A p \in Phones, m \in 1 .. MaxTexts : received[p][m] = 0
  BY DEF SmsInit
<1>2. SmsTypes
  BY PhonesAssumption DEF SmsInit, SmsTypes
<1>3. ReachedOK
  BY <1>1 DEF SmsInit, NoText, ReachedOK
<1> QED
  BY <1>2, <1>3 DEF SmsIInv

LEMMA SendsKeep ==
  ASSUME SmsIInv, NEW stage \in {"success", "error"}, ServiceSends(stage)
  PROVE  SmsIInv'
<1> USE DEF SmsIInv
<1>1. /\ texting.stage = "sent" /\ texting' = [texting EXCEPT !.stage = stage]
      /\ UNCHANGED <<listed, selected, message, written, undecided>>
  BY DEF ServiceSends
<1>2. texting \in Texting /\ texting.m <= written
  BY <1>1 DEF SmsTypes, NoText
<1>3. PICK m \in 1 .. MaxTexts : m = texting.m
  BY <1>2 DEF Texting
<1>4. texting' \in Texting /\ texting'.stage = stage /\ texting'.m = m
  BY <1>1, <1>2, <1>3 DEF Texting
<1>5. texting.to \in SUBSET Numbers
  BY <1>2 DEF Texting
<1>6. ASSUME NEW p \in Phones
      PROVE  /\ received'[p] \in [1 .. MaxTexts -> 0 .. 2]
             /\ \A n \in 1 .. MaxTexts : n # m => received'[p][n] = received[p][n]
             /\ received[p][m] = 0 => received'[p][m] <= 1
  <2>1. PICK k : k = Texts(p, texting.to)
    OBVIOUS
  <2>2. k \in {0, 1}
    BY <1>5, <2>1, OneForm
  <2>3. received'[p] = [received[p] EXCEPT ![m] = IF received[p][m] + k < 2 THEN received[p][m] + k ELSE 2]
    BY <1>3, <2>1 DEF ServiceSends
  <2>4. received[p] \in [1 .. MaxTexts -> 0 .. 2] /\ received[p][m] \in 0 .. 2
    BY DEF SmsTypes
  <2>5. (IF received[p][m] + k < 2 THEN received[p][m] + k ELSE 2) \in 0 .. 2
    BY <2>2, <2>4
  <2> QED
    BY <2>2, <2>3, <2>4, <2>5
<1>7. received' \in [Phones -> [1 .. MaxTexts -> 0 .. 2]]
  <2>1. received' = [p \in Phones |-> received'[p]]
    BY DEF ServiceSends
  <2> QED
    BY <1>6, <2>1
<1>8. SmsTypes'
  BY <1>1, <1>2, <1>3, <1>4, <1>7 DEF SmsTypes
<1>9. ReachedOK'
  <2> SUFFICES ASSUME NEW p \in Phones, NEW n \in 1 .. MaxTexts, n \notin undecided
               PROVE  /\ received'[p][n] <= 1
                      /\ received'[p][n] > 0 => n <= written
                      /\ received'[p][n] > 0 => message # n \/ m = n
    BY <1>1, <1>4 DEF ReachedOK
  <2>1. CASE n = m
    <3>1. received[p][m] = 0
      BY <1>1, <1>3, <2>1 DEF ReachedOK
    <3> QED
      BY <1>2, <1>3, <1>6, <2>1, <3>1
  <2>2. CASE n # m
    BY <1>1, <1>3, <1>6, <2>2 DEF ReachedOK
  <2> QED
    BY <2>1, <2>2
<1> QED
  BY <1>8, <1>9

LEMMA SmsStep == SmsIInv /\ [SmsNext]_smsVars => SmsIInv'
<1> SUFFICES ASSUME SmsIInv, [SmsNext]_smsVars PROVE SmsIInv'
  OBVIOUS
<1> USE DEF SmsIInv
<1>1. CASE UNCHANGED smsVars
  BY <1>1 DEF smsVars, SmsTypes, ReachedOK
<1>2. ASSUME UNCHANGED <<message, written, texting, received, undecided>>, listed' \subseteq Phones, selected' \subseteq Numbers
      PROVE  SmsIInv'
  BY <1>2 DEF SmsTypes, ReachedOK
<1>3. AllPhoneNumbers \subseteq Numbers
  BY DEF AllPhoneNumbers, Numbers, SmsTypes
<1>4. ASSUME NEW found \in SUBSET Phones, ListBookings(found) PROVE SmsIInv'
  BY <1>2, <1>4 DEF ListBookings, SmsTypes
<1>5. CASE SelectAll
  BY <1>2, <1>3, <1>5 DEF SelectAll, SmsTypes
<1>6. ASSUME NEW p \in Phones, TogglePhone(Normalized(p)) PROVE SmsIInv'
  BY <1>2, <1>6 DEF TogglePhone, SmsTypes, Numbers
<1>7. CASE WriteMessage
  <2>1. /\ written < MaxTexts /\ written' = written + 1 /\ message' = written + 1
        /\ UNCHANGED <<listed, selected, texting, received, undecided>>
    BY <1>7 DEF WriteMessage
  <2>2. written \in Nat /\ written + 1 \in 0 .. MaxTexts /\ message' \in 0 .. written'
    BY <2>1, PhonesAssumption DEF SmsTypes
  <2>3. texting = NoText \/ (texting \in Texting /\ texting.m <= written')
    BY <2>1, <2>2 DEF SmsTypes, Texting
  <2>4. SmsTypes'
    BY <2>1, <2>2, <2>3 DEF SmsTypes
  <2>5. ReachedOK'
    BY <2>1, <2>2 DEF ReachedOK
  <2> QED
    BY <2>4, <2>5
<1>8. CASE SendSms
  <2>1. /\ texting = NoText /\ message # 0 /\ texting' = [stage |-> "sent", to |-> selected, m |-> message]
        /\ UNCHANGED <<listed, selected, message, written, received, undecided>>
    BY <1>8 DEF SendSms
  <2>2. message \in 1 .. MaxTexts /\ message <= written
    BY <2>1, PhonesAssumption DEF SmsTypes
  <2>3. texting' \in Texting /\ texting'.m = message /\ texting'.stage = "sent"
    BY <2>1, <2>2 DEF SmsTypes, Texting
  <2>4. SmsTypes'
    BY <2>1, <2>2, <2>3 DEF SmsTypes
  <2>5. ASSUME NEW p \in Phones, NEW m \in 1 .. MaxTexts, m \notin undecided
        PROVE  /\ received[p][m] <= 1 /\ (received[p][m] > 0 => m <= written /\ message # m)
               /\ received[p][m] \in 0 .. 2
    BY <2>1, <2>5 DEF ReachedOK, NoText, SmsTypes
  <2>6. ReachedOK'
    BY <2>1, <2>3, <2>5 DEF ReachedOK
  <2> QED
    BY <2>4, <2>6
<1>9. CASE ServiceFails
  <2>1. /\ texting.stage = "sent" /\ texting' = [texting EXCEPT !.stage = "error"]
        /\ UNCHANGED <<listed, selected, message, written, received, undecided>>
    BY <1>9 DEF ServiceFails
  <2>2. texting \in Texting /\ texting.m <= written
    BY <2>1 DEF SmsTypes, NoText
  <2>3. texting' \in Texting /\ texting'.stage = "error" /\ texting'.m = texting.m
    BY <2>1, <2>2 DEF Texting
  <2>4. SmsTypes'
    BY <2>1, <2>2, <2>3 DEF SmsTypes
  <2>5. ReachedOK'
    BY <2>1, <2>3 DEF ReachedOK
  <2> QED
    BY <2>4, <2>5
<1>10. CASE SmsAnswered
  <2>1. /\ texting.stage \in {"success", "error"} /\ texting' = NoText
        /\ UNCHANGED <<listed, written, received>>
        /\ \/ texting.stage = "success" /\ selected' = {} /\ message' = 0 /\ UNCHANGED undecided
           \/ undecided' = undecided \cup {texting.m} /\ UNCHANGED <<selected, message>>
    BY <1>10 DEF SmsAnswered
  <2>2. SmsTypes'
    BY <2>1 DEF SmsTypes
  <2>3. ReachedOK'
    <3>1. texting'.stage = "none"
      BY <2>1 DEF NoText
    <3>2. CASE message' = 0 /\ UNCHANGED undecided
      BY <2>1, <3>1, <3>2 DEF ReachedOK
    <3>3. CASE undecided' = undecided \cup {texting.m} /\ UNCHANGED message
      BY <2>1, <3>1, <3>3 DEF ReachedOK
    <3> QED
      BY <2>1, <3>2, <3>3
  <2> QED
    BY <2>2, <2>3
<1> QED
  BY <1>1, <1>4, <1>5, <1>6, <1>7, <1>8, <1>9, <1>10, SendsKeep DEF SmsNext

(* A message reaches a person once, in whatever forms his number is listed *)
(* and whatever is pressed meanwhile; again only after a failed answer.    *)
THEOREM TextsReachOnce == SmsSpec => []TextedOnce
<1>1. SmsIInv => TextedOnce
  <2> SUFFICES ASSUME SmsIInv, NEW p \in Phones, NEW m \in 1 .. MaxTexts, m \notin undecided
               PROVE  ~(received[p][m] > 1)
    BY DEF TextedOnce
  <2>1. received[p][m] <= 1 /\ received[p][m] \in 0 .. 2
    BY DEF SmsIInv, SmsTypes, ReachedOK
  <2> QED
    BY <2>1
<1> QED
  BY <1>1, SmsStart, SmsStep, PTL DEF SmsSpec

-----------------------------------------------------------------------------
(* ChatRateLimit.  The requests let through in the current window are the  *)
(* last of those that passed.                                              *)
InWindow == IF count < maxRequests THEN count ELSE maxRequests

(* The first of them began the window, and earlier ones came before it.    *)
WindowOK ==
  IF count = 0 THEN passed = <<>> /\ resetAt = 0
  ELSE /\ InWindow <= Len(passed)
       /\ \A i \in DOMAIN passed :
            i + InWindow = Len(passed) + 1 => passed[i] + windowMs = resetAt

(* No more than the limit came in the time of one window before it.        *)
WindowBefore ==
  \A i \in DOMAIN passed :
    i + InWindow + maxRequests <= Len(passed) + 1 =>
      passed[i] + windowMs + windowMs <= resetAt

(* Of twice the limit the last came a window after the first.              *)
FarApart ==
  \A i, j \in DOMAIN passed :
    j + 1 >= i + 2 * maxRequests => passed[i] + windowMs <= passed[j]

PassedInTurn ==
  \A i, j \in DOMAIN passed : i <= j => passed[i] <= passed[j] /\ passed[j] <= now

RateIInv ==
  /\ now \in Nat /\ count \in Nat /\ resetAt \in Nat /\ passed \in Seq(Nat)
  /\ PassedInTurn /\ WindowOK /\ WindowBefore /\ FarApart
  /\ ~turned

(* A set of indices that holds many has two far from each other.           *)
LEMMA Spread ==
  ASSUME NEW n \in Nat, NEW S \in SUBSET (1 .. n), NEW m \in Nat,
         \A i, j \in S : j < i + m
  PROVE  Cardinality(S) <= m
<1>1. CASE S = {}
  BY <1>1, FS_EmptySet
<1>2. CASE S # {}
  <2>1. PICK i \in S : \A j \in S : i <= j
    <3>1. S \in SUBSET Nat
      OBVIOUS
    <3>2. PICK i \in S : \A j \in S : <<j, i>> \notin OpToRel(<, Nat)
      BY <1>2, <3>1, WFMin, NatLessThanWellFounded
    <3>3. \A j \in S : ~(j < i)
      BY <3>1, <3>2 DEF OpToRel
    <3> QED
      BY <3>1, <3>3
  <2>2. S \subseteq i .. (i + m - 1) /\ i \in Nat
    BY <2>1
  <2>3. IsFiniteSet(i .. (i + m - 1)) /\ Cardinality(i .. (i + m - 1)) = m
    BY <2>2, FS_Interval
  <2> QED
    BY <2>2, <2>3, FS_Subset
<1> QED
  BY <1>1, <1>2

LEMMA RateStart == RateInit => RateIInv
BY DEF RateInit, RateIInv, PassedInTurn, WindowOK, WindowBefore, FarApart

(* A request that passes keeps the order and the distances.                *)
LEMMA PassKeeps ==
  ASSUME RateIInv, now' = now, passed' = Append(passed, now), ~turned',
         count' \in Nat, resetAt' \in Nat,
         \/ resetAt <= now /\ count' = 1 /\ resetAt' = now + windowMs
         \/ resetAt > now /\ count' = count + 1 /\ count < maxRequests /\ resetAt' = resetAt
  PROVE  RateIInv'
<1> DEFINE n == Len(passed)
<1>1. /\ n \in Nat /\ passed' \in Seq(Nat) /\ Len(passed') = n + 1
      /\ DOMAIN passed = 1 .. n /\ DOMAIN passed' = 1 .. n + 1
      /\ passed'[n + 1] = now
      /\ \A i \in 1 .. n : passed'[i] = passed[i] /\ passed[i] \in Nat
  BY DEF RateIInv
<1>2. windowMs \in Nat /\ windowMs > 0 /\ maxRequests \in Nat /\ maxRequests > 0
  BY RateAssumption
<1> USE DEF RateIInv
<1>3. PassedInTurn'
  BY <1>1 DEF PassedInTurn
<1>4. CASE resetAt <= now /\ count' = 1 /\ resetAt' = now + windowMs
  <2>1. InWindow' = 1
    BY <1>2, <1>4 DEF InWindow
  <2>2. WindowOK'
    BY <1>1, <1>4, <2>1 DEF WindowOK
  <2>3. \A i \in 1 .. n : i + InWindow <= n + 1 => passed[i] + windowMs <= resetAt
    <3> SUFFICES ASSUME NEW i \in 1 .. n, i + InWindow <= n + 1
                 PROVE  passed[i] + windowMs <= resetAt
      OBVIOUS
    <3>1. count # 0 /\ InWindow \in Nat /\ InWindow > 0 /\ InWindow <= n
      BY <1>1, <1>2 DEF WindowOK, InWindow
    <3>2. PICK k \in 1 .. n : k + InWindow = n + 1
      <4>1. n + 1 - InWindow \in 1 .. n /\ (n + 1 - InWindow) + InWindow = n + 1
        BY <1>1, <3>1
      <4> QED
        BY <4>1
    <3>3. passed[k] + windowMs = resetAt
      BY <1>1, <3>1, <3>2 DEF WindowOK
    <3>4. passed[i] <= passed[k]
      <4>1. i <= k
        BY <1>1, <3>1, <3>2
      <4> QED
        BY <1>1, <4>1 DEF PassedInTurn
    <3> QED
      BY <1>1, <1>2, <3>3, <3>4
  <2>4. InWindow \in Nat /\ InWindow <= maxRequests
    BY <1>2 DEF InWindow
  <2>5. WindowBefore'
    <3> SUFFICES ASSUME NEW i \in 1 .. n + 1, i + 1 + maxRequests <= n + 1 + 1
                 PROVE  passed'[i] + windowMs + windowMs <= resetAt'
      BY <1>1, <2>1 DEF WindowBefore
    <3>1. i \in 1 .. n /\ i + InWindow <= n + 1
      BY <1>1, <1>2, <2>4
    <3>2. passed[i] + windowMs <= resetAt
      BY <2>3, <3>1
    <3> QED
      BY <1>1, <1>2, <1>4, <3>1, <3>2
  <2>6. FarApart'
    <3> SUFFICES ASSUME NEW i \in 1 .. n + 1, NEW j \in 1 .. n + 1, j + 1 >= i + 2 * maxRequests
                 PROVE  passed'[i] + windowMs <= passed'[j]
      BY <1>1 DEF FarApart
    <3>1. i \in 1 .. n
      BY <1>1, <1>2
    <3>2. CASE j \in 1 .. n
      BY <1>1, <3>1, <3>2 DEF FarApart
    <3>3. CASE j = n + 1
      <4>1. i + InWindow <= n + 1
        BY <1>1, <1>2, <2>4, <3>1, <3>3
      <4>2. passed[i] + windowMs <= resetAt
        BY <2>3, <3>1, <4>1
      <4> QED
        BY <1>1, <1>2, <1>4, <3>1, <3>3, <4>2
    <3> QED
      BY <1>1, <3>2, <3>3
  <2> QED
    BY <1>1, <1>3, <2>2, <2>5, <2>6
<1>5. CASE resetAt > now /\ count' = count + 1 /\ count < maxRequests /\ resetAt' = resetAt
  <2>1. InWindow' = count + 1 /\ InWindow = count
    BY <1>2, <1>5 DEF InWindow
  <2>2. count # 0
    BY <1>5 DEF WindowOK
  <2>3. WindowOK'
    <3>1. count + 1 # 0 /\ count + 1 <= n + 1 /\ count <= n
      BY <1>1, <2>1, <2>2 DEF WindowOK
    <3>2. ASSUME NEW i \in 1 .. n + 1, i + (count + 1) = (n + 1) + 1
          PROVE  passed'[i] + windowMs = resetAt'
      <4>1. i \in 1 .. n /\ i + count = n + 1
        <5>1. count \in Nat /\ count > 0 /\ n \in Nat /\ i \in Nat /\ i >= 1
          BY <1>1, <2>2
        <5> HIDE DEF n
        <5> QED
          BY <3>2, <5>1
      <4> QED
        BY <1>1, <1>5, <2>1, <2>2, <4>1 DEF WindowOK
    <3> QED
      BY <1>1, <1>5, <2>1, <3>1, <3>2 DEF WindowOK
  <2>4. WindowBefore'
    <3> SUFFICES ASSUME NEW i \in 1 .. n + 1, i + (count + 1) + maxRequests <= n + 1 + 1
                 PROVE  passed'[i] + windowMs + windowMs <= resetAt'
      BY <1>1, <2>1 DEF WindowBefore
    <3>1. i \in 1 .. n /\ i + count + maxRequests <= n + 1
      BY <1>1, <1>2
    <3> QED
      BY <1>1, <1>5, <2>1, <3>1 DEF WindowBefore
  <2>5. resetAt <= now + windowMs
    <3>1. PICK k \in 1 .. n : k + InWindow = n + 1
      <4>1. InWindow <= n /\ count > 0
        BY <1>1, <2>2 DEF WindowOK
      <4>2. n + 1 - InWindow \in 1 .. n /\ (n + 1 - InWindow) + InWindow = n + 1
        BY <1>1, <2>1, <4>1
      <4> QED
        BY <4>2
    <3>2. passed[k] + windowMs = resetAt
      BY <1>1, <2>2, <3>1 DEF WindowOK
    <3>3. passed[k] <= now
      BY <1>1, <3>1 DEF PassedInTurn
    <3> QED
      BY <1>1, <1>2, <3>2, <3>3
  <2>6. FarApart'
    <3> SUFFICES ASSUME NEW i \in 1 .. n + 1, NEW j \in 1 .. n + 1, j + 1 >= i + 2 * maxRequests
                 PROVE  passed'[i] + windowMs <= passed'[j]
      BY <1>1 DEF FarApart
    <3>1. i \in 1 .. n
      BY <1>1, <1>2
    <3>2. CASE j \in 1 .. n
      BY <1>1, <3>1, <3>2 DEF FarApart
    <3>3. CASE j = n + 1
      <4>1. i + count + maxRequests <= n + 1
        BY <1>1, <1>2, <1>5, <3>1, <3>3
      <4>2. passed[i] + windowMs + windowMs <= resetAt
        BY <1>1, <2>1, <3>1, <4>1 DEF WindowBefore
      <4> QED
        BY <1>1, <1>2, <2>5, <3>1, <3>3, <4>2
    <3> QED
      BY <1>1, <3>2, <3>3
  <2> QED
    BY <1>1, <1>3, <2>3, <2>4, <2>6
<1> QED
  BY <1>4, <1>5

(* A request is refused for as many that passed in its window.             *)
LEMMA RefuseKeeps ==
  ASSUME RateIInv, now' = now, passed' = passed, resetAt' = resetAt, resetAt > now,
         count' = count + 1, count + 1 > maxRequests,
         turned' = (turned \/ PassedLately < maxRequests)
  PROVE  RateIInv'
<1> DEFINE n == Len(passed)
           S == {i \in DOMAIN passed : passed[i] + windowMs > now}
<1>1. windowMs \in Nat /\ windowMs > 0 /\ maxRequests \in Nat /\ maxRequests > 0
  BY RateAssumption
<1>2. n \in Nat /\ DOMAIN passed = 1 .. n /\ \A i \in 1 .. n : passed[i] \in Nat
  BY DEF RateIInv
<1>3. InWindow = maxRequests /\ InWindow' = maxRequests /\ count # 0
  BY <1>1 DEF RateIInv, InWindow
<1>4. maxRequests <= n
  BY <1>3 DEF RateIInv, WindowOK
<1>5. PICK k \in 1 .. n : k + maxRequests = n + 1
  <2>1. n + 1 - maxRequests \in 1 .. n /\ (n + 1 - maxRequests) + maxRequests = n + 1
    BY <1>1, <1>2, <1>4
  <2> QED
    BY <2>1
<1>6. passed[k] + windowMs = resetAt
  BY <1>2, <1>3, <1>5 DEF RateIInv, WindowOK
<1>7. k .. n \subseteq S
  <2> SUFFICES ASSUME NEW i \in k .. n PROVE i \in S
    OBVIOUS
  <2>1. i \in 1 .. n /\ k <= i
    BY <1>2, <1>5
  <2>2. passed[k] <= passed[i]
    BY <1>2, <2>1 DEF RateIInv, PassedInTurn
  <2> QED
    BY <1>1, <1>2, <1>5, <1>6, <2>1, <2>2 DEF RateIInv
<1>8. IsFiniteSet(S) /\ Cardinality(S) \in Nat
  <2>1. IsFiniteSet(1 .. n)
    BY <1>2, FS_Interval
  <2>2. S \subseteq 1 .. n
    BY <1>2
  <2> QED
    BY <2>1, <2>2, FS_Subset, FS_CardinalityType
<1>9. Cardinality(k .. n) = maxRequests
  BY <1>1, <1>2, <1>5, FS_Interval
<1>10. ~(PassedLately < maxRequests)
  <2>1. Cardinality(k .. n) <= Cardinality(S)
    BY <1>7, <1>8, FS_Subset
  <2>2. PassedLately = Cardinality(S)
    BY DEF PassedLately
  <2> HIDE DEF S
  <2> QED
    BY <1>1, <1>8, <1>9, <2>1, <2>2
<1>11. ~turned'
  BY <1>10 DEF RateIInv
<1> QED
  BY <1>3, <1>11 DEF RateIInv, PassedInTurn, WindowOK, WindowBefore, FarApart

LEMMA RateStep == RateIInv /\ [RateNext]_rateVars => RateIInv'
<1> SUFFICES ASSUME RateIInv, [RateNext]_rateVars PROVE RateIInv'
  OBVIOUS
<1>1. CASE Tick
  BY <1>1 DEF Tick, RateIInv, PassedInTurn, WindowOK, WindowBefore, FarApart, InWindow
<1>2. CASE UNCHANGED rateVars
  BY <1>2 DEF rateVars, RateIInv, PassedInTurn, WindowOK, WindowBefore, FarApart, InWindow
<1>3. CASE ChatRequest
  <2>1. now \in Nat /\ resetAt \in Nat /\ count \in Nat /\ ~turned /\ now' = now
        /\ windowMs \in Nat /\ maxRequests \in Nat /\ maxRequests > 0
    BY <1>3, RateAssumption DEF RateIInv, ChatRequest
  <2>2. CASE resetAt <= now
    <3>1. count' = 1 /\ resetAt' = now + windowMs /\ passed' = Append(passed, now) /\ ~turned'
      BY <1>3, <2>1, <2>2 DEF ChatRequest
    <3> QED
      BY <2>1, <2>2, <3>1, PassKeeps
  <2>3. CASE resetAt > now
    <3>1. count' = count + 1 /\ resetAt' = resetAt
      BY <1>3, <2>1, <2>3 DEF ChatRequest
    <3>2. CASE count + 1 > maxRequests
      BY <1>3, <2>1, <2>3, <3>1, <3>2, RefuseKeeps DEF ChatRequest
    <3>3. CASE count + 1 <= maxRequests
      <4>1. passed' = Append(passed, now) /\ ~turned' /\ count < maxRequests
        BY <1>3, <2>1, <3>1, <3>3 DEF ChatRequest
      <4> QED
        BY <2>1, <2>3, <3>1, <4>1, PassKeeps
    <3> QED
      BY <2>1, <3>2, <3>3
  <2> QED
    BY <2>1, <2>2, <2>3
<1> QED
  BY <1>1, <1>2, <1>3 DEF RateNext

(* Whatever the window, the limit and the times of the requests, fewer     *)
(* than twice the limit pass in any time of the length of a window, and    *)
(* nobody is refused who had room in the window before.                    *)
THEOREM RateHolds == RateSpec => []RateInv
<1>1. RateIInv => RateInv
  <2> SUFFICES ASSUME RateIInv, NEW t \in 1 .. now
               PROVE  Cardinality({i \in DOMAIN passed :
                                     t <= passed[i] /\ passed[i] < t + windowMs})
                        < 2 * maxRequests
    BY DEF RateInv, AtMostTwice, RefusedForCause, RateIInv
  <2> DEFINE S == {i \in DOMAIN passed : t <= passed[i] /\ passed[i] < t + windowMs}
             m == 2 * maxRequests - 1
  <2>1. /\ windowMs \in Nat /\ maxRequests \in Nat /\ m \in Nat
        /\ Len(passed) \in Nat /\ DOMAIN passed = 1 .. Len(passed) /\ t \in Nat
        /\ \A i \in DOMAIN passed : passed[i] \in Nat
    BY RateAssumption DEF RateIInv
  <2>2. \A i, j \in S : j < i + m
    <3> SUFFICES ASSUME NEW i \in S, NEW j \in S, ~(j < i + m) PROVE FALSE
      OBVIOUS
    <3>1. i \in Nat /\ j \in Nat /\ j + 1 >= i + 2 * maxRequests
      BY <2>1
    <3>2. passed[i] + windowMs <= passed[j]
      BY <3>1 DEF RateIInv, FarApart
    <3> QED
      BY <2>1, <3>2
  <2>3. Cardinality(S) <= m
    <3> HIDE DEF m
    <3> QED
      BY <2>1, <2>2, Spread
  <2>4. Cardinality(S) \in Nat
    <3>1. IsFiniteSet(1 .. Len(passed)) /\ S \subseteq 1 .. Len(passed)
      BY <2>1, FS_Interval
    <3> QED
      BY <3>1, FS_Subset, FS_CardinalityType
  <2> HIDE DEF S
  <2> QED
    BY <2>1, <2>3, <2>4 DEF S
<1> QED
  BY <1>1, RateStart, RateStep, PTL DEF RateSpec

-----------------------------------------------------------------------------
(* CursorPages.  Rows that are ordered come in turn, newest first.         *)
Descending(s) == \A i, j \in DOMAIN s : i < j => s[i] > s[j]

(* Every set of rows has a list: each row once, newest first.              *)
LEMMA NewestFirstIs ==
  ASSUME NEW n \in Nat, NEW S \in SUBSET (1 .. n)
  PROVE  /\ NewestFirst(S) \in Seq(S)
         /\ Descending(NewestFirst(S))
         /\ \A x \in S : \E k \in DOMAIN NewestFirst(S) : NewestFirst(S)[k] = x
<1> DEFINE Newer(i) == {j \in S : j > i}
           N == Cardinality(S)
           r == [i \in S |-> Cardinality(Newer(i)) + 1]
           s == NewestFirst(S)
<1>0. \A x \in S : x \in Nat
  OBVIOUS
<1>1. IsFiniteSet(S) /\ N \in Nat
  <2>1. IsFiniteSet(1 .. n)
    BY FS_Interval
  <2> QED
    BY <2>1, FS_Subset, FS_CardinalityType
<1>2. ASSUME NEW i \in S PROVE IsFiniteSet(Newer(i)) /\ Cardinality(Newer(i)) \in Nat
  <2>1. Newer(i) \subseteq S
    OBVIOUS
  <2> QED
    BY <1>1, <2>1, FS_Subset, FS_CardinalityType
<1>3. ASSUME NEW i \in S, NEW j \in S, i < j
      PROVE  Cardinality(Newer(j)) < Cardinality(Newer(i))
  <2>1. Newer(j) \subseteq Newer(i) /\ j \in Newer(i) /\ j \notin Newer(j)
    <3>1. i \in Nat /\ j \in Nat
      BY <1>0
    <3>2. \A k \in S : k > j => k > i
      BY <1>0, <1>3, <3>1
    <3>3. Newer(j) \subseteq Newer(i)
      BY <3>2
    <3>4. j > i /\ ~(j > j)
      BY <1>3, <3>1
    <3> QED
      BY <3>3, <3>4
  <2> HIDE DEF Newer
  <2>2. Newer(j) # Newer(i)
    BY <2>1
  <2> QED
    BY <1>2, <2>1, <2>2, FS_Subset
<1>4. ASSUME NEW i \in S PROVE Cardinality(Newer(i)) < N
  <2>1. Newer(i) \subseteq S /\ i \notin Newer(i) /\ Newer(i) # S
    BY <1>0
  <2> HIDE DEF Newer
  <2> QED
    BY <1>1, <1>2, <2>1, FS_Subset
<1>5. r \in [S -> 1 .. N]
  <2>1. \A i \in S : Cardinality(Newer(i)) + 1 \in 1 .. N
    <3> HIDE DEF Newer, N
    <3> QED
      BY <1>1, <1>2, <1>4
  <2> HIDE DEF Newer, N
  <2> QED
    BY <2>1
<1>6. ASSUME NEW i \in S, NEW j \in S, i < j PROVE r[j] < r[i]
  <2> HIDE DEF Newer
  <2> QED
    BY <1>2, <1>3, <1>6
<1>7. \A i, j \in S : r[i] = r[j] => i = j
  <2> SUFFICES ASSUME NEW i \in S, NEW j \in S, r[i] = r[j], i # j PROVE FALSE
    OBVIOUS
  <2>1. i < j \/ j < i
    OBVIOUS
  <2>2. r[i] \in 1 .. N /\ r[j] \in 1 .. N
    BY <1>5
  <2> HIDE DEF r
  <2> QED
    BY <1>6, <2>1, <2>2
<1>8. \A k \in 1 .. N : \E i \in S : r[i] = k
  <2>1. IsFiniteSet(1 .. N) /\ Cardinality(1 .. N) = N
    BY <1>1, FS_Interval
  <2> HIDE DEF r
  <2>2. r \in Injection(S, 1 .. N)
    BY <1>5, <1>7 DEF Injection, IsInjective
  <2>3. r \in Surjection(S, 1 .. N)
    BY <1>1, <2>1, <2>2, FS_Injection
  <2> QED
    BY <2>3 DEF Surjection
<1>9. s = [k \in 1 .. N |-> CHOOSE i \in S : Cardinality(Newer(i)) + 1 = k]
  BY DEF NewestFirst
<1>10. ASSUME NEW k \in 1 .. N PROVE s[k] \in S /\ r[s[k]] = k
  <2>1. s[k] = CHOOSE i \in S : Cardinality(Newer(i)) + 1 = k
    <3> HIDE DEF s, Newer
    <3> QED
      BY <1>9
  <2>2. \E i \in S : Cardinality(Newer(i)) + 1 = k
    <3> HIDE DEF Newer
    <3> QED
      BY <1>8
  <2>3. s[k] \in S /\ Cardinality(Newer(s[k])) + 1 = k
    <3> HIDE DEF s, Newer
    <3> QED
      BY <2>1, <2>2
  <2> HIDE DEF s, Newer
  <2> QED
    BY <2>3
<1> HIDE DEF s, r, Newer
<1>11. s \in Seq(S) /\ DOMAIN s = 1 .. N
  <2>1. DOMAIN s = 1 .. N /\ s = [k \in 1 .. N |-> s[k]]
    BY <1>9
  <2>2. s \in [1 .. N -> S]
    BY <1>10, <2>1
  <2> QED
    BY <1>1, <2>1, <2>2
<1>12. Descending(s)
  <2> SUFFICES ASSUME NEW i \in 1 .. N, NEW j \in 1 .. N, i < j PROVE s[i] > s[j]
    BY <1>11 DEF Descending
  <2>1. s[i] \in S /\ s[j] \in S /\ r[s[i]] = i /\ r[s[j]] = j
    BY <1>10
  <2>2. ~(s[i] < s[j]) /\ s[i] # s[j]
    <3>1. i # j /\ ~(j < i)
      BY <1>1
    <3> QED
      BY <1>6, <2>1, <3>1
  <2> QED
    <3>1. s[i] \in Nat /\ s[j] \in Nat
      BY <1>0, <2>1
    <3> QED
      BY <2>2, <3>1
<1>13. \A x \in S : \E k \in DOMAIN s : s[k] = x
  <2> SUFFICES ASSUME NEW x \in S PROVE s[r[x]] = x /\ r[x] \in DOMAIN s
    OBVIOUS
  <2>1. r[x] \in 1 .. N
    BY <1>5
  <2> QED
    BY <1>7, <1>10, <1>11, <2>1
<1> QED
  BY <1>11, <1>12, <1>13 DEF s

(* The first rows of a list are in its order, and those that are left out  *)
(* are older.                                                              *)
LEMMA AtMostIs ==
  ASSUME NEW S, NEW s \in Seq(S), NEW n \in Nat
  PROVE  /\ AtMost(s, n) \in Seq(S)
         /\ Len(AtMost(s, n)) = IF Len(s) < n THEN Len(s) ELSE n
         /\ \A i \in 1 .. Len(AtMost(s, n)) : AtMost(s, n)[i] = s[i]
<1> DEFINE k == IF Len(s) < n THEN Len(s) ELSE n
<1>1. k \in Nat /\ k <= Len(s) /\ Len(s) \in Nat
  OBVIOUS
<1>2. \A m \in 0 .. Len(s) :
        /\ SubSeq(s, 1, m) \in Seq(S) /\ Len(SubSeq(s, 1, m)) = m
        /\ \A i \in 1 .. m : SubSeq(s, 1, m)[i] = s[i]
  OBVIOUS
<1> HIDE DEF k
<1> QED
  BY <1>1, <1>2 DEF AtMost, k

LEMMA ReverseIs ==
  ASSUME NEW S, NEW s \in Seq(S)
  PROVE  Reverse(s) \in Seq(S) /\ Len(Reverse(s)) = Len(s)
<1>1. \A i \in 1 .. Len(s) : (Len(s) - i) + 1 \in 1 .. Len(s)
  OBVIOUS
<1>2. Reverse(s) \in [1 .. Len(s) -> S]
  BY <1>1 DEF Reverse
<1> QED
  BY <1>2

(* The rows of the list are ids, which no cursor that is missing is.        *)
LEMMA IdsOnly ==
  ASSUME TypeOK
  PROVE  \A x \in matching : x \in Nat /\ x \in Cursors /\ x # NoCursor
<1> SUFFICES ASSUME NEW x \in matching PROVE x \in Nat /\ x \in Cursors /\ x # NoCursor
  OBVIOUS
<1>1. x \in Ids
  BY DEF TypeOK
<1> QED
  BY <1>1, PagesAssumption DEF Cursors, Ids

OlderFrom(c) ==
  IF c = NoCursor THEN matching ELSE {i \in matching : c \in rows /\ i <= c}

(* What is left of a list after the cursor row: older rows, and all of     *)
(* them when the cursor row is in the list.                                *)
LEMMA SkippedIs ==
  ASSUME TypeOK, NEW c \in Cursors,
         NEW s, s = Skipped(NewestFirst(OlderFrom(c)), c)
  PROVE  /\ s \in Seq(matching) /\ Descending(s)
         /\ c # NoCursor => \A i \in DOMAIN s : s[i] < c
         /\ c = NoCursor \/ c \in matching =>
              \A x \in matching :
                c = NoCursor \/ x < c => \E k \in DOMAIN s : s[k] = x
<1> DEFINE from == OlderFrom(c)
           rowList == NewestFirst(from)
<1> USE DEF OlderFrom
<1>1. matching \subseteq rows /\ rows \subseteq 1 .. MaxRows /\ MaxRows \in Nat
  <2>1. matching \subseteq rows /\ rows \subseteq Ids
    BY DEF TypeOK
  <2> QED
    BY <2>1, PagesAssumption DEF Ids
<1>2. from \in SUBSET (1 .. MaxRows) /\ from \subseteq matching
  BY <1>1
<1>3. /\ rowList \in Seq(from) /\ Descending(rowList)
      /\ \A x \in from : \E k \in DOMAIN rowList : rowList[k] = x
  BY <1>1, <1>2, NewestFirstIs
<1> HIDE DEF rowList
<1>4. rowList \in Seq(matching) /\ \A x \in matching : x \in Nat
  BY <1>1, <1>2, <1>3
<1>5. CASE c = NoCursor
  <2>1. s = rowList /\ from = matching
    BY <1>5 DEF Skipped, rowList
  <2> QED
    BY <1>3, <1>5, <2>1
<1>6. CASE c # NoCursor /\ rowList = <<>>
  <2>1. s = <<>>
    BY <1>6 DEF Skipped, rowList
  <2>2. from = {}
    BY <1>3, <1>6
  <2>3. c \notin matching
    <3> SUFFICES ASSUME c \in matching PROVE FALSE
      OBVIOUS
    <3>1. c \in rows /\ c <= c
      BY <1>1, <1>4
    <3> QED
      BY <1>6, <2>2, <3>1
  <2>4. s \in Seq(matching) /\ \A i \in DOMAIN s : FALSE
    <3>1. s = rowList
      BY <1>6, <2>1
    <3>2. Len(rowList) = 0
      BY <1>6
    <3>3. DOMAIN rowList = 1 .. 0
      BY <1>4, <3>2
    <3>4. \A i \in 1 .. 0 : FALSE
      OBVIOUS
    <3> QED
      BY <1>4, <3>1, <3>3, <3>4
  <2> QED
    BY <1>6, <2>3, <2>4 DEF Descending
<1>7. CASE c # NoCursor /\ rowList # <<>>
  <2> DEFINE n == Len(rowList)
  <2>1. n \in Nat /\ n > 0 /\ DOMAIN rowList = 1 .. n /\ \A i \in 1 .. n : rowList[i] \in from
    BY <1>3, <1>7
  <2>2. /\ s = Tail(rowList) /\ s \in Seq(matching) /\ Len(s) = n - 1
        /\ DOMAIN s = 1 .. n - 1
        /\ \A i \in 1 .. n - 1 : s[i] = rowList[i + 1]
    <3>1. s = Tail(rowList)
      BY <1>7 DEF Skipped, rowList
    <3>2. /\ Tail(rowList) \in Seq(matching) /\ Len(Tail(rowList)) = n - 1
          /\ DOMAIN Tail(rowList) = 1 .. n - 1
          /\ \A i \in 1 .. n - 1 : Tail(rowList)[i] = rowList[i + 1]
      BY <1>4, <1>7
    <3> QED
      BY <3>1, <3>2
  <2>3. \A i \in 1 .. n - 1 : i + 1 \in 1 .. n /\ 1 \in 1 .. n /\ 1 < i + 1
    BY <2>1
  <2> HIDE DEF n
  <2>4. c \in Nat
    BY <1>1, <1>7 DEF Cursors, Ids
  <2>5. \A i \in 1 .. n - 1 : s[i] < c
    <3> SUFFICES ASSUME NEW i \in 1 .. n - 1 PROVE s[i] < c
      OBVIOUS
    <3>1. rowList[i + 1] < rowList[1]
      BY <1>3, <2>1, <2>3 DEF Descending
    <3>2. rowList[1] <= c /\ rowList[1] \in Nat /\ rowList[i + 1] \in Nat
      BY <1>2, <1>4, <1>7, <2>1, <2>3
    <3>3. rowList[i + 1] < c
      BY <2>4, <3>1, <3>2
    <3> QED
      BY <2>2, <3>3
  <2>6. Descending(s)
    <3> SUFFICES ASSUME NEW i \in 1 .. n - 1, NEW j \in 1 .. n - 1, i < j PROVE s[i] > s[j]
      BY <2>2 DEF Descending
    <3>1. i + 1 < j + 1
      BY <2>1
    <3> QED
      BY <1>3, <2>1, <2>2, <2>3, <3>1 DEF Descending
  <2>7. ASSUME c \in matching, NEW x \in matching, x < c
        PROVE  \E k \in DOMAIN s : s[k] = x
    <3>1. x \in from /\ c \in from
      <4>1. c \in rows /\ x <= c /\ c <= c
        BY <1>1, <1>4, <2>4, <2>7
      <4> QED
        BY <1>7, <2>7, <4>1
    <3>2. PICK k \in 1 .. n : rowList[k] = x
      BY <1>3, <2>1, <3>1
    <3>3. k # 1
      <4> SUFFICES ASSUME k = 1 PROVE FALSE
        OBVIOUS
      <4>1. PICK m \in 1 .. n : rowList[m] = c
        BY <1>3, <2>1, <3>1
      <4>2. m # 1 /\ m > 1
        BY <2>1, <2>4, <2>7, <3>2, <4>1
      <4>3. rowList[1] > rowList[m]
        BY <1>3, <2>1, <2>3, <4>2 DEF Descending
      <4> QED
        BY <1>4, <2>4, <2>7, <3>2, <4>1, <4>3
    <3>4. k - 1 \in 1 .. n - 1 /\ (k - 1) + 1 = k
      BY <2>1, <3>3
    <3>5. s[k - 1] = x
      BY <2>2, <3>2, <3>4
    <3> QED
      BY <2>2, <3>4, <3>5
  <2> QED
    BY <1>7, <2>2, <2>5, <2>6, <2>7
<1> QED
  BY <1>5, <1>6, <1>7

(* A page after a cursor: rows of the list in order, older than the        *)
(* cursor; and when the cursor row is in the list, every older row is on   *)
(* the page or older than the cursor it gives.                             *)
LEMMA AfterIs ==
  ASSUME TypeOK, NEW c \in Cursors, NEW p, p = After(c)
  PROVE  /\ p.items \in Seq(matching) /\ Len(p.items) <= Limit /\ Descending(p.items)
         /\ p.next \in Cursors /\ p.prev \in Cursors
         /\ c # NoCursor => \A i \in DOMAIN p.items : p.items[i] < c
         /\ p.next # NoCursor => \A i \in DOMAIN p.items : p.next <= p.items[i]
         /\ c # NoCursor /\ p.next # NoCursor => p.next < c
         /\ c = NoCursor \/ c \in matching =>
              \A x \in matching :
                c = NoCursor \/ x < c =>
                  \/ \E k \in DOMAIN p.items : p.items[k] = x
                  \/ p.next # NoCursor /\ x < p.next
<1> DEFINE s     == Skipped(NewestFirst(OlderFrom(c)), c)
           found == FindForward(c, PageSize)
           items == AtMost(found, Limit)
<1>1. /\ s \in Seq(matching) /\ Descending(s)
      /\ c # NoCursor => \A i \in DOMAIN s : s[i] < c
      /\ c = NoCursor \/ c \in matching =>
           \A x \in matching : c = NoCursor \/ x < c => \E k \in DOMAIN s : s[k] = x
  <2>1. s = Skipped(NewestFirst(OlderFrom(c)), c)
    OBVIOUS
  <2> HIDE DEF s
  <2> QED
    BY <2>1, SkippedIs
<1>2. found = AtMost(s, Limit + 1)
  BY DEF FindForward, PageSize, OlderFrom
<1>3. p = Page(items, IF Len(found) > Limit THEN Last(items) ELSE NoCursor,
               IF c # NoCursor /\ items # <<>> THEN items[1] ELSE NoCursor)
  BY DEF After
<1>4. Limit \in Nat /\ Limit > 0 /\ Limit + 1 \in Nat
  BY PagesAssumption
<1>5. \A x \in matching : x \in Nat /\ x \in Cursors /\ x # NoCursor
  BY IdsOnly
<1> HIDE DEF s, found
<1>6. /\ found \in Seq(matching)
      /\ Len(found) = IF Len(s) < Limit + 1 THEN Len(s) ELSE Limit + 1
      /\ \A i \in 1 .. Len(found) : found[i] = s[i]
  BY <1>1, <1>2, <1>4, AtMostIs
<1>7. /\ items \in Seq(matching)
      /\ Len(items) = IF Len(found) < Limit THEN Len(found) ELSE Limit
      /\ \A i \in 1 .. Len(items) : items[i] = found[i]
  BY <1>4, <1>6, AtMostIs
<1> HIDE DEF items
<1>8. /\ p.items = items
      /\ p.next = IF Len(found) > Limit THEN items[Len(items)] ELSE NoCursor
      /\ p.prev = IF c # NoCursor /\ items # <<>> THEN items[1] ELSE NoCursor
  BY <1>3 DEF Page, Last
<1> DEFINE n == Len(items)
           m == Len(s)
<1>9. /\ n \in Nat /\ m \in Nat /\ Len(found) \in Nat /\ DOMAIN items = 1 .. n /\ DOMAIN s = 1 .. m
      /\ n <= Limit /\ n <= m /\ n <= Len(found)
      /\ Len(found) > Limit => n = Limit /\ n < m
      /\ ~(Len(found) > Limit) => n = m
  BY <1>1, <1>4, <1>6, <1>7
<1> HIDE DEF n, m
<1>10. \A i \in 1 .. n : i \in 1 .. m /\ items[i] = s[i] /\ items[i] \in matching /\ i <= n
  <2>1. \A i \in 1 .. n : i \in 1 .. m /\ i \in 1 .. Len(found) /\ i <= n
    BY <1>9
  <2> QED
    BY <1>6, <1>7, <2>1 DEF n
<1>11. Descending(items)
  BY <1>1, <1>9, <1>10 DEF Descending
<1>12. c # NoCursor => \A i \in 1 .. n : items[i] < c
  BY <1>1, <1>9, <1>10
<1>13. Len(found) > Limit => n \in 1 .. n /\ p.next = items[n] /\ p.next # NoCursor
                             /\ p.next \in Cursors
  BY <1>4, <1>5, <1>8, <1>9, <1>10 DEF n
<1>14. p.next \in Cursors /\ p.prev \in Cursors
  <2>1. NoCursor \in Cursors
    BY DEF Cursors
  <2>2. items # <<>> => 1 \in 1 .. n
    BY <1>7, <1>9 DEF n
  <2> QED
    BY <1>5, <1>8, <1>10, <1>13, <2>1, <2>2
<1>15. p.next # NoCursor => \A i \in 1 .. n : p.next <= items[i]
  <2> SUFFICES ASSUME p.next # NoCursor, NEW i \in 1 .. n PROVE p.next <= items[i]
    OBVIOUS
  <2>1. n \in 1 .. n /\ p.next = items[n]
    BY <1>8, <1>13
  <2>2. items[i] \in Nat /\ items[n] \in Nat
    BY <1>5, <1>10, <2>1
  <2>3. CASE i = n
    BY <2>1, <2>2, <2>3
  <2>4. CASE i < n
    BY <1>9, <1>11, <2>1, <2>2, <2>4 DEF Descending
  <2> QED
    BY <1>9, <2>3, <2>4
<1>16. ASSUME c = NoCursor \/ c \in matching, NEW x \in matching, c = NoCursor \/ x < c
       PROVE  \/ \E k \in 1 .. n : items[k] = x
              \/ p.next # NoCursor /\ x < p.next
  <2>1. PICK k \in 1 .. m : s[k] = x
    BY <1>1, <1>9, <1>16
  <2>2. CASE k <= n
    BY <1>9, <1>10, <2>1, <2>2
  <2>3. CASE k > n
    <3>1. Len(found) > Limit
      BY <1>9, <2>3
    <3>2. n \in 1 .. m /\ n < k /\ s[n] = p.next
      BY <1>10, <1>13, <2>3, <3>1
    <3>3. s[n] > s[k]
      BY <1>1, <1>9, <3>2 DEF Descending
    <3>4. s[n] \in Nat /\ s[k] \in Nat
      BY <1>1, <1>5, <1>9, <3>2
    <3> QED
      BY <1>13, <2>1, <3>1, <3>2, <3>3, <3>4
  <2> QED
    BY <1>9, <2>2, <2>3
<1> QED
  BY <1>7, <1>8, <1>9, <1>11, <1>12, <1>13, <1>14, <1>15, <1>16 DEF n

(* A page before a cursor has rows of the list, and no more than a page.   *)
LEMMA BeforeIs ==
  ASSUME TypeOK, NEW c \in Cursors, NEW p, p = Before(c)
  PROVE  /\ p.items \in Seq(matching) /\ Len(p.items) <= Limit
         /\ p.next \in Cursors /\ p.prev \in Cursors
<1> DEFINE from == {i \in matching : c \in rows /\ i >= c}
           rowList == Reverse(NewestFirst(from))
           s    == AtMost(Skipped(rowList, c), PageSize)
           ordered == Reverse(FindBackward(c, PageSize))
           hasPrev == Len(ordered) > Limit
           items   == IF hasPrev THEN Tail(ordered) ELSE ordered
<1>1. Limit \in Nat /\ Limit > 0 /\ PageSize = Limit + 1 /\ PageSize \in Nat
  BY PagesAssumption DEF PageSize
<1>2. rowList \in Seq(matching)
  <2>1. MaxRows \in Nat /\ from \in SUBSET (1 .. MaxRows) /\ from \subseteq matching
    <3>1. /\ MaxRows \in Nat /\ matching \subseteq rows /\ rows \subseteq 1 .. MaxRows
          /\ from \subseteq matching
      BY PagesAssumption DEF TypeOK, Ids
    <3> HIDE DEF from
    <3> QED
      BY <3>1
  <2> HIDE DEF from
  <2>2. NewestFirst(from) \in Seq(matching)
    <3>1. NewestFirst(from) \in Seq(from)
      BY <2>1, NewestFirstIs
    <3> DEFINE t == NewestFirst(from)
    <3> HIDE DEF t
    <3>2. t \in Seq(from)
      BY <3>1 DEF t
    <3>3. t \in Seq(matching)
      <4>1. Len(t) \in Nat /\ t \in [1 .. Len(t) -> from]
        BY <3>2
      <4>2. t \in [1 .. Len(t) -> matching]
        BY <2>1, <4>1
      <4> QED
        BY <4>1, <4>2
    <3> QED
      BY <3>3 DEF t
  <2> QED
    BY <2>2, ReverseIs
<1> HIDE DEF rowList
<1>3. Skipped(rowList, c) \in Seq(matching)
  BY <1>2 DEF Skipped
<1>4. s \in Seq(matching) /\ Len(s) <= Limit + 1
  <2>1. Len(Skipped(rowList, c)) \in Nat
    BY <1>3
  <2>2. s \in Seq(matching)
        /\ Len(s) = IF Len(Skipped(rowList, c)) < Limit + 1 THEN Len(Skipped(rowList, c)) ELSE Limit + 1
    BY <1>1, <1>3, AtMostIs
  <2> QED
    BY <1>1, <2>1, <2>2
<1>5. ordered = Reverse(Reverse(s))
  BY DEF FindBackward, rowList
<1> HIDE DEF s, ordered
<1>6. ordered \in Seq(matching) /\ Len(ordered) <= Limit + 1
  BY <1>4, <1>5, ReverseIs
<1>7. /\ items \in Seq(matching) /\ Len(items) \in Nat /\ Len(items) <= Limit
      /\ hasPrev => items # <<>>
  BY <1>1, <1>6
<1>8. p = Page(items, IF items = <<>> THEN NoCursor ELSE Last(items),
               IF hasPrev THEN items[1] ELSE NoCursor)
  BY DEF Before, ordered
<1> HIDE DEF items, hasPrev
<1>9. /\ p.items = items
      /\ p.next = IF items = <<>> THEN NoCursor ELSE items[Len(items)]
      /\ p.prev = IF hasPrev THEN items[1] ELSE NoCursor
  BY <1>8 DEF Page, Last
<1>10. NoCursor \in Cursors /\ \A x \in matching : x \in Cursors
  BY IdsOnly DEF Cursors
<1>11. items # <<>> => 1 \in DOMAIN items /\ Len(items) \in DOMAIN items
  BY <1>7
<1>12. \A i \in DOMAIN items : items[i] \in matching
  BY <1>7
<1> QED
  BY <1>7, <1>9, <1>10, <1>11, <1>12

(* Rows shown going forward come newest first; the cursor to go on with is *)
(* older than none of them; and of the rows there were at the start those  *)
(* still in the list were shown or are older than that cursor.             *)
WalkOK ==
  /\ walk.start \subseteq created
  /\ Descending(walk.shown)
  /\ page.next # NoCursor => \A k \in DOMAIN walk.shown : page.next <= walk.shown[k]
  /\ walk.unbroken =>
       \A x \in walk.start \cap matching :
         \/ \E k \in DOMAIN walk.shown : walk.shown[k] = x
         \/ page.next # NoCursor /\ x < page.next

PagesIInv == TypeOK /\ WalkOK

LEMMA PagesStart == Init => PagesIInv
<1> SUFFICES ASSUME Init PROVE PagesIInv
  OBVIOUS
<1>1. /\ page.items = <<>> /\ page.next = NoCursor /\ page.prev = NoCursor
      /\ walk.start = {} /\ walk.shown = <<>> /\ walk.unbroken = TRUE
  BY DEF Init, Page, Walk
<1>2. Len(<<>>) = 0 /\ <<>> \in Seq(Ids) /\ \A i \in DOMAIN <<>> : FALSE
  OBVIOUS
<1>3. TypeOK
  <2>1. created \subseteq Ids /\ rows \subseteq created /\ matching \subseteq rows
    BY PagesAssumption DEF Init
  <2>2. page.items \in Seq(Ids) /\ Len(page.items) <= Limit /\ walk.shown \in Seq(Ids)
    BY <1>1, <1>2, PagesAssumption
  <2> QED
    BY <1>1, <2>1, <2>2 DEF TypeOK, Cursors
<1>4. WalkOK
  BY <1>1, <1>2 DEF WalkOK, Descending
<1> QED
  BY <1>3, <1>4 DEF PagesIInv

(* Rows that come, wherever in the order, are none of those there were at  *)
(* the first page; rows that go are not missed.                            *)
LEMMA RowsChange ==
  ASSUME PagesIInv, UNCHANGED <<page, walk>>,
         created' \subseteq Ids, created \subseteq created',
         rows' \subseteq created', matching' \subseteq rows',
         \A x \in matching' : x \in matching \/ x \notin created
  PROVE  PagesIInv'
<1>1. TypeOK'
  BY DEF PagesIInv, TypeOK
<1>2. walk.start \subseteq created' /\ walk.start \cap matching' \subseteq walk.start \cap matching
  BY DEF PagesIInv, WalkOK
<1>3. WalkOK'
  BY <1>2 DEF PagesIInv, WalkOK, Descending
<1> QED
  BY <1>1, <1>3 DEF PagesIInv

(* The list of rows of a page is one of ids.                               *)
LEMMA RowsAreIds ==
  ASSUME TypeOK, NEW s \in Seq(matching)
  PROVE  s \in Seq(Ids) /\ \A i \in DOMAIN s : s[i] \in Nat /\ s[i] \in matching
<1>1. matching \subseteq Ids /\ \A x \in matching : x \in Nat
  <2>1. matching \subseteq Ids
    BY DEF TypeOK
  <2>2. \A x \in Ids : x \in Nat
    BY DEF Ids
  <2> QED
    BY <2>1, <2>2
<1>2. Len(s) \in Nat /\ s \in [1 .. Len(s) -> matching]
  OBVIOUS
<1>3. s \in [1 .. Len(s) -> Ids]
  BY <1>1, <1>2
<1> QED
  BY <1>1, <1>2, <1>3

(* One list after another.                                                 *)
LEMMA ConcatIs ==
  ASSUME NEW S, NEW s \in Seq(S), NEW t \in Seq(S)
  PROVE  /\ s \o t \in Seq(S) /\ Len(s \o t) = Len(s) + Len(t)
         /\ \A i \in 1 .. Len(s) : (s \o t)[i] = s[i]
         /\ \A i \in 1 .. Len(t) : (s \o t)[Len(s) + i] = t[i]
OBVIOUS

LEMMA FirstKeeps == PagesIInv /\ FirstPage => PagesIInv'
<1> SUFFICES ASSUME PagesIInv, FirstPage PROVE PagesIInv'
  OBVIOUS
<1> DEFINE p == After(NoCursor)
<1>1. NoCursor \in Cursors /\ TypeOK
  BY DEF Cursors, PagesIInv
<1>2. /\ p.items \in Seq(matching) /\ Len(p.items) <= Limit /\ Descending(p.items)
      /\ p.next \in Cursors /\ p.prev \in Cursors
      /\ p.next # NoCursor => \A i \in DOMAIN p.items : p.next <= p.items[i]
      /\ \A x \in matching :
           \/ \E k \in DOMAIN p.items : p.items[k] = x
           \/ p.next # NoCursor /\ x < p.next
  <2>1. p = After(NoCursor)
    OBVIOUS
  <2> HIDE DEF p
  <2> QED
    BY <1>1, <2>1, AfterIs
<1>3. page' = p /\ walk' = Walk(matching, p.items, TRUE) /\ UNCHANGED <<created, rows, matching>>
  BY DEF FirstPage
<1> HIDE DEF p
<1>4. /\ walk'.start = matching /\ walk'.shown = p.items /\ walk'.unbroken = TRUE
  BY <1>3 DEF Walk
<1>5. p.items \in Seq(Ids)
  BY <1>1, <1>2, RowsAreIds
<1>6. matching \subseteq Ids /\ matching \subseteq created
  BY <1>1, PagesAssumption DEF TypeOK, Ids
<1>7. TypeOK'
  BY <1>1, <1>2, <1>3, <1>4, <1>5, <1>6 DEF TypeOK
<1>8. WalkOK'
  BY <1>2, <1>3, <1>4, <1>6 DEF WalkOK, Descending
<1> QED
  BY <1>7, <1>8 DEF PagesIInv

LEMMA NextKeeps == PagesIInv /\ NextPage => PagesIInv'
<1> SUFFICES ASSUME PagesIInv, NextPage PROVE PagesIInv'
  OBVIOUS
<1> DEFINE c == page.next
           p == After(c)
           before == walk.shown
           all == before \o p.items
<1>1. c \in Cursors /\ c # NoCursor /\ TypeOK /\ WalkOK
  BY DEF PagesIInv, TypeOK, NextPage
<1>2. /\ p.items \in Seq(matching) /\ Len(p.items) <= Limit /\ Descending(p.items)
      /\ p.next \in Cursors /\ p.prev \in Cursors
      /\ \A i \in DOMAIN p.items : p.items[i] < c
      /\ p.next # NoCursor => \A i \in DOMAIN p.items : p.next <= p.items[i]
      /\ p.next # NoCursor => p.next < c
      /\ c \in matching =>
           \A x \in matching :
             x < c => \/ \E k \in DOMAIN p.items : p.items[k] = x
                      \/ p.next # NoCursor /\ x < p.next
  <2>1. p = After(c)
    OBVIOUS
  <2> HIDE DEF p, c
  <2> QED
    BY <1>1, <2>1, AfterIs
<1>3. /\ page' = p
      /\ walk' = Walk(walk.start, all, walk.unbroken /\ c \in matching)
      /\ UNCHANGED <<created, rows, matching>>
  BY DEF NextPage
<1>4. /\ walk'.start = walk.start /\ walk'.shown = all
      /\ walk'.unbroken = (walk.unbroken /\ c \in matching)
  BY <1>3 DEF Walk
<1>5. /\ p.items \in Seq(Ids) /\ before \in Seq(Ids) /\ Ids \subseteq Nat
      /\ c \in Nat /\ (p.next # NoCursor => p.next \in Nat)
  BY <1>1, <1>2, RowsAreIds, PagesAssumption DEF TypeOK, Ids, Cursors
<1> HIDE DEF p, c
<1> DEFINE n == Len(before)
           m == Len(p.items)
<1>6. /\ all \in Seq(Ids) /\ n \in Nat /\ m \in Nat /\ Len(all) = n + m
      /\ DOMAIN before = 1 .. n /\ DOMAIN p.items = 1 .. m /\ DOMAIN all = 1 .. n + m
      /\ \A i \in 1 .. n : all[i] = before[i] /\ before[i] \in Nat
      /\ \A i \in 1 .. m : all[n + i] = p.items[i] /\ p.items[i] \in Nat
  <2>1. /\ all \in Seq(Ids) /\ Len(all) = n + m
        /\ \A i \in 1 .. n : all[i] = before[i]
        /\ \A i \in 1 .. m : all[n + i] = p.items[i]
    <3>1. PICK s \in Seq(Ids), t \in Seq(Ids) : s = before /\ t = p.items
      BY <1>5
    <3>2. /\ s \o t \in Seq(Ids) /\ Len(s \o t) = Len(s) + Len(t)
          /\ \A i \in 1 .. Len(s) : (s \o t)[i] = s[i]
          /\ \A i \in 1 .. Len(t) : (s \o t)[Len(s) + i] = t[i]
      BY ConcatIs
    <3> QED
      BY <3>1, <3>2
  <2>2. /\ n \in Nat /\ m \in Nat /\ DOMAIN before = 1 .. n /\ DOMAIN p.items = 1 .. m
        /\ \A i \in 1 .. n : before[i] \in Nat
        /\ \A i \in 1 .. m : p.items[i] \in Nat
    <3>1. \A s \in Seq(Ids) : /\ Len(s) \in Nat /\ DOMAIN s = 1 .. Len(s)
                             /\ \A i \in 1 .. Len(s) : s[i] \in Ids
      OBVIOUS
    <3> QED
      BY <1>5, <3>1
  <2> HIDE DEF all, n, m
  <2>3. DOMAIN all = 1 .. n + m
    BY <2>1
  <2> QED
    BY <2>1, <2>2, <2>3
<1> HIDE DEF all, n, m
<1>7. TypeOK'
  BY <1>1, <1>2, <1>3, <1>4, <1>5, <1>6 DEF TypeOK
<1>8. \A i \in 1 .. n : c <= all[i]
  BY <1>1, <1>6 DEF WalkOK, c
<1>9. \A i \in 1 .. n + m : i > n => \E k \in 1 .. m : i = n + k /\ all[i] = p.items[k] /\ all[i] < c
  <2> SUFFICES ASSUME NEW i \in 1 .. n + m, i > n
               PROVE  \E k \in 1 .. m : i = n + k /\ all[i] = p.items[k] /\ all[i] < c
    OBVIOUS
  <2>1. i - n \in 1 .. m /\ i = n + (i - n)
    BY <1>6
  <2> QED
    BY <1>2, <1>6, <2>1
<1>10. Descending(all)
  <2> SUFFICES ASSUME NEW i \in 1 .. n + m, NEW j \in 1 .. n + m, i < j PROVE all[i] > all[j]
    BY <1>6 DEF Descending
  <2>1. CASE j <= n
    <3>1. i \in 1 .. n /\ j \in 1 .. n
      BY <1>6, <2>1
    <3> QED
      BY <1>1, <1>6, <3>1 DEF WalkOK, Descending
  <2>2. CASE i <= n /\ j > n
    <3>1. c <= all[i] /\ all[i] \in Nat
      <4>1. i \in 1 .. n
        BY <1>6, <2>2
      <4> QED
        BY <1>6, <1>8, <4>1
    <3>2. PICK k \in 1 .. m : j = n + k /\ all[j] = p.items[k] /\ all[j] < c
      BY <1>9, <2>2
    <3>3. all[j] \in Nat
      BY <1>6, <3>2
    <3> QED
      BY <1>5, <3>1, <3>2, <3>3
  <2>3. CASE i > n
    <3>1. PICK k \in 1 .. m : i = n + k /\ all[i] = p.items[k]
      BY <1>9, <2>3
    <3>2. j > n
      BY <1>6, <2>3
    <3>3. PICK l \in 1 .. m : j = n + l /\ all[j] = p.items[l]
      BY <1>9, <3>2
    <3>4. k < l
      BY <1>6, <3>1, <3>3
    <3> QED
      BY <1>2, <1>6, <3>1, <3>3, <3>4 DEF Descending
  <2> QED
    BY <1>6, <2>1, <2>2, <2>3
<1>11. p.next # NoCursor => \A k \in 1 .. n + m : p.next <= all[k]
  <2> SUFFICES ASSUME p.next # NoCursor, NEW k \in 1 .. n + m PROVE p.next <= all[k]
    OBVIOUS
  <2>1. CASE k <= n
    <3>1. k \in 1 .. n
      BY <1>6, <2>1
    <3>2. c <= all[k] /\ all[k] \in Nat /\ p.next < c /\ p.next \in Nat
      BY <1>2, <1>5, <1>6, <1>8, <3>1
    <3> QED
      BY <1>5, <3>2
  <2>2. CASE k > n
    BY <1>2, <1>6, <1>9, <2>2
  <2> QED
    BY <1>6, <2>1, <2>2
<1>12. ASSUME walk.unbroken, c \in matching, NEW x \in walk.start \cap matching
       PROVE  \/ \E k \in 1 .. n + m : all[k] = x
              \/ p.next # NoCursor /\ x < p.next
  <2>1. (\E k \in 1 .. n : before[k] = x) \/ x < c
    BY <1>1, <1>6, <1>12 DEF WalkOK, c
  <2>2. CASE \E k \in 1 .. n : before[k] = x
    <3>1. PICK k \in 1 .. n : before[k] = x
      BY <2>2
    <3>2. k \in 1 .. n + m
      BY <1>6
    <3> QED
      BY <1>6, <3>1, <3>2
  <2>3. CASE \E k \in 1 .. m : p.items[k] = x
    <3>1. PICK k \in 1 .. m : p.items[k] = x
      BY <2>3
    <3>2. n + k \in 1 .. n + m
      BY <1>6
    <3> QED
      BY <1>6, <3>1, <3>2
  <2> QED
    BY <1>2, <1>6, <1>12, <2>1, <2>2, <2>3
<1>13. WalkOK'
  <2>1. walk'.start \subseteq created'
    BY <1>1, <1>3, <1>4 DEF WalkOK
  <2>2. Descending(walk'.shown) /\ DOMAIN walk'.shown = 1 .. n + m
    BY <1>4, <1>6, <1>10
  <2>3. page'.next # NoCursor => \A k \in DOMAIN walk'.shown : page'.next <= walk'.shown[k]
    BY <1>3, <1>4, <1>11, <2>2
  <2>4. ASSUME walk'.unbroken, NEW x \in walk'.start \cap matching'
        PROVE  \/ \E k \in DOMAIN walk'.shown : walk'.shown[k] = x
               \/ page'.next # NoCursor /\ x < page'.next
    <3>1. walk.unbroken /\ c \in matching /\ x \in walk.start \cap matching
      BY <1>3, <1>4, <2>4, Zenon
    <3> QED
      BY <1>3, <1>4, <1>12, <2>2, <3>1
  <2> QED
    BY <2>1, <2>2, <2>3, <2>4 DEF WalkOK, Descending
<1> QED
  BY <1>7, <1>13 DEF PagesIInv

LEMMA PreviousKeeps == PagesIInv /\ PreviousPage => PagesIInv'
<1> SUFFICES ASSUME PagesIInv, PreviousPage PROVE PagesIInv'
  OBVIOUS
<1> DEFINE c == page.prev
           p == Before(c)
<1>1. c \in Cursors /\ TypeOK
  BY DEF PagesIInv, TypeOK
<1>2. /\ p.items \in Seq(matching) /\ Len(p.items) <= Limit
      /\ p.next \in Cursors /\ p.prev \in Cursors
  <2>1. p = Before(c)
    OBVIOUS
  <2> HIDE DEF p, c
  <2> QED
    BY <1>1, <2>1, BeforeIs
<1>3. page' = p /\ walk' = Walk({}, <<>>, FALSE) /\ UNCHANGED <<created, rows, matching>>
  BY DEF PreviousPage
<1> HIDE DEF p, c
<1>4. p.items \in Seq(Ids)
  BY <1>1, <1>2, RowsAreIds
<1>5. /\ walk'.start = {} /\ walk'.shown = <<>> /\ walk'.unbroken = FALSE
      /\ <<>> \in Seq(Ids) /\ \A i \in DOMAIN <<>> : FALSE
  BY <1>3 DEF Walk
<1>6. TypeOK'
  BY <1>1, <1>2, <1>3, <1>4, <1>5 DEF TypeOK
<1>7. WalkOK'
  BY <1>3, <1>5 DEF WalkOK, Descending
<1> QED
  BY <1>6, <1>7 DEF PagesIInv

LEMMA PagesStep == PagesIInv /\ [Next]_vars => PagesIInv'
<1> SUFFICES ASSUME PagesIInv, [Next]_vars PROVE PagesIInv'
  OBVIOUS
<1>0. created \subseteq Ids /\ rows \subseteq created /\ matching \subseteq rows
  BY DEF PagesIInv, TypeOK
<1>1. ASSUME NEW i \in Ids, Create(i) PROVE PagesIInv'
  <2>1. /\ created' = created \cup {i} /\ i \notin created
        /\ rows' = rows \cup {i} /\ matching' = matching \cup {i}
        /\ UNCHANGED <<page, walk>>
    BY <1>1 DEF Create
  <2>2. /\ created' \subseteq Ids /\ created \subseteq created'
        /\ rows' \subseteq created' /\ matching' \subseteq rows'
        /\ \A x \in matching' : x \in matching \/ x \notin created
    BY <1>0, <2>1
  <2> QED
    BY <2>1, <2>2, RowsChange
<1>2. ASSUME NEW i \in rows, Delete(i) \/ LeaveFilter(i) PROVE PagesIInv'
  <2>1. /\ created' = created /\ created' \subseteq Ids
        /\ rows' \subseteq created' /\ matching' \subseteq rows'
        /\ \A x \in matching' : x \in matching \/ x \notin created
        /\ UNCHANGED <<page, walk>>
    <3>1. /\ created' = created /\ UNCHANGED <<page, walk>>
          /\ rows' \subseteq rows /\ matching' \subseteq matching /\ matching' \subseteq rows'
      BY <1>0, <1>2 DEF Delete, LeaveFilter
    <3> QED
      BY <1>0, <3>1
  <2> QED
    BY <2>1, RowsChange
<1>3. CASE UNCHANGED vars
  BY <1>3 DEF vars, PagesIInv, TypeOK, WalkOK, Descending
<1> QED
  BY <1>1, <1>2, <1>3, FirstKeeps, NextKeeps, PreviousKeeps DEF Next

(* For any page size and any rows that come and go a client that goes      *)
(* forward sees no row twice, and at the end has seen every row that was   *)
(* there from its first page on, unless a cursor row left the list.        *)
THEOREM PagesHold == Spec => []PagesInv
<1>1. PagesIInv => PagesInv
  <2> SUFFICES ASSUME PagesIInv PROVE WalkShowsAll /\ NoRowTwice
    BY DEF PagesIInv, PagesInv
  <2>1. WalkShowsAll
    BY DEF PagesIInv, WalkOK, WalkShowsAll, ToSet
  <2>2. NoRowTwice
    <3> SUFFICES ASSUME NEW a \in DOMAIN walk.shown, NEW b \in DOMAIN walk.shown,
                        walk.shown[a] = walk.shown[b], a # b
                 PROVE  FALSE
      BY DEF NoRowTwice, IsInjective
    <3>1. walk.shown \in Seq(Ids) /\ Ids \subseteq Nat
      BY DEF PagesIInv, TypeOK, Ids
    <3>2. a \in Nat /\ b \in Nat /\ walk.shown[a] \in Nat /\ walk.shown[b] \in Nat
      <4>1. \A t \in Seq(Ids) : \A i \in DOMAIN t : i \in Nat /\ t[i] \in Ids
        OBVIOUS
      <4> QED
        BY <3>1, <4>1
    <3>3. a < b \/ b < a
      BY <3>2
    <3> QED
      BY <3>2, <3>3 DEF PagesIInv, WalkOK, Descending
  <2> QED
    BY <2>1, <2>2
<1> QED
  BY <1>1, PagesStart, PagesStep, PTL DEF Spec
=============================================================================
