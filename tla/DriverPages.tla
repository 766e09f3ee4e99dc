----------------------------- MODULE DriverPages -----------------------------
(***************************************************************************)
(* A driver's list of bookings with its dialog for a collection            *)
(* (driver/bookings/page.tsx), and the page of one booking with the same   *)
(* form ([id]/page.tsx).  What is typed lives outside the listing, which   *)
(* is fetched again every twelve seconds; an effect copies the booking     *)
(* into the form whenever the booking is a new object to React.            *)
(***************************************************************************)
EXTENDS BookingTable, Sequences
Sorting == INSTANCE SequencesExt

CONSTANTS Wastes,  \* waste types, those of Priced have a price
          Priced,
          Weights, \* weights that may be typed
          PageSize \* rows of a page (limit)

VARIABLES book,     \* book[b]: [mine, status, kg, waste] in the database
          page,     \* "list", or the booking whose page it is
          listing,  \* data.items
          arriving, \* Idle, Asked, or the listing on its way
          open,     \* collectBookingId
          weight,   \* weightKg, with the booking it was copied from or typed for
          waste,    \* wasteCategoryId, likewise
          call,     \* the call under way: at most one, all buttons wait for it
          changes   \* calls and changes by others so far

driverVars == <<book, page, listing, arriving, open, weight, waste, call, changes>>

NoCall == [op |-> "none", stage |-> "none"]

DriverInit ==
  /\ \E status \in {"ASSIGNED", "IN_PROGRESS"}, w \in Priced :
       book = [b \in Bookings |-> [mine |-> TRUE, status |-> status, kg |-> 0, waste |-> w]]
  /\ page \in {"list", "one"}
  /\ listing = <<>> /\ arriving = Asked
  /\ open \in IF page = "list" THEN {NoBooking} ELSE Bookings
  /\ weight = [kg |-> 0, of |-> NoBooking] /\ waste = [id |-> 0, of |-> NoBooking]
  /\ call = NoCall /\ changes = 0

(* The bookings are numbered in the order they are scheduled in.           *)
Fetched ==
  LET mine == {b \in Bookings : book[b].mine /\ (page = "list" \/ b = open)}
      order == Sorting!SetToSortSeq(mine, <)
      size == IF Len(order) < PageSize THEN Len(order) ELSE PageSize
  IN  [i \in 1 .. size |-> [b |-> order[i], book |-> book[order[i]]]]

At(items, b) == {i \in DOMAIN items : items[i].b = b}

(* A booking is the same object as before as long as it is in the same     *)
(* place and nothing of it has changed (TanStack's structural sharing).    *)
SameObject(items, b) == \E i \in At(listing, b) \cap At(items, b) : listing[i] = items[i]

(* The effect on the booking selected: it is copied into the form unless   *)
(* it is the same object as before.                                        *)
(* Mutant: nor if a weight has been typed.                                 *)
CopyIfEmpty(items, b, same) ==
  IF At(items, b) = {} \/ same \/ weight.kg # 0 THEN UNCHANGED <<weight, waste>>
  ELSE \E i \in At(items, b) :
         /\ weight' = [kg |-> items[i].book.kg, of |-> b]
         /\ waste' = [id |-> items[i].book.waste, of |-> b]

CopySelected(items, b, same) ==
  IF At(items, b) = {} \/ same THEN UNCHANGED <<weight, waste>>
  ELSE \E i \in At(items, b) :
         /\ weight' = [kg |-> items[i].book.kg, of |-> b]
         /\ waste' = [id |-> items[i].book.waste, of |-> b]

AskAgain ==
  /\ arriving = Idle /\ arriving' = Asked
  /\ UNCHANGED <<book, page, listing, open, weight, waste, call, changes>>

(* The page of one booking keeps it when it is refused (not the driver's). *)
AnswerListing ==
  /\ arriving = Asked
  /\ arriving' = IF page = "one" /\ Fetched = <<>> THEN Idle ELSE Fetched
  /\ UNCHANGED <<book, page, listing, open, weight, waste, call, changes>>

LoadListing ==
  /\ arriving \notin {Idle, Asked} /\ arriving' = Idle
  /\ listing' = arriving
  /\ CopySelected(arriving, open, SameObject(arriving, open))
  /\ UNCHANGED <<book, page, open, call, changes>>

OpenDialog(b) ==
  /\ page = "list" /\ open = NoBooking /\ call = NoCall
  /\ \E i \in At(listing, b) : listing[i].book.status \in {"IN_PROGRESS", "COLLECTED"}
  /\ open' = b /\ CopySelected(listing, b, FALSE)
  /\ UNCHANGED <<book, page, listing, arriving, call, changes>>

CloseDialog ==
  /\ page = "list" /\ open # NoBooking /\ open' = NoBooking
  /\ UNCHANGED <<book, page, listing, arriving, weight, waste, call, changes>>

Typed ==
  /\ open # NoBooking /\ page = "one" => listing # <<>>
  /\ \/ \E kg \in Weights : weight' = [kg |-> kg, of |-> open] /\ UNCHANGED waste
     \/ \E w \in Wastes : waste' = [id |-> w, of |-> open] /\ UNCHANGED weight
  /\ UNCHANGED <<book, page, listing, arriving, open, call, changes>>

Sent(c) == call = NoCall /\ changes < MaxChanges /\ changes' = changes + 1 /\ call' = c

(* submitCollect and handleCollect: the waste type goes along if it is not *)
(* the one the booking was listed with.                                    *)
Collect ==
  /\ open # NoBooking /\ weight.kg > 0
  /\ \E i \in At(listing, open) :
       /\ page = "one" => listing[i].book.status \in {"IN_PROGRESS", "COLLECTED"}
       /\ Sent([op |-> "collect", b |-> open, stage |-> "sent", kg |-> weight,
                 waste |-> IF waste.id = listing[i].book.waste THEN [waste EXCEPT !.id = 0] ELSE waste])
  /\ UNCHANGED <<book, page, listing, arriving, open, weight, waste>>

StartOrCancel(b) ==
  /\ page = "one" => b = open
  /\ page = "list" => open = NoBooking
  /\ \E i \in At(listing, b), op \in {"IN_PROGRESS", "CANCELLED"} :
       /\ listing[i].book.status \in {"ASSIGNED"} \cup (IF op = "CANCELLED" THEN {"IN_PROGRESS", "COLLECTED"} ELSE {})
       /\ Sent([op |-> op, b |-> b, stage |-> "sent"])
  /\ UNCHANGED <<book, page, listing, arriving, open, weight, waste>>

To(c) == IF c.op = "collect" THEN "COLLECTED" ELSE c.op
Charged(c) == IF c.waste.id = 0 THEN book[c.b].waste ELSE c.waste.id

Allowed(c) ==
  /\ book[c.b].mine /\ RoleCanTransition("DRIVER", book[c.b].status, To(c))
  /\ c.op = "collect" => Charged(c) \in Priced

ServeDriver(stage) ==
  /\ call.stage = "sent" /\ Allowed(call)
  /\ book' = [book EXCEPT ![call.b] =
       IF call.op = "collect" THEN [@ EXCEPT !.status = "COLLECTED", !.kg = call.kg.kg, !.waste = Charged(call)]
       ELSE [@ EXCEPT !.status = call.op]]
  /\ call' = [call EXCEPT !.stage = stage]
  /\ UNCHANGED <<page, listing, arriving, open, weight, waste, changes>>

RefuseDriver ==
  /\ call.stage = "sent" /\ ~Allowed(call)
  /\ call' = [call EXCEPT !.stage = "error"]
  /\ UNCHANGED <<book, page, listing, arriving, open, weight, waste, changes>>

(* Only a success closes the dialog and fetches the bookings again.        *)
TakeDriver ==
  /\ call.stage \in {"ok", "error"} /\ call' = NoCall
  /\ open' = IF call.stage = "ok" /\ call.op = "collect" /\ page = "list" THEN NoBooking ELSE open
  /\ arriving' = IF call.stage = "ok" THEN Asked ELSE arriving
  /\ UNCHANGED <<book, page, listing, weight, waste, changes>>

(* An administrator assigns a booking, takes it away or edits it.          *)
ByAdmin(b) ==
  /\ changes < MaxChanges /\ changes' = changes + 1
  /\ \/ book' = [book EXCEPT ![b].mine = ~@]
     \/ \E w \in Wastes : book' = [book EXCEPT ![b].waste = w]
     \/ book[b].status # "CANCELLED" /\ book' = [book EXCEPT ![b].status = "CANCELLED"]
  /\ UNCHANGED <<page, listing, arriving, open, weight, waste, call>>

DriverNext ==
  \/ AskAgain \/ AnswerListing \/ LoadListing \/ CloseDialog \/ Typed \/ Collect
  \/ RefuseDriver \/ TakeDriver \/ \E stage \in {"ok", "error"} : ServeDriver(stage)
  \/ \E b \in Bookings : OpenDialog(b) \/ StartOrCancel(b) \/ ByAdmin(b)

DriverSpec == DriverInit /\ [][DriverNext]_driverVars

(* Whatever comes between, the listing fetched again, the booking gone     *)
(* from it and back, the dialog closed and opened for another: the weight  *)
(* and the waste type of a collection were typed for its own booking, or   *)
(* are those recorded of it.                                               *)
TypedForBooking ==
  call.op = "collect" => call.kg.of = call.b /\ call.waste.of = call.b
=============================================================================
