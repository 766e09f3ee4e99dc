----------------------------- MODULE BookingTable -----------------------------
(***************************************************************************)
(* The tables of bookings of an administrator (admin/bookings/page.tsx)    *)
(* and of a customer (users/bookings/page.tsx): listings kept by filter,   *)
(* fetched again every twelve seconds and after every call; calls that may *)
(* overlap; a row taken out of the table before the server has deleted it. *)
(* Search, dates and cursors are parts of the key, like the filter.        *)
(***************************************************************************)
EXTENDS BookingStatus, Naturals

CONSTANTS Bookings, Filters, NoBooking,
          NoListing, Idle, Asked, \* model values that are no listing
          MaxChanges \* calls of the page and changes by others, bound of the model

ASSUME TableAssumption ==
  /\ "ALL" \in Filters /\ Idle # Asked
  /\ \A L \in [Bookings -> AllStatuses \cup {"gone"}] : L \notin {NoListing, Idle, Asked}

VARIABLES rows,     \* rows[b]: the status in the database, or "gone"
          viewer,   \* "admin" or "customer"
          filter,   \* the filter chosen
          filled,   \* the last filter chosen that had a listing
          cache,    \* cache[f]: the listing kept, or NoListing
          fetch,    \* fetch[f]: Idle, Asked, or the listing on its way
          calls,    \* calls under way
          busy,     \* busy[op]: assigningId, statusUpdatingId, deletingId
          behind,   \* listings kept, or on their way, older than a call's effect
          excused,  \* filters whose last fetch failed, or was under way when it was called for
          made      \* changes so far

pageVars == <<rows, viewer, filter, filled, cache, fetch, calls, busy, behind, excused, made>>

All == "ALL"
Ops == {"assign", "status", "delete"}

Listing(f) ==
  [b \in Bookings |-> IF f = All \/ rows[b] \in ExpandBookingStatusFilter(f) THEN rows[b] ELSE "gone"]

TableInit ==
  /\ rows \in [Bookings -> {"CREATED", "COLLECTED"}]
  /\ viewer \in {"admin", "customer"}
  /\ filter = All /\ filled = All
  /\ cache = [f \in Filters |-> NoListing]
  /\ fetch = [f \in Filters |-> IF f = All THEN Asked ELSE Idle]
  /\ calls = {} /\ busy = [op \in Ops |-> NoBooking]
  /\ behind = {} /\ excused = {} /\ made = 0

(* A filter's listing is fetched once at a time: who wants it joins.       *)
Join(f) ==
  IF fetch[f] = Idle
  THEN fetch' = [fetch EXCEPT ![f] = Asked] /\ excused' = excused \ {f}
  ELSE fetch' = fetch /\ excused' = excused \cup {f}

ChooseFilter(f) ==
  /\ f # filter /\ filter' = f
  /\ filled' = IF cache[filter] # NoListing THEN filter ELSE filled
  /\ Join(f)
  /\ UNCHANGED <<rows, viewer, cache, calls, busy, behind, made>>

Poll ==
  /\ fetch[filter] = Idle /\ Join(filter)
  /\ UNCHANGED <<rows, viewer, filter, filled, cache, calls, busy, behind, made>>

ServeListing(f) ==
  /\ fetch[f] = Asked /\ fetch' = [fetch EXCEPT ![f] = Listing(f)]
  /\ behind' = behind \ {<<f, "coming">>}
  /\ UNCHANGED <<rows, viewer, filter, filled, cache, calls, busy, excused, made>>

TakeListing(f) ==
  /\ fetch[f] \notin {Idle, Asked}
  /\ cache' = [cache EXCEPT ![f] = fetch[f]] /\ fetch' = [fetch EXCEPT ![f] = Idle]
  /\ behind' = IF <<f, "coming">> \in behind THEN behind \cup {<<f, "kept">>}
               ELSE behind \ {<<f, "kept">>}
  /\ UNCHANGED <<rows, viewer, filter, filled, calls, busy, excused, made>>

ListingFails(f) ==
  /\ fetch[f] # Idle /\ fetch' = [fetch EXCEPT ![f] = Idle]
  /\ excused' = excused \cup {f}
  /\ UNCHANGED <<rows, viewer, filter, filled, cache, calls, busy, behind, made>>

(* While a filter has no listing of its own, the one shown before stays.   *)
Shown ==
  IF cache[filter] # NoListing THEN cache[filter]
  ELSE IF cache[filled] # NoListing THEN cache[filled] ELSE [b \in Bookings |-> "gone"]

Commands ==
  [op : {"delete"}, b : Bookings, to : {"gone"}]
    \cup [op : {"assign"}, b : Bookings, to : {"ASSIGNED"}]
    \cup [op : {"status"}, b : Bookings, to : {"COMPLETED", "CANCELLED", "REFUNDED"}]

(* canAdminAssign, canAdminComplete, canAdminCancel, canAdminRefund        *)
AdminButtons ==
  {<<"CREATED", "ASSIGNED">>, <<"COLLECTED", "COMPLETED">>, <<"CANCELLED", "REFUNDED">>}
    \cup ({"CREATED", "ASSIGNED", "IN_PROGRESS", "COLLECTED"} \X {"CANCELLED"})

Offered(c) ==
  LET s == NormalizeBookingStatus(Shown[c.b])
  IN  /\ Shown[c.b] # "gone" /\ busy[c.op] # c.b
      /\ IF viewer = "customer" THEN c.op = "delete" /\ s = "CREATED"
         ELSE c.op = "delete" \/ <<s, c.to>> \in AdminButtons

(* A second call of one kind leaves the first with the filter it sees now; *)
(* the latest call of a kind follows the filter (TanStack's setOptions).   *)
Superseded(op) ==
  {IF k.op = op /\ k.latest THEN [k EXCEPT !.latest = FALSE, !.key = filter] ELSE k : k \in calls}

Called(c, saved) ==
  [op |-> c.op, b |-> c.b, to |-> c.to, id |-> made, stage |-> "sent",
   latest |-> TRUE, key |-> filter, saved |-> saved]

Send(c) ==
  /\ made < MaxChanges /\ made' = made + 1
  /\ Offered(c)
  /\ busy' = [busy EXCEPT ![c.op] = c.b]

Press(c) ==
  /\ c.op # "delete" /\ Send(c)
  /\ calls' = Superseded(c.op) \cup {Called(c, NoListing)}
  /\ UNCHANGED <<rows, viewer, filter, filled, cache, fetch, behind, excused>>

(* The fetch under way is given up and the row taken out of the listing;   *)
(* the customer's page looks under a key that nothing is kept under.       *)
PressDelete(c) ==
  /\ c.op = "delete" /\ Send(c)
  /\ fetch' = [fetch EXCEPT ![filter] = Idle]
  /\ IF viewer = "admin" /\ cache[filter] # NoListing
     THEN /\ calls' = Superseded("delete") \cup {Called(c, cache[filter])}
          /\ cache' = [cache EXCEPT ![filter][c.b] = "gone"]
     ELSE /\ calls' = Superseded("delete") \cup {Called(c, NoListing)}
          /\ UNCHANGED cache
  /\ UNCHANGED <<rows, viewer, filter, filled, behind, excused>>

Accepted(k) ==
  /\ rows[k.b] # "gone"
  /\ k.op # "delete" => RoleCanTransition("ADMIN", rows[k.b], k.to)

Becomes(k, stage) == calls' = (calls \ {k}) \cup {[k EXCEPT !.stage = stage]}

(* An answer that came too late is an error to the page (stage).           *)
ServeCall(k, stage) ==
  /\ k.stage = "sent" /\ Accepted(k) /\ Becomes(k, stage)
  /\ rows' = [rows EXCEPT ![k.b] = k.to]
  /\ behind' = behind \cup {<<f, "kept">> : f \in {g \in Filters : cache[g] # NoListing}}
                      \cup {<<f, "coming">> : f \in {g \in Filters : fetch[g] \notin {Idle, Asked}}}
  /\ UNCHANGED <<viewer, filter, filled, cache, fetch, busy, excused, made>>

RefuseCall(k) ==
  /\ k.stage = "sent" /\ ~Accepted(k) /\ Becomes(k, "error")
  /\ UNCHANGED <<rows, viewer, filter, filled, cache, fetch, busy, behind, excused, made>>

(* A failed deletion puts back the listing it found, under the filter of   *)
(* the page by now.                                                        *)
PutBack(k) ==
  LET key == IF k.latest THEN filter ELSE k.key
  IN  IF k.stage = "error" /\ k.saved # NoListing
      THEN cache' = [cache EXCEPT ![key] = k.saved] /\ behind' = behind \cup {<<key, "kept">>}
      ELSE UNCHANGED <<cache, behind>>

(* Whatever the answer: the button is free, and the listing of the filter  *)
(* chosen is fetched anew; a first fetch that is under way is joined.      *)
(* Mutant: the listing fetched anew is that of the filter of the call.     *)
TakeCallKey(k) ==
  /\ k.stage # "sent" /\ calls' = calls \ {k}
  /\ busy' = [busy EXCEPT ![k.op] = NoBooking]
  /\ PutBack(k)
  /\ fetch' = [fetch EXCEPT ![k.key] = Asked] /\ excused' = excused \ {k.key}
  /\ UNCHANGED <<rows, viewer, filter, filled, made>>

TakeCall(k) ==
  /\ k.stage # "sent" /\ calls' = calls \ {k}
  /\ busy' = [busy EXCEPT ![k.op] = NoBooking]
  /\ PutBack(k)
  /\ IF cache'[filter] = NoListing THEN Join(filter)
     ELSE fetch' = [fetch EXCEPT ![filter] = Asked] /\ excused' = excused \ {filter}
  /\ UNCHANGED <<rows, viewer, filter, filled, made>>

(* A driver moves a booking on, or its customer deletes it.                *)
Elsewhere(b, to) ==
  /\ made < MaxChanges /\ made' = made + 1
  /\ rows[b] # "gone"
  /\ to = "gone" \/ (to # rows[b] /\ RoleCanTransition("DRIVER", rows[b], to))
  /\ rows' = [rows EXCEPT ![b] = to]
  /\ UNCHANGED <<viewer, filter, filled, cache, fetch, calls, busy, behind, excused>>

TableNext ==
  \/ Poll
  \/ \E f \in Filters : ChooseFilter(f) \/ ServeListing(f) \/ TakeListing(f) \/ ListingFails(f)
  \/ \E c \in Commands : Press(c) \/ PressDelete(c)
  \/ \E k \in calls : TakeCall(k) \/ RefuseCall(k) \/ \E stage \in {"ok", "error"} : ServeCall(k, stage)
  \/ \E b \in Bookings, to \in CanonicalStatuses \cup {"gone"} : Elsewhere(b, to)

TableSpec == TableInit /\ [][TableNext]_pageVars

(* Once nothing is under way, the table shows a listing that the server    *)
(* gave after the last of the page's own calls took effect, also after a   *)
(* failed deletion that put the rows of one filter under another, unless   *)
(* its last fetch failed or was older than the call and merely joined.     *)
TableIsFresh ==
  calls = {} /\ fetch[filter] = Idle /\ filter \notin excused
    => cache[filter] # NoListing /\ <<filter, "kept">> \notin behind
=============================================================================
