------------------------------ MODULE Pages_proofs ------------------------------
(***************************************************************************)
(* Proofs about the tables of bookings, the driver's pages, the profile    *)
(* and settings pages and the chat assistant, for any bookings, filters,   *)
(* names, passkeys, histories and models.                                  *)
(***************************************************************************)
EXTENDS DriverPages, SettingsPages, ChatAnswers, SequenceTheorems,
        WellFoundedInduction, FiniteSetTheorems, TLAPS

(* BookingTable.  When no call is under way, a listing of the chosen       *)
(* filter that is on its way was given after the last call's effect.       *)
Listings == [Bookings -> AllStatuses \cup {"gone"}]

TableTypes ==
  /\ rows \in Listings /\ filter \in Filters /\ All \in Filters
  /\ cache = [f \in Filters |-> cache[f]]
  /\ fetch \in [Filters -> {Idle, Asked} \cup Listings]
  /\ \A k \in calls : k.to \in AllStatuses \cup {"gone"}

ComingIsFresh ==
  calls = {} /\ filter \notin excused /\ fetch[filter] \notin {Idle, Asked}
    => <<filter, "coming">> \notin behind

TableIInv == TableTypes /\ ComingIsFresh /\ TableIsFresh

LEMMA TableStart == TableInit => TableIInv
<1> SUFFICES ASSUME TableInit PROVE TableIInv
  OBVIOUS
<1>1. TableTypes
  BY TableAssumption DEF TableInit, TableTypes, Listings, All, AllStatuses, CanonicalStatuses
<1>2. fetch[filter] = Asked
  BY TableAssumption DEF TableInit, All
<1> QED
  BY <1>1, <1>2, TableAssumption DEF TableIInv, ComingIsFresh, TableIsFresh

LEMMA ListingIsOne == ASSUME TableTypes, NEW f \in Filters PROVE Listing(f) \in Listings
BY DEF TableTypes, Listing, Listings

(* A filter is wanted: its listing is asked for, or the fetch joined is    *)
(* not relied on.                                                          *)
LEMMA Joined ==
  ASSUME TableTypes, NEW f \in Filters, Join(f)
  PROVE  /\ fetch' \in [Filters -> {Idle, Asked} \cup Listings]
         /\ f \in excused' \/ fetch'[f] = Asked
BY DEF TableTypes, Join

LEMMA FetchesKeep ==
  ASSUME TableIInv, NEW f \in Filters, ServeListing(f) \/ TakeListing(f) \/ ListingFails(f)
  PROVE  TableIInv'
<1> USE DEF TableIInv
<1>1. UNCHANGED <<rows, filter, calls>>
  BY DEF ServeListing, TakeListing, ListingFails
<1>2. CASE ServeListing(f)
  <2>1. /\ fetch[f] = Asked /\ fetch' = [fetch EXCEPT ![f] = Listing(f)]
        /\ behind' = behind \ {<<f, "coming">>} /\ UNCHANGED <<cache, excused>>
    BY <1>2 DEF ServeListing
  <2>2. fetch' \in [Filters -> {Idle, Asked} \cup Listings]
    BY <2>1, ListingIsOne DEF TableTypes
  <2>3. Listing(f) # Idle
    BY ListingIsOne, TableAssumption DEF Listings
  <2>4. TableTypes'
    BY <1>1, <2>1, <2>2 DEF TableTypes
  <2>5. fetch'[f] = Listing(f) /\ \A g \in Filters : g # f => fetch'[g] = fetch[g]
    BY <2>1 DEF TableTypes
  <2>6. filter \in Filters
    BY DEF TableTypes
  <2>7. ComingIsFresh'
    BY <1>1, <2>1, <2>5, <2>6 DEF ComingIsFresh
  <2>8. TableIsFresh'
    BY <1>1, <2>1, <2>3, <2>5, <2>6 DEF TableIsFresh
  <2> QED
    BY <2>4, <2>7, <2>8
<1>3. CASE TakeListing(f)
  <2>1. /\ fetch[f] \notin {Idle, Asked} /\ cache' = [cache EXCEPT ![f] = fetch[f]]
        /\ fetch' = [fetch EXCEPT ![f] = Idle] /\ UNCHANGED excused
        /\ <<f, "coming">> \in behind' <=> <<f, "coming">> \in behind
        /\ \A g \in Filters : g # f => /\ <<g, "coming">> \in behind' <=> <<g, "coming">> \in behind
                                       /\ <<g, "kept">> \in behind' <=> <<g, "kept">> \in behind
        /\ <<f, "kept">> \in behind' => <<f, "coming">> \in behind
    BY <1>3 DEF TakeListing
  <2>2. fetch[f] \in Listings /\ fetch[f] # NoListing
    BY <2>1, TableAssumption DEF TableTypes, Listings
  <2>3. TableTypes'
    BY <1>1, <2>1 DEF TableTypes
  <2>4. /\ fetch'[f] = Idle /\ cache'[f] = fetch[f] /\ filter \in Filters
        /\ \A g \in Filters : g # f => fetch'[g] = fetch[g] /\ cache'[g] = cache[g]
    BY <2>1 DEF TableTypes
  <2>5. ComingIsFresh'
    BY <1>1, <2>1, <2>4 DEF ComingIsFresh
  <2>6. TableIsFresh'
    <3>1. CASE filter = f
      BY <1>1, <2>1, <2>2, <2>4, <3>1 DEF TableIsFresh, ComingIsFresh
    <3>2. CASE filter # f
      BY <1>1, <2>1, <2>4, <3>2 DEF TableIsFresh
    <3> QED
      BY <3>1, <3>2
  <2> QED
    BY <2>3, <2>5, <2>6
<1>4. CASE ListingFails(f)
  <2>1. /\ fetch' = [fetch EXCEPT ![f] = Idle] /\ excused' = excused \cup {f} /\ UNCHANGED <<cache, behind>>
    BY <1>4 DEF ListingFails
  <2>2. TableTypes'
    BY <1>1, <2>1 DEF TableTypes
  <2>3. filter \in Filters /\ \A g \in Filters : g # f => fetch'[g] = fetch[g]
    BY <2>1 DEF TableTypes
  <2>4. ComingIsFresh' /\ TableIsFresh'
    BY <1>1, <2>1, <2>3 DEF ComingIsFresh, TableIsFresh
  <2> QED
    BY <2>2, <2>4
<1> QED
  BY <1>2, <1>3, <1>4

(* With a call under way nothing is promised of the table.                 *)
LEMMA CallsKeep ==
  ASSUME TableIInv, \/ \E c \in Commands : Press(c) \/ PressDelete(c)
                    \/ \E k \in calls : RefuseCall(k) \/ \E got \in {"ok", "error"} : ServeCall(k, got)
  PROVE  TableIInv'
<1> USE DEF TableIInv
<1> SUFFICES calls' # {} /\ TableTypes'
  BY DEF ComingIsFresh, TableIsFresh
<1>1. ASSUME NEW op PROVE \A k \in Superseded(op) : k.to \in AllStatuses \cup {"gone"}
  <2> SUFFICES ASSUME NEW k \in calls
               PROVE  /\ k.to \in AllStatuses \cup {"gone"}
                      /\ [k EXCEPT !.latest = FALSE, !.key = filter].to = k.to
    BY DEF Superseded
  <2> QED
    BY DEF TableTypes
<1>2. \A c \in Commands : c.to \in AllStatuses \cup {"gone"}
  BY DEF Commands, AllStatuses, CanonicalStatuses
<1>3. ASSUME NEW c \in Commands, Press(c) \/ PressDelete(c) PROVE calls' # {} /\ TableTypes'
  <2>1. PICK saved : calls' = Superseded(c.op) \cup {Called(c, saved)}
    BY <1>3 DEF Press, PressDelete
  <2>2. Called(c, saved).to = c.to
    BY DEF Called
  <2>3. \A k \in calls' : k.to \in AllStatuses \cup {"gone"}
    BY <1>1, <1>2, <2>1, <2>2
  <2>4. /\ UNCHANGED <<rows, filter>> /\ cache' = [f \in Filters |-> cache'[f]]
        /\ fetch' \in [Filters -> {Idle, Asked} \cup Listings]
    BY <1>3 DEF Press, PressDelete, TableTypes
  <2> QED
    BY <2>1, <2>3, <2>4 DEF TableTypes
<1>4. ASSUME NEW k \in calls, NEW got, Becomes(k, got), UNCHANGED <<filter, cache, fetch>>, rows' \in Listings
      PROVE  calls' # {} /\ TableTypes'
  <2>1. PICK x : x = [k EXCEPT !.stage = got]
    OBVIOUS
  <2>2. x.to = k.to
    BY <2>1
  <2> QED
    BY <1>4, <2>1, <2>2 DEF Becomes, TableTypes
<1>5. ASSUME NEW k \in calls, RefuseCall(k) PROVE calls' # {} /\ TableTypes'
  BY <1>4, <1>5 DEF RefuseCall, TableTypes
<1>6. ASSUME NEW k \in calls, NEW got, ServeCall(k, got) PROVE calls' # {} /\ TableTypes'
  <2>1. rows' \in Listings
    BY <1>6 DEF ServeCall, TableTypes, Listings
  <2> QED
    BY <1>4, <1>6, <2>1 DEF ServeCall
<1> QED
  BY <1>3, <1>5, <1>6

(* Every answer has the listing of the chosen filter fetched anew.         *)
LEMMA AnswersKeep == ASSUME TableIInv, NEW k \in calls, TakeCall(k) PROVE TableIInv'
<1> USE DEF TableIInv
<1>1. UNCHANGED <<rows, filter>> /\ calls' \subseteq calls
  BY DEF TakeCall
<1>2. filter \in Filters
  BY DEF TableTypes
<1>3. cache' = [f \in Filters |-> cache'[f]]
  BY DEF TakeCall, PutBack, TableTypes
<1>4. /\ fetch' \in [Filters -> {Idle, Asked} \cup Listings]
      /\ filter \in excused' \/ fetch'[filter] = Asked
  <2>1. CASE cache'[filter] = NoListing
    BY <1>2, <2>1, Joined DEF TakeCall
  <2>2. CASE cache'[filter] # NoListing
    BY <1>2, <2>2 DEF TakeCall, TableTypes
  <2> QED
    BY <2>1, <2>2
<1>5. TableTypes'
  BY <1>1, <1>3, <1>4 DEF TableTypes
<1>6. ComingIsFresh' /\ TableIsFresh'
  BY <1>1, <1>4, TableAssumption DEF ComingIsFresh, TableIsFresh
<1> QED
  BY <1>5, <1>6

LEMMA TableStep == TableIInv /\ [TableNext]_pageVars => TableIInv'
<1> SUFFICES ASSUME TableIInv, [TableNext]_pageVars PROVE TableIInv'
  OBVIOUS
<1> USE DEF TableIInv
<1>1. CASE UNCHANGED pageVars
  BY <1>1 DEF pageVars, TableTypes, ComingIsFresh, TableIsFresh, Listings
<1>2. ASSUME NEW f \in Filters, Join(f), filter' = f, UNCHANGED <<rows, cache, calls, behind>> PROVE TableIInv'
  <2>1. TableTypes'
    BY <1>2, Joined DEF TableTypes, Listings
  <2>2. f \in excused' \/ fetch'[f] = Asked
    BY <1>2, Joined
  <2> QED
    BY <1>2, <2>1, <2>2, TableAssumption DEF ComingIsFresh, TableIsFresh
<1>3. CASE Poll
  BY <1>2, <1>3 DEF Poll, TableTypes
<1>4. ASSUME NEW f \in Filters, ChooseFilter(f) PROVE TableIInv'
  BY <1>2, <1>4 DEF ChooseFilter
<1>5. ASSUME NEW b \in Bookings, NEW to \in CanonicalStatuses \cup {"gone"}, Elsewhere(b, to) PROVE TableIInv'
  <2>1. rows' \in Listings /\ UNCHANGED <<filter, cache, fetch, calls, behind, excused>>
    BY <1>5 DEF Elsewhere, TableTypes, Listings, AllStatuses
  <2> QED
    BY <2>1 DEF TableTypes, ComingIsFresh, TableIsFresh, Listings
<1> QED
  BY <1>1, <1>3, <1>4, <1>5, FetchesKeep, CallsKeep, AnswersKeep DEF TableNext

(* Once nothing is under way, the table shows a listing given after the    *)
(* last of the page's own calls took effect.                               *)
THEOREM TableStaysFresh == TableSpec => []TableIsFresh
<1>1. TableIInv => TableIsFresh
  BY DEF TableIInv
<1> QED
  BY <1>1, TableStart, TableStep, PTL DEF TableSpec

(* DriverPages.  The form of a booking that is open and listed has been    *)
(* filled from it, or typed for it.                                        *)
FormIsOpen ==
  open # NoBooking /\ At(listing, open) # {} => weight.of = open /\ waste.of = open

DriverIInv == FormIsOpen /\ TypedForBooking

LEMMA Copied ==
  ASSUME NEW items, NEW b, NEW same \in BOOLEAN, CopySelected(items, b, same)
  PROVE  \/ (At(items, b) = {} \/ same) /\ UNCHANGED <<weight, waste>>
         \/ weight'.of = b /\ waste'.of = b
<1>1. CASE At(items, b) = {} \/ same
  BY <1>1 DEF CopySelected
<1>2. CASE ~(At(items, b) = {} \/ same)
  <2>1. PICK i \in At(items, b) : /\ weight' = [kg |-> items[i].book.kg, of |-> b]
                                  /\ waste' = [id |-> items[i].book.waste, of |-> b]
    BY <1>2 DEF CopySelected
  <2> QED
    BY <2>1
<1> QED
  BY <1>1, <1>2

LEMMA DriverStart == DriverInit => DriverIInv
BY DEF DriverInit, DriverIInv, FormIsOpen, TypedForBooking, At, NoCall

LEMMA DriverStep == DriverIInv /\ [DriverNext]_driverVars => DriverIInv'
<1> SUFFICES ASSUME DriverIInv, [DriverNext]_driverVars PROVE DriverIInv'
  OBVIOUS
<1> USE DEF DriverIInv
<1>1. ASSUME UNCHANGED <<listing, open, weight, waste, call>> PROVE DriverIInv'
  BY <1>1 DEF FormIsOpen, TypedForBooking, At
<1>2. CASE UNCHANGED driverVars
  BY <1>1, <1>2 DEF driverVars
<1>3. CASE AskAgain \/ AnswerListing
  BY <1>1, <1>3 DEF AskAgain, AnswerListing
<1>4. ASSUME NEW b \in Bookings, ByAdmin(b) PROVE DriverIInv'
  BY <1>1, <1>4 DEF ByAdmin
<1>5. CASE LoadListing
  <2>1. /\ listing' = arriving /\ CopySelected(arriving, open, SameObject(arriving, open)) /\ UNCHANGED <<open, call>>
    BY <1>5 DEF LoadListing
  <2>2. SameObject(arriving, open) \in BOOLEAN /\ (SameObject(arriving, open) => At(listing, open) # {})
    BY DEF SameObject
  <2>3. \/ (At(arriving, open) = {} \/ SameObject(arriving, open)) /\ UNCHANGED <<weight, waste>>
        \/ weight'.of = open /\ waste'.of = open
    BY <2>1, <2>2, Copied
  <2>4. FormIsOpen'
    BY <2>1, <2>2, <2>3 DEF FormIsOpen, At
  <2> QED
    BY <2>1, <2>4 DEF TypedForBooking
<1>6. ASSUME NEW b \in Bookings, OpenDialog(b) PROVE DriverIInv'
  <2>1. At(listing, b) # {} /\ open' = b /\ CopySelected(listing, b, FALSE) /\ UNCHANGED <<listing, call>>
    BY <1>6 DEF OpenDialog
  <2>2. weight'.of = b /\ waste'.of = b
    BY <2>1, Copied
  <2> QED
    BY <2>1, <2>2 DEF FormIsOpen, TypedForBooking
<1>7. CASE CloseDialog
  BY <1>7 DEF CloseDialog, FormIsOpen, TypedForBooking
<1>8. CASE Typed
  <2>1. /\ UNCHANGED <<listing, open, call>>
        /\ weight' = weight \/ weight'.of = open
        /\ waste' = waste \/ waste'.of = open
    BY <1>8 DEF Typed
  <2> QED
    BY <2>1 DEF FormIsOpen, TypedForBooking, At
<1>9. CASE Collect
  <2>1. UNCHANGED <<listing, open, weight, waste>> /\ open # NoBooking
    BY <1>9 DEF Collect
  <2>2. PICK i \in At(listing, open) :
          call' = [op |-> "collect", b |-> open, stage |-> "sent", kg |-> weight,
                   waste |-> IF waste.id = listing[i].book.waste THEN [waste EXCEPT !.id = 0] ELSE waste]
    BY <1>9 DEF Collect, Sent
  <2>3. weight.of = open /\ waste.of = open
    BY <2>1, <2>2 DEF FormIsOpen
  <2>4. PICK w : w = [waste EXCEPT !.id = 0]
    OBVIOUS
  <2>5. w.of = open
    BY <2>3, <2>4
  <2>6. call'.b = open /\ call'.kg = weight /\ call'.waste \in {w, waste}
    BY <2>2, <2>4
  <2>7. FormIsOpen' /\ TypedForBooking'
    BY <2>1, <2>3, <2>5, <2>6 DEF FormIsOpen, TypedForBooking, At
  <2> QED
    BY <2>7
<1>10. ASSUME NEW b \in Bookings, StartOrCancel(b) PROVE DriverIInv'
  <2>1. PICK op \in {"IN_PROGRESS", "CANCELLED"} : call' = [op |-> op, b |-> b, stage |-> "sent"]
    BY <1>10 DEF StartOrCancel, Sent
  <2>2. call'.op # "collect" /\ UNCHANGED <<listing, open, weight, waste>>
    BY <1>10, <2>1 DEF StartOrCancel
  <2> QED
    BY <2>2 DEF FormIsOpen, TypedForBooking, At
<1>11. ASSUME NEW got, call' = [call EXCEPT !.stage = got], UNCHANGED <<listing, open, weight, waste>> PROVE DriverIInv'
  <2>1. call'.op = call.op /\ call'.b = call.b /\ call'.kg = call.kg /\ call'.waste = call.waste
    BY <1>11
  <2> QED
    BY <1>11, <2>1 DEF FormIsOpen, TypedForBooking, At
<1>12. CASE RefuseDriver \/ \E got \in {"ok", "error"} : ServeDriver(got)
  BY <1>11, <1>12 DEF RefuseDriver, ServeDriver
<1>13. CASE TakeDriver
  <2>1. call' = NoCall /\ open' \in {open, NoBooking} /\ UNCHANGED <<listing, weight, waste>>
    BY <1>13 DEF TakeDriver
  <2> QED
    BY <2>1 DEF FormIsOpen, TypedForBooking, At, NoCall
<1> QED
  BY <1>2, <1>3, <1>4, <1>5, <1>6, <1>7, <1>8, <1>9, <1>10, <1>12, <1>13 DEF DriverNext

(* The weight and the waste type of a collection were typed for its own    *)
(* booking, or are those recorded of it.                                   *)
THEOREM CollectsItsOwn == DriverSpec => []TypedForBooking
<1>1. DriverIInv => TypedForBooking
  BY DEF DriverIInv
<1> QED
  BY <1>1, DriverStart, DriverStep, PTL DEF DriverSpec

(* SettingsPages, the preferences.  What a driver's page has read while it *)
(* mounts is what was chosen; only a driver's page mounts in two steps.    *)
PrefsIInv ==
  /\ cut \in BOOLEAN /\ (stage = "mounting" => screen = "driver" /\ (~cut => merged = chosen))
  /\ PreferencesKept

LEMMA PrefsStart == PrefsInit => PrefsIInv
BY DEF PrefsInit, PrefsIInv, PreferencesKept

LEMMA PrefsStep == PrefsIInv /\ PrefsNext /\ UNCHANGED screen => PrefsIInv'
<1> SUFFICES ASSUME PrefsIInv, PrefsNext, UNCHANGED screen PROVE PrefsIInv'
  OBVIOUS
<1> USE DEF PrefsIInv, PreferencesKept
<1>1. CASE Mount
  BY <1>1 DEF Mount, MountDriver, MountAdmin
<1>2. CASE ShowMerged
  BY <1>2 DEF ShowMerged
<1>3. CASE Leave
  BY <1>3 DEF Leave
<1>4. CASE Enable \/ Rendered
  BY <1>4 DEF Enable, Rendered
<1>5. CASE PermissionAnswered \/ Disable
  <2>1. UNCHANGED <<pref, kept, merged, stage, chosen, cut>>
    BY <1>5 DEF PermissionAnswered, Disable
  <2>2. (status = notify => status' = notify') \/ (screen = "admin" => status' = notify')
    <3>1. ASSUME NEW on, Flag(on) PROVE screen = "admin" => status' = notify'
      BY <3>1 DEF Flag
    <3>2. CASE Flag(TRUE) \/ Flag(FALSE)
      BY <3>1, <3>2
    <3>3. CASE UNCHANGED <<notify, status>>
      BY <3>3
    <3> QED
      BY <1>5, <3>2, <3>3 DEF PermissionAnswered, Disable
  <2> QED
    BY <2>1, <2>2
<1>6. ASSUME NEW p \in Prefs, SetPreference(p) PROVE PrefsIInv'
  BY <1>6 DEF SetPreference
<1> QED
  BY <1>1, <1>2, <1>3, <1>4, <1>5, <1>6 DEF PrefsNext

(* The passkeys.  One listing is under way at a time, or nothing is        *)
(* promised; what it was served, and what is listed, is what the server    *)
(* has, or a removal that took effect will have it listed again.           *)
Removed == \E k \in removing : k \notin passkeys

PasskeysIInv ==
  /\ passkeys \in SUBSET PasskeyIds /\ settled \in BOOLEAN
  /\ loading \in [Loads -> {Waiting, NoLoad} \cup SUBSET PasskeyIds]
  /\ settled =>
       /\ \A l, m \in Loads : loading[l] # NoLoad /\ loading[m] # NoLoad => l = m
       /\ \A l \in Loads : loading[l] \notin {Waiting, NoLoad} => loading[l] = passkeys \/ Removed
       /\ (\A l \in Loads : loading[l] = NoLoad) => listed = passkeys \/ Removed

LEMMA PasskeysStart == PasskeysInit => PasskeysIInv
BY SettingsAssumption DEF PasskeysInit, PasskeysIInv

(* A listing is asked for: by itself it will tell what the server has.     *)
LEMMA LoadKeeps ==
  ASSUME PasskeysIInv, NEW l \in Loads, LoadPasskeys(l), passkeys' \in SUBSET PasskeyIds
  PROVE  PasskeysIInv'
<1> USE DEF PasskeysIInv
<1>1. /\ loading[l] = NoLoad /\ loading' = [loading EXCEPT ![l] = Waiting]
      /\ settled' <=> \A m \in Loads : loading[m] = NoLoad
      /\ settled' \in BOOLEAN
  BY DEF LoadPasskeys
<1>2. /\ loading' \in [Loads -> {Waiting, NoLoad} \cup SUBSET PasskeyIds]
      /\ loading'[l] = Waiting /\ \A m \in Loads : m # l => loading'[m] = loading[m]
  BY <1>1
<1> QED
  BY <1>1, <1>2, SettingsAssumption

LEMMA PasskeysStep == PasskeysIInv /\ [PasskeysNext]_passkeyVars => PasskeysIInv'
<1> SUFFICES ASSUME PasskeysIInv, [PasskeysNext]_passkeyVars PROVE PasskeysIInv'
  OBVIOUS
<1> USE DEF PasskeysIInv
<1>1. CASE UNCHANGED passkeyVars
  BY <1>1 DEF passkeyVars, Removed
<1>2. ASSUME NEW l \in Loads, LoadAgain(l) PROVE PasskeysIInv'
  BY <1>2, LoadKeeps DEF LoadAgain
<1>3. ASSUME NEW l \in Loads, ServeList(l) PROVE PasskeysIInv'
  <2>1. /\ loading[l] = Waiting /\ UNCHANGED <<passkeys, listed, removing, settled>>
        /\ loading' = [loading EXCEPT ![l] = passkeys]
    BY <1>3 DEF ServeList
  <2>2. /\ loading'[l] = passkeys /\ passkeys # NoLoad /\ loading[l] # NoLoad
        /\ \A m \in Loads : m # l => loading'[m] = loading[m]
    BY <2>1, SettingsAssumption
  <2>3. loading' \in [Loads -> {Waiting, NoLoad} \cup SUBSET PasskeyIds]
    BY <2>1
  <2> QED
    BY <2>1, <2>2, <2>3 DEF Removed
<1>4. ASSUME NEW l \in Loads, TakeList(l) PROVE PasskeysIInv'
  <2>1. /\ loading[l] \notin {Waiting, NoLoad} /\ listed' = loading[l]
        /\ loading' = [loading EXCEPT ![l] = NoLoad] /\ UNCHANGED <<passkeys, removing, settled>>
    BY <1>4 DEF TakeList
  <2>2. /\ loading' \in [Loads -> {Waiting, NoLoad} \cup SUBSET PasskeyIds]
        /\ loading'[l] = NoLoad /\ \A m \in Loads : m # l => loading'[m] = loading[m]
    BY <2>1
  <2> QED
    BY <2>1, <2>2 DEF Removed
<1>5. ASSUME NEW l \in Loads, ListFails(l) PROVE PasskeysIInv'
  BY <1>5 DEF ListFails
<1>6. ASSUME NEW k \in PasskeyIds, RemovePasskey(k) PROVE PasskeysIInv'
  BY <1>6 DEF RemovePasskey, Removed
<1>7. ASSUME NEW k \in PasskeyIds, ServeRemoval(k) PROVE PasskeysIInv'
  <2>1. k \in removing /\ k \notin passkeys' /\ passkeys' \in SUBSET PasskeyIds /\ UNCHANGED <<listed, loading, removing, settled>>
    BY <1>7 DEF ServeRemoval
  <2>2. Removed'
    BY <2>1 DEF Removed
  <2> QED
    BY <2>1, <2>2
<1>8. ASSUME NEW k \in PasskeyIds, RemovalFails(k) PROVE PasskeysIInv'
  BY <1>8 DEF RemovalFails
<1>9. ASSUME NEW k \in PasskeyIds, NEW l \in Loads, TakeRemoval(k, l) PROVE PasskeysIInv'
  BY <1>9, LoadKeeps DEF TakeRemoval
<1> QED
  BY <1>1, <1>2, <1>3, <1>4, <1>5, <1>6, <1>7, <1>8, <1>9 DEF PasskeysNext

(* The account.  Without overlap one call at a time is under way, and what *)
(* it was answered is the row as it is.                                    *)
Names == Seq(Words)
Users == {NoAccount} \cup [name : Names, photo : Photos \cup {0}]
Forms == [first : Names, last : Names]
Stages == {"none", "storing", "sent", "served", "reloading", "reloaded"}
Calls == [at : Stages, body : Names \cup Photos \cup {0}, answer : Users]

AccountTypes ==
  /\ person \in Users /\ account \in Users /\ form \in Forms /\ sending \in [Sends -> Calls]
  /\ {typed, alone, dropped, late, crop, preview} \subseteq BOOLEAN
  /\ sending["save"].at = "sent" => sending["save"].body \in Names
  /\ \A op \in {"upload", "remove"} : sending[op].at \in {"storing", "sent"} => sending[op].body \in Photos \cup {0}

AnswerAt(op) == IF op = "save" THEN "reloaded" ELSE "served"

AloneOK ==
  alone => /\ \A o, p \in Sends : sending[o] # Unsent /\ sending[p] # Unsent => o = p
           /\ \A op \in Sends : sending[op].at = AnswerAt(op) => sending[op].answer = person
           /\ (\A op \in Sends : sending[op] = Unsent) => account = person

AccountIInv == AccountTypes /\ AloneOK /\ FormIsAccount /\ PreviewIsGone

LEMMA NameIsSequence == ASSUME NEW user \in Users PROVE NameOf(user) \in Names
BY EmptySeq DEF NameOf, Users, Names

(* The two fields of the settings page hold the whole name.                *)
LEMMA WholeName ==
  ASSUME NEW name \in Names
  PROVE  /\ SettingsNames(name) \in Forms
         /\ SettingsNames(name).first \o SettingsNames(name).last = name
<1>1. CASE name = <<>>
  <2>1. Word(name, 1) = <<>>
    BY <1>1 DEF Word
  <2>2. SettingsNames(name) = [first |-> <<>>, last |-> <<>>]
    BY <1>1, <2>1 DEF SettingsNames
  <2>3. <<>> \in Names /\ <<>> \o <<>> = <<>>
    BY EmptySeq, ConcatEmptySeq DEF Names
  <2> QED
    BY <1>1, <2>2, <2>3 DEF Forms
<1>2. CASE name # <<>>
  <2>1. Len(name) \in Nat /\ Len(name) >= 1 /\ DOMAIN name = 1 .. Len(name)
    BY <1>2 DEF Names
  <2>2. Word(name, 1) = <<Head(name)>>
    BY <2>1 DEF Word, Names
  <2>3. SettingsNames(name) = [first |-> <<Head(name)>>, last |-> Tail(name)]
    BY <1>2, <2>2 DEF SettingsNames
  <2>4. Head(name) \in Words /\ Tail(name) \in Names /\ <<Head(name)>> \in Names
    BY <1>2 DEF Names
  <2>5. <<Head(name)>> \o Tail(name) = name
    BY <1>2 DEF Names
  <2> QED
    BY <2>3, <2>4, <2>5 DEF Forms
<1> QED
  BY <1>1, <1>2

LEMMA FormsAreWords == ASSUME NEW user \in Users PROVE FormOf(user) \in Forms
<1>1. NameOf(user) \in Names
  BY NameIsSequence
<1>2. ASSUME NEW name \in Names, NEW i \in Nat PROVE Word(name, i) \in Names
  BY EmptySeq DEF Word, Names
<1>3. ProfileNames(NameOf(user)) \in Forms
  BY <1>1, <1>2 DEF ProfileNames, Forms
<1> QED
  BY <1>1, <1>3, WholeName DEF FormOf

LEMMA AccountStart == AccountInit => AccountIInv
<1> SUFFICES ASSUME AccountInit PROVE AccountIInv
  OBVIOUS
<1>1. person \in Users /\ account = person
  BY SettingsAssumption DEF AccountInit, Users, Names
<1>2. form = FormOf(person) /\ form \in Forms
  BY <1>1, FormsAreWords DEF AccountInit
<1>3. Unsent \in Calls /\ Unsent.at = "none"
  BY DEF Unsent, Calls, Stages, Users
<1>4. \A op \in Sends : sending[op] = Unsent
  BY DEF AccountInit
<1>5. AccountTypes
  BY <1>1, <1>2, <1>3, <1>4 DEF AccountInit, AccountTypes, Sends, PageCalls
<1>6. AloneOK
  BY <1>1, <1>3, <1>4 DEF AloneOK, AnswerAt
<1>7. FormIsAccount
  BY <1>1, <1>2, NameIsSequence, WholeName DEF AccountInit, FormIsAccount, FormOf
<1> QED
  BY <1>5, <1>6, <1>7 DEF AccountIInv, AccountInit, PreviewIsGone

(* What the page shows of its user and its form, when it is given a user.  *)
LEMMA GivenUser ==
  ASSUME AccountTypes, FormIsAccount, UNCHANGED screen, NEW user \in Users, SetUser(user)
  PROVE  account' = user /\ form' \in Forms /\ {typed', dropped'} \subseteq BOOLEAN /\ FormIsAccount'
<1>1. account' = user /\ form' \in Forms
  BY FormsAreWords DEF SetUser, AccountTypes
<1>2. typed' \in BOOLEAN /\ dropped' \in BOOLEAN
  BY DEF SetUser
<1>3. CASE Refills(user)
  <2>1. form' = FormOf(user)
    BY <1>3 DEF SetUser
  <2>2. screen = "admin" => form'.first \o form'.last = NameOf(user)
    BY <2>1, NameIsSequence, WholeName DEF FormOf
  <2>3. screen = "admin" => NameOf(user) # NameOf(account)
    BY <1>3 DEF Refills
  <2>4. screen = "admin" => ~dropped'
    BY <2>3, Zenon DEF SetUser, FormIsAccount
  <2> QED
    BY <1>1, <1>2, <2>2, <2>4 DEF FormIsAccount, NameOf
<1>4. CASE ~Refills(user)
  <2>1. form' = form /\ NameOf(user) = NameOf(account)
    BY <1>4 DEF SetUser, Refills
  <2>2. ~typed' => ~typed
    BY <1>4, Zenon DEF SetUser
  <2>3. screen = "admin" => ~dropped'
    BY <1>4, Zenon DEF SetUser, FormIsAccount
  <2> QED
    BY <1>1, <1>2, <2>1, <2>2, <2>3 DEF FormIsAccount, NameOf
<1> QED
  BY <1>1, <1>2, <1>3, <1>4

(* A step that leaves the calls and the row alone.                         *)
LEMMA QuietStep ==
  ASSUME AccountIInv, UNCHANGED <<screen, person, account, form, sending, typed, alone, dropped>>,
         {late', crop', preview'} \subseteq BOOLEAN, ~crop' /\ ~late' => ~preview'
  PROVE  AccountIInv'
BY DEF AccountIInv, AccountTypes, AloneOK, FormIsAccount, PreviewIsGone, NameOf

LEMMA PhotoKeeps ==
  ASSUME AccountIInv, UNCHANGED screen, ChoosePhoto \/ Draw \/ Drawn \/ CancelCrop
  PROVE  AccountIInv'
<1> USE DEF AccountIInv, AccountTypes, PreviewIsGone
<1>1. CASE ChoosePhoto
  BY <1>1, QuietStep DEF ChoosePhoto
<1>2. CASE Draw
  BY <1>2, QuietStep DEF Draw
<1>3. CASE Drawn
  <2>1. preview' \in BOOLEAN /\ late' = (preview' /\ ~crop) /\ UNCHANGED <<person, account, form, sending, crop, typed, alone, dropped>>
    BY <1>3 DEF Drawn
  <2>2. late' \in BOOLEAN /\ (~crop' /\ ~late' => ~preview')
    BY <2>1, Zenon
  <2> QED
    BY <2>1, <2>2, QuietStep
<1>4. CASE CancelCrop
  BY <1>4, QuietStep DEF CancelCrop, CloseCropper
<1> QED
  BY <1>1, <1>2, <1>3, <1>4

LEMMA TypingKeeps ==
  ASSUME AccountIInv, UNCHANGED screen, TypeName \/ ResetForm
  PROVE  AccountIInv'
<1> USE DEF AccountIInv
<1>1. UNCHANGED <<person, account, sending, crop, preview, drawing, alone, dropped, late>>
  BY DEF TypeName, ResetForm
<1>2. form' \in Forms /\ typed' \in BOOLEAN /\ (screen = "admin" /\ ~typed' => form'.first \o form'.last = NameOf(account))
  <2>1. CASE TypeName
    <3>1. PICK name \in FullNames : form' = SettingsNames(name)
      BY <2>1 DEF TypeName
    <3>2. name \in Names
      BY SettingsAssumption DEF Names
    <3>3. typed' = TRUE
      BY <2>1 DEF TypeName
    <3> QED
      BY <3>1, <3>2, <3>3, WholeName
  <2>2. CASE ResetForm
    <3>1. form' = FormOf(account) /\ typed' = FALSE /\ account \in Users
      BY <2>2 DEF ResetForm, AccountTypes
    <3>2. screen = "admin" => FormOf(account) = SettingsNames(NameOf(account))
      BY DEF FormOf
    <3> QED
      BY <3>1, <3>2, FormsAreWords, NameIsSequence, WholeName
  <2> QED
    BY <2>1, <2>2
<1>3. AccountTypes' /\ AloneOK' /\ PreviewIsGone'
  BY <1>1, <1>2 DEF AccountTypes, AloneOK, PreviewIsGone
<1>4. FormIsAccount'
  BY <1>1, <1>2 DEF FormIsAccount, NameOf
<1> QED
  BY <1>3, <1>4

(* A call is begun.                                                        *)
LEMMA StartKeeps ==
  ASSUME AccountIInv, NEW op \in Sends, NEW at \in {"storing", "sent"}, NEW body \in Names \cup Photos \cup {0},
         Start(op, at, body), UNCHANGED <<screen, person, account, form, typed, dropped>>,
         op = "save" => body \in Names, op \in {"upload", "remove"} => body \in Photos \cup {0},
         {late', crop', preview'} \subseteq BOOLEAN, ~crop' /\ ~late' => ~preview'
  PROVE  AccountIInv'
<1> USE DEF AccountIInv
<1>1. PICK q : q = [Unsent EXCEPT !.at = at, !.body = body]
  OBVIOUS
<1>2. q.at = at /\ q.body = body /\ q \in Calls
  BY <1>1 DEF Unsent, Calls, Stages, Users
<1>3. sending[op] = Unsent /\ sending' = [sending EXCEPT ![op] = q] /\ alone' = Idles(Sends)
  BY <1>1 DEF Start
<1>4. /\ sending' \in [Sends -> Calls] /\ sending'[op] = q
      /\ \A o \in Sends : o # op => sending'[o] = sending[o]
  BY <1>2, <1>3 DEF AccountTypes
<1>5. alone' \in BOOLEAN /\ (alone' => \A o \in Sends : sending[o] = Unsent)
  BY <1>3, Zenon DEF Idles
<1>6. AccountTypes'
  BY <1>2, <1>4, <1>5 DEF AccountTypes, Sends, PageCalls
<1>7. AloneOK'
  <2>1. q # Unsent /\ q.at # AnswerAt(op)
    BY <1>2 DEF Unsent, AnswerAt
  <2>2. \A o \in Sends : Unsent.at # AnswerAt(o)
    BY DEF Unsent, AnswerAt
  <2> QED
    BY <1>4, <1>5, <2>1, <2>2 DEF AloneOK
<1> QED
  BY <1>6, <1>7 DEF FormIsAccount, PreviewIsGone, NameOf

(* A call goes on: if it was alone, its answer is the row it left.         *)
LEMMA CallGoesOn ==
  ASSUME AccountIInv, NEW op \in Sends, NEW q \in Calls, sending' = [sending EXCEPT ![op] = q],
         sending[op] # Unsent, q # Unsent, person' \in Users, q.at = AnswerAt(op) => q.answer = person',
         op = "save" /\ q.at = "sent" => q.body \in Names,
         op \in {"upload", "remove"} /\ q.at \in {"storing", "sent"} => q.body \in Photos \cup {0},
         UNCHANGED <<screen, account, form, crop, preview, typed, alone, dropped, late>>
  PROVE  AccountIInv'
<1> USE DEF AccountIInv
<1>1. /\ sending' \in [Sends -> Calls] /\ sending'[op] = q
      /\ \A o \in Sends : o # op => sending'[o] = sending[o]
  BY DEF AccountTypes
<1>2. AccountTypes'
  BY <1>1 DEF AccountTypes, Sends, PageCalls
<1>3. AloneOK'
  <2>1. \A o \in Sends : Unsent.at # AnswerAt(o)
    BY DEF Unsent, AnswerAt
  <2> QED
    BY <1>1, <2>1 DEF AloneOK
<1> QED
  BY <1>2, <1>3 DEF FormIsAccount, PreviewIsGone, NameOf

LEMMA ServedKeeps == ASSUME AccountIInv, UNCHANGED screen, NEW op \in Sends, Serve(op) PROVE AccountIInv'
<1> USE DEF AccountIInv
<1>1. sending[op] \in Calls /\ sending[op].at = "sent" /\ person \in Users \ {NoAccount}
  BY DEF Serve, AccountTypes
<1>2. person' \in Users
  <2>1. CASE op = "save"
    <3>1. person' = [person EXCEPT !.name = sending[op].body] /\ sending[op].body \in Names
      BY <1>1, <2>1, SettingsAssumption DEF Serve, AccountTypes, PageCalls
    <3> QED
      BY <1>1, <3>1 DEF Users
  <2>2. CASE op \in {"upload", "remove"}
    <3>1. person' = [person EXCEPT !.photo = sending[op].body] /\ sending[op].body \in Photos \cup {0}
      BY <1>1, <2>2, SettingsAssumption DEF Serve, AccountTypes, PageCalls
    <3> QED
      BY <1>1, <3>1 DEF Users
  <2>3. CASE op = "delete"
    BY <2>3, SettingsAssumption DEF Serve, Users, PageCalls
  <2>4. CASE op \in Reads
    <3>1. op \notin {"save", "upload", "remove", "delete"}
      BY <2>4, SettingsAssumption DEF PageCalls
    <3>2. person' = person
      BY <2>4, <3>1 DEF Serve
    <3> QED
      BY <1>1, <3>2
  <2> QED
    BY <2>1, <2>2, <2>3, <2>4 DEF Sends, PageCalls
<1>3. PICK q : q = [sending[op] EXCEPT !.at = "served", !.answer = person']
  OBVIOUS
<1>4. q.at = "served" /\ q.answer = person' /\ q \in Calls
  BY <1>1, <1>2, <1>3 DEF Calls, Stages
<1>5. sending' = [sending EXCEPT ![op] = q]
  <2>1. sending' = [sending EXCEPT ![op].at = "served", ![op].answer = person']
    BY DEF Serve
  <2>2. sending \in [Sends -> Calls]
    BY DEF AccountTypes
  <2>3. PICK row : row = person'
    OBVIOUS
  <2>4. [sending EXCEPT ![op].at = "served", ![op].answer = row] = [sending EXCEPT ![op] = [@ EXCEPT !.at = "served", !.answer = row]]
    BY <2>2
  <2> QED
    BY <1>3, <2>1, <2>3, <2>4
<1>6. sending[op] # Unsent /\ q # Unsent
  BY <1>1, <1>4 DEF Unsent
<1>7. UNCHANGED <<account, form, crop, preview, drawing, typed, alone, dropped, late>>
  BY DEF Serve
<1> QED
  BY <1>2, <1>4, <1>5, <1>6, <1>7, CallGoesOn

LEMMA SaveGoesOn ==
  ASSUME AccountIInv, UNCHANGED screen, StoreImage \/ RefreshProfile \/ ServeProfile
  PROVE  AccountIInv'
<1> USE DEF AccountIInv
<1>1. UNCHANGED <<person, account, form, crop, preview, typed, alone, dropped, late>> /\ person \in Users
  BY DEF StoreImage, RefreshProfile, ServeProfile, AccountTypes
<1>2. CASE StoreImage
  <2>1. PICK q : q = [sending["upload"] EXCEPT !.at = "sent"]
    OBVIOUS
  <2>2. "upload" \in Sends /\ sending["upload"] \in Calls /\ sending["upload"].at = "storing"
    BY <1>2 DEF StoreImage, AccountTypes, Sends, PageCalls
  <2>3. q \in Calls /\ q.at = "sent" /\ q.body = sending["upload"].body
    BY <2>1, <2>2 DEF Calls, Stages
  <2>4. sending["upload"] # Unsent /\ q # Unsent /\ q.at # AnswerAt("upload")
    BY <2>2, <2>3 DEF Unsent, AnswerAt
  <2>5. sending' = [sending EXCEPT !["upload"] = q]
    BY <1>2, <2>1 DEF StoreImage
  <2>6. q.body \in Photos \cup {0}
    BY <2>2, <2>3 DEF AccountTypes
  <2> QED
    BY <1>1, <2>2, <2>3, <2>4, <2>5, <2>6, CallGoesOn
<1>3. CASE RefreshProfile
  <2>1. PICK q : q = [sending["save"] EXCEPT !.at = "reloading"]
    OBVIOUS
  <2>2. "save" \in Sends /\ sending["save"] \in Calls /\ sending["save"].at = "served"
    BY <1>3 DEF RefreshProfile, AccountTypes, Sends, PageCalls
  <2>3. q \in Calls /\ q.at = "reloading"
    BY <2>1, <2>2 DEF Calls, Stages
  <2>4. sending["save"] # Unsent /\ q # Unsent /\ q.at # AnswerAt("save")
    BY <2>2, <2>3 DEF Unsent, AnswerAt
  <2>5. sending' = [sending EXCEPT !["save"] = q]
    BY <1>3, <2>1 DEF RefreshProfile
  <2> QED
    BY <1>1, <2>2, <2>3, <2>4, <2>5, CallGoesOn
<1>4. CASE ServeProfile
  <2>1. PICK q : q = [sending["save"] EXCEPT !.at = "reloaded", !.answer = person]
    OBVIOUS
  <2>2. "save" \in Sends /\ sending["save"] \in Calls /\ sending["save"].at = "reloading"
    BY <1>4 DEF ServeProfile, AccountTypes, Sends, PageCalls
  <2>3. q \in Calls /\ q.at = "reloaded" /\ q.answer = person'
    BY <1>1, <2>1, <2>2 DEF Calls, Stages
  <2>4. sending["save"] # Unsent /\ q # Unsent
    BY <2>2, <2>3 DEF Unsent
  <2>5. sending' = [sending EXCEPT !["save"] = q]
    BY <1>4, <2>1, <2>2 DEF ServeProfile, AccountTypes
  <2> QED
    BY <1>1, <2>2, <2>3, <2>4, <2>5, CallGoesOn
<1> QED
  BY <1>2, <1>3, <1>4

LEMMA EndingKeeps ==
  ASSUME AccountIInv, UNCHANGED screen, NEW op \in Sends, Take(op) \/ Fails(op)
  PROVE  AccountIInv'
<1> USE DEF AccountIInv
<1>1. Ended(op) /\ UNCHANGED <<person, crop>>
  BY DEF Take, Fails
<1>2. Unsent \in Calls /\ Unsent.at = "none"
  BY DEF Unsent, Calls, Stages, Users
<1>3. /\ sending' \in [Sends -> Calls] /\ sending'[op] = Unsent
      /\ \A o \in Sends : o # op => sending'[o] = sending[o]
  BY <1>1, <1>2 DEF Ended, AccountTypes
<1>4. preview' \in BOOLEAN /\ late' \in BOOLEAN /\ PreviewIsGone'
  BY <1>1 DEF Ended, AccountTypes, PreviewIsGone
<1>5. CASE Take(op)
  <2>1. sending[op].at = AnswerAt(op) /\ SetUser(sending[op].answer) /\ UNCHANGED alone /\ sending[op].answer \in Users
    BY <1>5 DEF Take, AnswerAt, AccountTypes, Calls
  <2>2. account' = sending[op].answer /\ form' \in Forms /\ {typed', dropped'} \subseteq BOOLEAN /\ FormIsAccount'
    BY <2>1, GivenUser
  <2>3. AccountTypes'
    BY <1>1, <1>2, <1>3, <1>4, <2>1, <2>2 DEF AccountTypes, Sends, PageCalls
  <2>4. AloneOK'
    <3>1. alone => sending[op].answer = person
      BY <2>1 DEF AloneOK
    <3>2. sending[op] # Unsent
      BY <1>2, <2>1 DEF AnswerAt
    <3>3. \A o \in Sends : Unsent.at # AnswerAt(o)
      BY <1>2 DEF AnswerAt
    <3> QED
      BY <1>1, <1>3, <2>1, <2>2, <3>1, <3>2, <3>3 DEF AloneOK
  <2> QED
    BY <1>4, <2>2, <2>3, <2>4
<1>6. CASE Fails(op)
  <2>1. alone' = FALSE /\ UNCHANGED <<account, form, typed, dropped>>
    BY <1>6 DEF Fails
  <2>2. AccountTypes'
    BY <1>1, <1>2, <1>3, <1>4, <2>1 DEF AccountTypes, Sends, PageCalls
  <2>3. AloneOK' /\ FormIsAccount'
    BY <2>1 DEF AloneOK, FormIsAccount, NameOf
  <2> QED
    BY <1>4, <2>2, <2>3
<1> QED
  BY <1>5, <1>6

LEMMA BegunKeeps ==
  ASSUME AccountIInv, UNCHANGED screen,
         SaveProfile \/ RemovePhoto \/ DeleteAccount \/ SaveCrop \/ \E r \in Reads : AskForUser(r)
  PROVE  AccountIInv'
<1> USE DEF AccountIInv
<1>1. {late, crop, preview} \subseteq BOOLEAN /\ (~crop /\ ~late => ~preview)
  BY DEF AccountTypes, PreviewIsGone
<1>2. CASE SaveProfile
  <2>1. form.first \o form.last \in Names
    BY DEF AccountTypes, Forms, Names
  <2> QED
    BY <1>1, <1>2, <2>1, StartKeeps DEF SaveProfile, Sends, PageCalls
<1>3. CASE RemovePhoto
  BY <1>1, <1>3, StartKeeps DEF RemovePhoto, Sends, PageCalls
<1>4. CASE DeleteAccount
  BY <1>1, <1>4, StartKeeps DEF DeleteAccount, Sends, PageCalls
<1>5. CASE SaveCrop
  <2>1. PICK photo \in Photos : Start("upload", "storing", photo)
    BY <1>5 DEF SaveCrop
  <2>2. crop' = FALSE /\ preview' = FALSE /\ late' = FALSE /\ UNCHANGED <<person, account, form, typed, dropped>>
    BY <1>5 DEF SaveCrop, CloseCropper
  <2>3. {late', crop', preview'} \subseteq BOOLEAN /\ (~crop' /\ ~late' => ~preview')
    BY <2>2
  <2>4. "upload" \in Sends /\ "storing" \in {"storing", "sent"} /\ "upload" # "save"
    BY DEF Sends, PageCalls
  <2> QED
    BY <2>1, <2>2, <2>3, <2>4, StartKeeps
<1>6. ASSUME NEW r \in Reads, AskForUser(r) PROVE AccountIInv'
  <2>1. r \in Sends /\ r \notin {"save", "upload", "remove"}
    BY SettingsAssumption DEF Sends, PageCalls
  <2> QED
    BY <1>1, <1>6, <2>1, StartKeeps DEF AskForUser
<1> QED
  BY <1>2, <1>3, <1>4, <1>5, <1>6

LEMMA AccountStep == AccountIInv /\ AccountPageNext /\ UNCHANGED screen => AccountIInv'
<1> SUFFICES ASSUME AccountIInv, AccountPageNext, UNCHANGED screen PROVE AccountIInv'
  OBVIOUS
<1>1. CASE Edits
  BY <1>1, TypingKeeps, BegunKeeps DEF Edits
<1> QED
  BY <1>1, PhotoKeeps, TypingKeeps, BegunKeeps, ServedKeeps, SaveGoesOn, EndingKeeps DEF AccountPageNext

(* The three parts of a page share its screen and nothing else.            *)
SettingsIInv == AccountIInv /\ PasskeysIInv /\ PrefsIInv

LEMMA SettingsStep ==
  SettingsIInv /\ [SettingsNext]_<<screen, accountVars, passkeyVars, prefVars>> => SettingsIInv'
<1> SUFFICES ASSUME SettingsIInv, [SettingsNext]_<<screen, accountVars, passkeyVars, prefVars>> PROVE SettingsIInv'
  OBVIOUS
<1> USE DEF SettingsIInv
<1>1. UNCHANGED screen
  BY DEF SettingsNext
<1>2. AccountIInv'
  <2>1. CASE UNCHANGED accountVars
    BY <1>1, <2>1, QuietStep DEF accountVars, AccountIInv, AccountTypes, PreviewIsGone
  <2> QED
    BY <1>1, <2>1, AccountStep DEF SettingsNext
<1>3. PasskeysIInv'
  BY PasskeysStep DEF SettingsNext
<1>4. PrefsIInv'
  <2>1. CASE UNCHANGED prefVars
    BY <1>1, <2>1 DEF prefVars, PrefsIInv, PreferencesKept
  <2> QED
    BY <1>1, <2>1, PrefsStep DEF SettingsNext
<1> QED
  BY <1>2, <1>3, <1>4

(* Whatever users other parts of the client fetch meanwhile, the page      *)
(* shows the row after calls that met no other, what was typed             *)
(* goes only with a new name, the preview goes with the dialogue, the      *)
(* passkeys listed are those of the account, and preferences are kept.     *)
THEOREM SettingsHold == SettingsSpec => []SettingsInv
<1>1. SettingsInit => SettingsIInv
  BY AccountStart, PasskeysStart, PrefsStart DEF SettingsInit, SettingsIInv
<1>2. SettingsIInv => SettingsInv
  <2> SUFFICES ASSUME SettingsIInv PROVE SettingsInv
    OBVIOUS
  <2>1. AccountIsCurrent
    BY DEF SettingsIInv, AccountIInv, AloneOK, AccountIsCurrent, Idles
  <2>2. PasskeysListed
    BY DEF SettingsIInv, PasskeysIInv, PasskeysListed, Removed
  <2> QED
    BY <2>1, <2>2 DEF SettingsIInv, AccountIInv, PrefsIInv, SettingsInv
<1> QED
  BY <1>1, <1>2, SettingsStep, PTL DEF SettingsSpec

-----------------------------------------------------------------------------
(***************************************************************************)
(* ChatAnswers: the tools and what they count, which no step changes.      *)
(***************************************************************************)

(* The signals and the role decide which tools run.                        *)
LEMMA ToolsAreAccepted ==
  ASSUME NEW q, NEW role \in Requesters, NEW tool \in Tools(q, role)
  PROVE  role \in MayRun(tool)
<1>1. CASE tool \in KnowledgeTools(q)
  <2>1. tool \in {"getWasteTypesAndRates", "getRewardRules"}
    BY <1>1 DEF KnowledgeTools
  <2> QED
    BY <2>1 DEF MayRun
<1>2. CASE tool \in DataTools(q, role)
  <2>1. tool \in {"getCurrentUserProfile", "getUserBookings", "getUserRewards",
                  "getUserNotifications", "getDriverAssignedBookings", "getAdminBookingSummary"}
    BY <1>2 DEF DataTools
  <2>2. CASE tool \in {"getCurrentUserProfile", "getUserNotifications"}
    BY <1>2, <2>2 DEF DataTools, MayRun
  <2>3. CASE tool \in {"getUserBookings", "getUserRewards"}
    BY <1>2, <2>3 DEF DataTools, MayRun
  <2>4. CASE tool = "getDriverAssignedBookings"
    BY <1>2, <2>4 DEF DataTools, MayRun
  <2>5. CASE tool = "getAdminBookingSummary"
    <3>1. isAdminRole(role)
      BY <1>2, <2>5 DEF DataTools
    <3> QED
      BY <2>5, <3>1 DEF MayRun, isAdminRole
  <2> QED
    BY <2>1, <2>2, <2>3, <2>4, <2>5
<1> QED
  BY <1>1, <1>2 DEF Tools

(* So does the role with the routes: each is one the role may open, but    *)
(* for those that go with a topic.                                         *)
LEMMA RoutesAreAllowed ==
  ASSUME NEW q, NEW role \in Requesters, role # "GUEST", NEW found \in SUBSET Tools(q, role),
         NEW route \in Suggested(q, role, found)
  PROVE  role \in AllowedRoles(route) \/ route \in Topical(q)
<1>1. ASSUME NEW tool \in Tools(q, role), route \in ToolRoute(tool, q, role)
      PROVE  role \in AllowedRoles(route) \/ route \in Topical(q)
  <2>1. role \in MayRun(tool)
    BY ToolsAreAccepted
  <2>2. tool \in {"getCurrentUserProfile", "getUserBookings", "getUserRewards",
                  "getUserNotifications", "getDriverAssignedBookings", "getAdminBookingSummary",
                  "getWasteTypesAndRates", "getRewardRules"}
    BY DEF Tools, DataTools, KnowledgeTools
  <2>3. CASE tool = "getUserBookings"
    BY <1>1, <2>1, <2>3 DEF ToolRoute, MayRun, AllowedRoles
  <2>4. CASE tool = "getUserRewards"
    BY <1>1, <2>1, <2>4 DEF ToolRoute, MayRun, AllowedRoles
  <2>5. CASE tool = "getUserNotifications"
    BY <1>1, <2>5 DEF ToolRoute, AllowedRoles, isAdminRole, Requesters
  <2>6. CASE tool = "getDriverAssignedBookings"
    BY <1>1, <2>1, <2>6 DEF ToolRoute, MayRun, AllowedRoles
  <2>7. CASE tool = "getAdminBookingSummary"
    BY <1>1, <2>1, <2>7 DEF ToolRoute, MayRun, AllowedRoles
  <2>8. CASE tool = "getCurrentUserProfile"
    BY <1>1, <2>8 DEF ToolRoute
  <2>9. CASE tool = "getWasteTypesAndRates"
    <3>1. route = "/admin/waste"
      BY <1>1, <2>9 DEF ToolRoute
    <3>2. "price" \in q
      BY <2>9 DEF Tools, DataTools, KnowledgeTools
    <3> QED
      BY <3>1, <3>2 DEF Topical
  <2>10. CASE tool = "getRewardRules"
    <3>1. route = "/users/rewards"
      BY <1>1, <2>10 DEF ToolRoute
    <3>2. "reward rules" \in q
      BY <2>10 DEF Tools, DataTools, KnowledgeTools
    <3> QED
      BY <3>1, <3>2 DEF Topical
  <2> QED
    BY <2>2, <2>3, <2>4, <2>5, <2>6, <2>7, <2>8, <2>9, <2>10
<1>2. ASSUME route \in RefusalRoute(q, role) PROVE role \in AllowedRoles(route)
  <2>1. \/ role = "CUSTOMER" /\ route = "/users/bookings"
        \/ role = "DRIVER" /\ route = "/driver/bookings"
    BY <1>2 DEF RefusalRoute
  <2> QED
    BY <2>1 DEF AllowedRoles
<1>3. ASSUME route \in WordRoutes(q, role)
      PROVE  role \in AllowedRoles(route) \/ route \in Topical(q)
  <2>1. \/ role = "CUSTOMER" /\ route \in {"/users/bookings", "/users/rewards"}
        \/ route \in PendingRoute(role)
        \/ route \in ToolRoute("getUserNotifications", q, role)
        \/ "waste" \in q /\ isAdminRole(role) /\ route = "/admin/waste"
        \/ "waste" \in q /\ route = "/users/bookings/new"
    BY <1>3 DEF WordRoutes
  <2>2. CASE role = "CUSTOMER" /\ route \in {"/users/bookings", "/users/rewards"}
    BY <2>2 DEF AllowedRoles
  <2>3. CASE route \in PendingRoute(role)
    BY <2>3 DEF PendingRoute, AllowedRoles, isAdminRole
  <2>4. CASE route \in ToolRoute("getUserNotifications", q, role)
    BY <2>4 DEF ToolRoute, AllowedRoles, isAdminRole, Requesters
  <2>5. CASE "waste" \in q /\ isAdminRole(role) /\ route = "/admin/waste"
    BY <2>5 DEF AllowedRoles, isAdminRole
  <2>6. CASE "waste" \in q /\ route = "/users/bookings/new"
    BY <2>6 DEF Topical
  <2> QED
    BY <2>1, <2>2, <2>3, <2>4, <2>5, <2>6
<1>4. ASSUME route \in DefaultRoutes(role) PROVE role \in AllowedRoles(route)
  BY <1>4 DEF DefaultRoutes, AllowedRoles, Requesters
<1>5. \/ \E tool \in found : route \in ToolRoute(tool, q, role)
      \/ route \in RefusalRoute(q, role) \/ route \in WordRoutes(q, role)
      \/ route \in DefaultRoutes(role)
  <2> DEFINE shown == UNION {ToolRoute(tool, q, role) : tool \in found}
             refused == IF Mode(q) = "knowledge" THEN {} ELSE RefusalRoute(q, role)
             routes == shown \cup refused \cup WordRoutes(q, role)
  <2>1. route \in shown => \E tool \in found : route \in ToolRoute(tool, q, role)
    OBVIOUS
  <2>2. route \in refused => route \in RefusalRoute(q, role)
    OBVIOUS
  <2>3. Suggested(q, role, found) = IF routes = {} THEN DefaultRoutes(role) ELSE routes
    BY DEF Suggested
  <2>4. route \in routes => route \in shown \/ route \in refused \/ route \in WordRoutes(q, role)
    OBVIOUS
  <2> HIDE DEF shown, refused, routes
  <2> QED
    BY <2>1, <2>2, <2>3, <2>4
<1> QED
  BY <1>1, <1>2, <1>3, <1>4, <1>5

(* The bookings of disjoint kinds add up.                                  *)
LEMMA AddsUp ==
  ASSUME NEW S \in SUBSET Pickups, NEW T \in SUBSET Pickups, S \cap T = {}
  PROVE  /\ Cardinality(S \cup T) = Cardinality(S) + Cardinality(T)
         /\ Cardinality(S) \in Nat /\ Cardinality(T) \in Nat
<1>1. IsFiniteSet(S) /\ IsFiniteSet(T)
  BY FS_Subset, ChatAssumption
<1>2. Cardinality(S) \in Nat /\ Cardinality(T) \in Nat /\ Cardinality(S \cap T) = 0
  BY <1>1, FS_CardinalityType, FS_EmptySet
<1>3. Cardinality(S \cup T) = Cardinality(S) + Cardinality(T) - Cardinality(S \cap T)
  BY <1>1, FS_Union
<1> QED
  BY <1>2, <1>3

Waiting3 == {"CREATED", "SCHEDULED", "ASSIGNED", "IN_PROGRESS"}
Of(statuses) == {b \in Pickups : table[b].status \in statuses}

(* The numbers agree whatever the bookings.                                *)
LEMMA CountsDoAgree == ToolsInit => CountsAgree
<1> SUFFICES ASSUME ToolsInit PROVE CountsAgree
  OBVIOUS
<1>1. \A b \in Pickups : /\ table[b].status \in AllStatuses /\ table[b].customer \in {"c", "d"}
                         /\ table[b].driver \in {"none", "v"}
  BY DEF ToolsInit, Tables
<1>2. /\ countsByStatus("CREATED") = Cardinality(Of({"CREATED", "SCHEDULED"}))
      /\ countsByStatus("ASSIGNED") = Cardinality(Of({"ASSIGNED"}))
      /\ countsByStatus("IN_PROGRESS") = Cardinality(Of({"IN_PROGRESS"}))
  <2>1. ASSUME NEW b \in Pickups
        PROVE  /\ NormalizeBookingStatus(table[b].status) = "CREATED"
                    <=> table[b].status \in {"CREATED", "SCHEDULED"}
               /\ NormalizeBookingStatus(table[b].status) = "ASSIGNED"
                    <=> table[b].status \in {"ASSIGNED"}
               /\ NormalizeBookingStatus(table[b].status) = "IN_PROGRESS"
                    <=> table[b].status \in {"IN_PROGRESS"}
    BY <1>1 DEF NormalizeBookingStatus
  <2>2. {b \in Pickups : NormalizeBookingStatus(table[b].status) = "CREATED"}
          = Of({"CREATED", "SCHEDULED"})
    BY <2>1 DEF Of
  <2>3. {b \in Pickups : NormalizeBookingStatus(table[b].status) = "ASSIGNED"} = Of({"ASSIGNED"})
    BY <2>1 DEF Of
  <2>4. {b \in Pickups : NormalizeBookingStatus(table[b].status) = "IN_PROGRESS"}
          = Of({"IN_PROGRESS"})
    BY <2>1 DEF Of
  <2> QED
    BY <2>2, <2>3, <2>4 DEF countsByStatus
<1>3. /\ Of({"ASSIGNED", "IN_PROGRESS"}) = Of({"ASSIGNED"}) \cup Of({"IN_PROGRESS"})
      /\ Of({"ASSIGNED"}) \cap Of({"IN_PROGRESS"}) = {}
      /\ Of(Waiting3) = Of({"CREATED", "SCHEDULED"}) \cup Of({"ASSIGNED", "IN_PROGRESS"})
      /\ Of({"CREATED", "SCHEDULED"}) \cap Of({"ASSIGNED", "IN_PROGRESS"}) = {}
  BY DEF Of, Waiting3
<1>4. \A S : Of(S) \in SUBSET Pickups
  BY DEF Of
<1>5. /\ Cardinality(Of({"ASSIGNED", "IN_PROGRESS"}))
           = countsByStatus("ASSIGNED") + countsByStatus("IN_PROGRESS")
      /\ countsByStatus("ASSIGNED") \in Nat /\ countsByStatus("IN_PROGRESS") \in Nat
  BY <1>2, <1>3, <1>4, AddsUp
<1>6. /\ Cardinality(Of(Waiting3))
           = countsByStatus("CREATED") + Cardinality(Of({"ASSIGNED", "IN_PROGRESS"}))
      /\ countsByStatus("CREATED") \in Nat
  BY <1>2, <1>3, <1>4, AddsUp
<1>7. pendingPickups = Cardinality(Of(Waiting3))
  BY <1>5, <1>6 DEF pendingPickups
<1>8. pendingPickups = pendingCount("c") + pendingCount("d")
  <2> DEFINE by(c) == {b \in Pickups : table[b].customer = c
                                       /\ table[b].status \in CUSTOMER_PENDING_STATUSES}
  <2>1. by("c") \in SUBSET Pickups /\ by("d") \in SUBSET Pickups /\ by("c") \cap by("d") = {}
    OBVIOUS
  <2>2. by("c") \cup by("d") = Of(Waiting3)
    BY <1>1 DEF Of, Waiting3, CUSTOMER_PENDING_STATUSES
  <2>3. Cardinality(by("c") \cup by("d")) = Cardinality(by("c")) + Cardinality(by("d"))
    BY <2>1, AddsUp
  <2> QED
    BY <1>7, <2>2, <2>3 DEF pendingCount
<1>9. unassignedBookings <= pendingPickups
  <2> DEFINE free == {b \in Pickups : table[b].driver = "none"
                                      /\ table[b].status \in {"CREATED", "SCHEDULED"}}
  <2>1. free \subseteq Of(Waiting3) /\ IsFiniteSet(Of(Waiting3))
    BY <1>4, FS_Subset, ChatAssumption DEF Of, Waiting3
  <2>2. Cardinality(free) <= Cardinality(Of(Waiting3))
    BY <2>1, FS_Subset
  <2> QED
    BY <1>7, <2>2 DEF unassignedBookings
<1>10. ASSUME Cardinality({b \in Pickups : table[b].driver = "v"}) <= DriverTake,
              \A b \in Pickups : table[b].status \in DRIVER_ACTIVE_STATUSES
                                   => table[b].driver = "v"
       PROVE  activeCount("v") + countsByStatus("CREATED") = pendingPickups
  <2> DEFINE theirs == {b \in Pickups : table[b].driver = "v"}
  <2>1. IsFiniteSet(theirs) /\ Cardinality(theirs) \in Nat
    BY FS_Subset, FS_CardinalityType, ChatAssumption
  <2>2. ASSUME NEW b \in theirs
        PROVE  b \in Taken("v")
    <3> DEFINE before == {c \in Pickups : c < b /\ table[c].driver = "v"}
    <3>1. b \notin before
      BY ChatAssumption
    <3>2. before \subseteq theirs /\ before # theirs
      BY <3>1
    <3>3. IsFiniteSet(before) /\ Cardinality(before) \in Nat
      BY <2>1, <3>2, FS_Subset, FS_CardinalityType
    <3>4. Cardinality(before) < Cardinality(theirs)
      <4>1. Cardinality(before) <= Cardinality(theirs) /\ Cardinality(before) # Cardinality(theirs)
        BY <2>1, <3>2, FS_Subset
      <4> QED
        BY <2>1, <3>3, <4>1
    <3>5. Cardinality(before) < DriverTake
      BY <1>10, <2>1, <3>3, <3>4, ChatAssumption
    <3> QED
      BY <3>5 DEF Taken
  <2>3. ASSUME NEW b \in Pickups
        PROVE  b \in Taken("v") /\ NormalizeBookingStatus(table[b].status) \in DRIVER_ACTIVE_STATUSES
                 <=> table[b].status \in {"ASSIGNED", "IN_PROGRESS"}
    <3>1. NormalizeBookingStatus(table[b].status) \in DRIVER_ACTIVE_STATUSES
            <=> table[b].status \in {"ASSIGNED", "IN_PROGRESS"}
      BY <1>1 DEF NormalizeBookingStatus, DRIVER_ACTIVE_STATUSES
    <3>2. table[b].status \in {"ASSIGNED", "IN_PROGRESS"} => b \in theirs
      BY <1>10 DEF DRIVER_ACTIVE_STATUSES
    <3> QED
      BY <2>2, <3>1, <3>2
  <2>4. {b \in Taken("v") : NormalizeBookingStatus(table[b].status) \in DRIVER_ACTIVE_STATUSES}
          = Of({"ASSIGNED", "IN_PROGRESS"})
    BY <2>3 DEF Of, Taken
  <2>5. activeCount("v") = Cardinality(Of({"ASSIGNED", "IN_PROGRESS"}))
    BY <2>4 DEF activeCount
  <2> QED
    BY <1>5, <1>6, <1>7, <2>5
<1> QED
  BY <1>8, <1>9, <1>10 DEF CountsAgree

(* The person asking is one of the requesters.                             *)
LEMMA ToolsDoAccept == ToolsInit => ToolsAccept
<1> SUFFICES ASSUME ToolsInit PROVE ToolsAccept
  OBVIOUS
<1>1. asked.role \in Requesters
  BY DEF ToolsInit, Askings
<1> QED
  BY <1>1, ToolsAreAccepted, RoutesAreAllowed DEF ToolsAccept

-----------------------------------------------------------------------------
(***************************************************************************)
(* ChatAnswers: histories, languages and models.  The box pairs questions  *)
(* and answers because it waits for one answer at a time, and what a turn  *)
(* took from the box or from the session is paired and ends with an        *)
(* answer; the language a turn answers in is the one last shown.           *)
(***************************************************************************)
Texts == Questions \cup {"error"}
Messages == [by: {"user", "assistant"}, text: Texts]
PCsOfTurns == {"free", "posted", "discovering", "retrying", "refused", "failed"}

Answered(messages) == messages = <<>> \/ messages[Len(messages)].by = "assistant"
Kept(messages) == messages \in Seq(Messages) /\ Paired(messages) /\ Answered(messages)
Telling(messages, i) == messages[i].by = "user" /\ messages[i].text # "short"
Latest(messages, i) ==
  /\ i \in DOMAIN messages /\ Telling(messages, i)
  /\ \A j \in DOMAIN messages : Telling(messages, j) => j <= i
SpokeIn(messages, language) == \A i \in DOMAIN messages : Latest(messages, i) => messages[i].text = language

TurnRecords ==
  [pc: PCsOfTurns, history: Seq(Messages), question: Questions, language: Texts,
   model: Nat \cup {NoModel}, disturbed: BOOLEAN]

BoxOK ==
  /\ box \in Seq(Messages) /\ Paired(box)
  /\ awaited = NoModel => Answered(box)
  /\ awaited # NoModel =>
       /\ awaited \in Turns /\ turn[awaited].pc \in {"posted", "discovering", "retrying"}
       /\ box # <<>> /\ box[Len(box)] = Says(turn[awaited].question)

(* The language a turn answers in, when none was chosen.                   *)
InLanguage(messages, q, language) ==
  preference = "AUTO" => IF q = "short" THEN SpokeIn(messages, language) ELSE language = q

TurnKeeps(was) ==
  /\ was \in TurnRecords /\ Kept(was.history)
  /\ InLanguage(was.history, was.question, was.language)

SessionKeeps ==
  session # NoMemory =>
    /\ Kept(session.history) /\ session.language \in Texts
    /\ preference = "AUTO" => SpokeIn(session.history, session.language)

ModelKnown(was) ==
  ~was.disturbed => /\ was.pc = "discovering" => was.model \notin offered
                    /\ was.pc = "retrying" => was.model \in offered
                    /\ was.pc = "refused" => offered = {}

ModelsOK ==
  /\ offered \subseteq Models /\ resolvedModel \in Nat \cup {NoModel}
  /\ \A t \in Turns : ModelKnown(turn[t])

AnswersIInv ==
  /\ turn = [t \in Turns |-> turn[t]] /\ preference \in {"AUTO", "SI"}
  /\ BoxOK /\ (\A t \in Turns : TurnKeeps(turn[t])) /\ SessionKeeps /\ ModelsOK

(* The end of a list, as slice(-n) gives it.                               *)
LEMMA LastOfIs ==
  ASSUME NEW m \in Seq(Messages), NEW n \in Nat, n > 0
  PROVE  \E k \in Nat :
           /\ k <= Len(m) /\ (m # <<>> => k < Len(m)) /\ (n > 1 /\ Len(m) > 1 => k + 1 < Len(m))
           /\ LastOf(m, n) \in Seq(Messages) /\ Len(LastOf(m, n)) = Len(m) - k
           /\ \A i \in 1 .. Len(m) - k : LastOf(m, n)[i] = m[i + k]
<1>0. Len(m) \in Nat /\ \A i \in 1 .. Len(m) : m[i] \in Messages
  OBVIOUS
<1>1. CASE Len(m) <= n
  <2>1. LastOf(m, n) = m
    BY <1>1 DEF LastOf
  <2>2. m # <<>> => 0 < Len(m)
    OBVIOUS
  <2>3. \A i \in 1 .. Len(m) - 0 : m[i] = m[i + 0]
    BY <1>0
  <2> QED
    BY <1>0, <2>1, <2>2, <2>3
<1>2. CASE ~(Len(m) <= n)
  <2> DEFINE k == Len(m) - n
             s == SubSeq(m, k + 1, Len(m))
  <2>1. k \in Nat /\ k < Len(m) /\ k <= Len(m) /\ (n > 1 => k + 1 < Len(m))
    BY <1>0, <1>2
  <2>2. \A i \in k + 1 .. Len(m) : m[i] \in Messages
    BY <1>0, <2>1
  <2>3. k + 1 \in Int /\ Len(m) \in Int /\ k + 1 <= Len(m)
    BY <1>0, <2>1
  <2>4. /\ s \in Seq(Messages) /\ Len(s) = Len(m) - (k + 1) + 1
        /\ \A i \in 1 .. Len(m) - (k + 1) + 1 : s[i] = m[k + 1 + i - 1]
    <3> HIDE DEF k
    <3> QED
      BY <2>2, <2>3, SubSeqProperties
  <2>5. LastOf(m, n) = s
    BY <1>2 DEF LastOf
  <2>6. Len(m) - (k + 1) + 1 = Len(m) - k /\ \A i \in 1 .. Len(m) - k : k + 1 + i - 1 = i + k
    BY <1>0, <2>1
  <2> HIDE DEF s, k
  <2> QED
    BY <2>1, <2>4, <2>5, <2>6
<1> QED
  BY <1>1, <1>2

(* It has what is asked of the whole.                                      *)
LEMMA LastOfKeeps ==
  ASSUME NEW m \in Seq(Messages), NEW n \in Nat, n > 0
  PROVE  /\ LastOf(m, n) \in Seq(Messages)
         /\ Paired(m) => Paired(LastOf(m, n))
         /\ Answered(m) => Answered(LastOf(m, n))
         /\ \A language : SpokeIn(m, language) => SpokeIn(LastOf(m, n), language)
         /\ m # <<>> => LastOf(m, n) # <<>> /\ LastOf(m, n)[Len(LastOf(m, n))] = m[Len(m)]
<1> DEFINE s == LastOf(m, n)
<1>1. PICK k \in Nat :
        /\ k <= Len(m) /\ (m # <<>> => k < Len(m))
        /\ s \in Seq(Messages) /\ Len(s) = Len(m) - k
        /\ \A i \in 1 .. Len(m) - k : s[i] = m[i + k]
  BY LastOfIs
<1> HIDE DEF s
<1>2. DOMAIN s = 1 .. Len(m) - k /\ DOMAIN m = 1 .. Len(m) /\ Len(m) \in Nat
  BY <1>1
<1>3. ASSUME Paired(m) PROVE Paired(s)
  <2> SUFFICES ASSUME NEW i \in DOMAIN s, i > 1
               PROVE  /\ s[i].by # s[i - 1].by
                      /\ s[i].by = "assistant" => s[i].text \in {s[i - 1].text, "error"}
    BY DEF Paired
  <2>1. i + k \in DOMAIN m /\ i + k > 1 /\ i - 1 \in 1 .. Len(m) - k /\ (i + k) - 1 = (i - 1) + k
    BY <1>1, <1>2
  <2>2. s[i] = m[i + k] /\ s[i - 1] = m[(i + k) - 1]
    BY <1>1, <1>2, <2>1
  <2> QED
    BY <1>3, <2>1, <2>2 DEF Paired
<1>4. m # <<>> => s # <<>> /\ s[Len(s)] = m[Len(m)]
  <2> SUFFICES ASSUME m # <<>> PROVE s # <<>> /\ s[Len(s)] = m[Len(m)]
    OBVIOUS
  <2>1. Len(s) > 0 /\ Len(s) \in 1 .. Len(m) - k /\ Len(s) + k = Len(m)
    BY <1>1, <1>2
  <2> QED
    BY <1>1, <2>1
<1>5. ASSUME Answered(m) PROVE Answered(s)
  <2>1. CASE m = <<>>
    <3>1. Len(s) = 0
      BY <1>1, <1>2, <2>1
    <3> QED
      BY <1>1, <3>1 DEF Answered
  <2>2. CASE m # <<>>
    BY <1>4, <1>5, <2>2 DEF Answered
  <2> QED
    BY <2>1, <2>2
<1>6. ASSUME NEW language, SpokeIn(m, language) PROVE SpokeIn(s, language)
  <2> SUFFICES ASSUME NEW i \in DOMAIN s, Latest(s, i) PROVE s[i].text = language
    BY DEF SpokeIn
  <2>1. s[i] = m[i + k] /\ i + k \in DOMAIN m /\ Telling(m, i + k)
    BY <1>1, <1>2 DEF Latest, Telling
  <2>2. ASSUME NEW j \in DOMAIN m, Telling(m, j) PROVE j <= i + k
    <3>1. CASE j <= k
      BY <1>2, <3>1
    <3>2. CASE ~(j <= k)
      <4>1. j - k \in 1 .. Len(m) - k /\ (j - k) + k = j
        BY <1>1, <1>2, <3>2
      <4>2. s[j - k] = m[j] /\ j - k \in DOMAIN s
        BY <1>1, <1>2, <4>1
      <4>3. j - k <= i
        BY <2>2, <4>2 DEF Latest, Telling
      <4> QED
        BY <1>2, <4>1, <4>3
    <3> QED
      BY <3>1, <3>2
  <2>3. Latest(m, i + k)
    BY <2>1, <2>2 DEF Latest
  <2> QED
    BY <1>6, <2>1, <2>3 DEF SpokeIn
<1> QED
  BY <1>1, <1>3, <1>4, <1>5, <1>6 DEF s

(* A list of pairs stays one with a question after an answer, or an answer *)
(* after its question.                                                     *)
LEMMA PairedOn ==
  ASSUME NEW m \in Seq(Messages), NEW x \in Messages, Paired(m),
         m # <<>> => /\ m[Len(m)].by # x.by
                     /\ x.by = "assistant" => x.text \in {m[Len(m)].text, "error"}
  PROVE  /\ Append(m, x) \in Seq(Messages) /\ Paired(Append(m, x)) /\ Append(m, x) # <<>>
         /\ Append(m, x)[Len(Append(m, x))] = x
<1> DEFINE s == Append(m, x)
<1>1. /\ s \in Seq(Messages) /\ s # <<>> /\ Len(s) = Len(m) + 1 /\ Len(m) \in Nat
      /\ \A i \in 1 .. Len(m) : s[i] = m[i]
      /\ s[Len(m) + 1] = x
  BY AppendProperties
<1> HIDE DEF s
<1>2. Paired(s)
  <2> SUFFICES ASSUME NEW i \in DOMAIN s, i > 1
               PROVE  /\ s[i].by # s[i - 1].by
                      /\ s[i].by = "assistant" => s[i].text \in {s[i - 1].text, "error"}
    BY DEF Paired
  <2>1. i \in 1 .. Len(m) + 1 /\ DOMAIN m = 1 .. Len(m)
    BY <1>1
  <2>2. CASE i \in 1 .. Len(m)
    <3>1. i - 1 \in 1 .. Len(m)
      BY <2>2
    <3> QED
      BY <1>1, <2>1, <2>2, <3>1 DEF Paired
  <2>3. CASE i = Len(m) + 1
    <3>1. i - 1 = Len(m) /\ Len(m) \in 1 .. Len(m) /\ m # <<>>
      BY <1>1, <2>3
    <3>2. s[i] = x /\ s[i - 1] = m[Len(m)]
      BY <1>1, <2>3, <3>1
    <3> QED
      BY <3>1, <3>2
  <2> QED
    BY <1>1, <2>1, <2>2, <2>3
<1> QED
  BY <1>1, <1>2 DEF s

(* Every set of numbers that is not empty has a least.                     *)
LEMMA LeastOf ==
  ASSUME NEW S \in SUBSET Nat, S # {}
  PROVE  \E i \in S : \A j \in S : i <= j
<1>1. PICK i \in S : \A j \in S : <<j, i>> \notin OpToRel(<, Nat)
  BY WFMin, NatLessThanWellFounded
<1>2. \A j \in S : ~(j < i)
  BY <1>1 DEF OpToRel
<1> QED
  BY <1>2

(* Every set of indices that is not empty has a greatest.                  *)
LEMMA GreatestOf ==
  ASSUME NEW n \in Nat, NEW S \in SUBSET (1 .. n), S # {}
  PROVE  \E i \in S : \A j \in S : j <= i
<1> DEFINE R == {n - i : i \in S}
<1>1. R \in SUBSET Nat
  <2>1. \A i \in S : n - i \in Nat
    OBVIOUS
  <2> QED
    BY <2>1
<1>2. R # {}
  BY S # {}
<1>3. PICK x \in R : \A y \in R : x <= y
  <2> HIDE DEF R
  <2> QED
    BY <1>1, <1>2, LeastOf
<1>4. PICK i \in S : x = n - i
  OBVIOUS
<1>5. ASSUME NEW j \in S PROVE j <= i
  <2>1. n - i <= n - j
    BY <1>3, <1>4
  <2> QED
    BY <2>1
<1> QED
  BY <1>5

(* The language last shown is that of the latest telling question.         *)
LEMMA LastShownIs ==
  ASSUME NEW m \in Seq(Messages)
  PROVE  \/ LastShown(m) = "none" /\ \A i \in DOMAIN m : ~Telling(m, i)
         \/ \E i \in DOMAIN m : Latest(m, i) /\ LastShown(m) = m[i].text
<1> DEFINE shows == {i \in DOMAIN m : m[i].by = "user" /\ m[i].text # "short"}
<1>1. CASE shows = {}
  BY <1>1 DEF LastShown, Telling
<1>2. CASE shows # {}
  <2> DEFINE last == CHOOSE i \in shows : \A j \in shows : j <= i
  <2>1. LastShown(m) = m[last].text
    BY <1>2 DEF LastShown
  <2>2. Len(m) \in Nat /\ shows \in SUBSET (1 .. Len(m))
    OBVIOUS
  <2>3. \E i \in shows : \A j \in shows : j <= i
    <3> HIDE DEF shows
    <3> QED
      BY <1>2, <2>2, GreatestOf
  <2>4. last \in shows /\ \A j \in shows : j <= last
    <3> HIDE DEF shows
    <3> QED
      BY <2>3
  <2>5. Latest(m, last)
    <3> HIDE DEF last
    <3> QED
      BY <2>4 DEF Latest, Telling
  <2> QED
    BY <2>1, <2>4, <2>5
<1> QED
  BY <1>1, <1>2

(* What spoke in one language last showed no other.                        *)
LEMMA SpokeInShows ==
  ASSUME NEW m \in Seq(Messages), NEW language, SpokeIn(m, language)
  PROVE  LastShown(m) \in {"none", language}
BY LastShownIs DEF SpokeIn

LEMMA SaysIs ==
  ASSUME NEW q \in Questions
  PROVE  /\ Says(q) \in Messages /\ Says(q).by = "user" /\ Says(q).text = q
         /\ Tells(q) \in Messages /\ Tells(q).by = "assistant" /\ Tells(q).text = q
         /\ Failed \in Messages /\ Failed.by = "assistant" /\ Failed.text = "error"
BY DEF Says, Tells, Failed, Messages, Texts

(* A question with its answer goes on a kept history, and in the language  *)
(* of the answer if the question, or else the history, spoke it.           *)
LEMMA AnswerIsKept ==
  ASSUME NEW h, Kept(h), NEW q \in Questions
  PROVE  /\ Kept(h \o <<Says(q), Tells(q)>>)
         /\ \A language : (IF q = "short" THEN SpokeIn(h, language) ELSE language = q)
                            => SpokeIn(h \o <<Says(q), Tells(q)>>, language)
<1> DEFINE two == <<Says(q), Tells(q)>>
           p == h \o two
<1>0. h \in Seq(Messages) /\ Paired(h) /\ Answered(h)
  BY DEF Kept
<1>1. two \in Seq(Messages) /\ Len(two) = 2 /\ two[1] = Says(q) /\ two[2] = Tells(q)
  BY SaysIs
<1>2. /\ p \in Seq(Messages) /\ Len(p) = Len(h) + 2 /\ Len(h) \in Nat
      /\ \A i \in 1 .. Len(h) : p[i] = h[i]
      /\ p[Len(h) + 1] = Says(q) /\ p[Len(h) + 2] = Tells(q)
  <2> HIDE DEF two
  <2>1. /\ p \in Seq(Messages) /\ Len(p) = Len(h) + Len(two)
        /\ \A i \in 1 .. Len(h) + Len(two) : p[i] = IF i <= Len(h) THEN h[i] ELSE two[i - Len(h)]
    BY <1>0, <1>1, ConcatProperties
  <2>2. Len(h) \in Nat
    BY <1>0
  <2> HIDE DEF p
  <2> QED
    BY <1>1, <2>1, <2>2
<1> HIDE DEF two, p
<1>3. DOMAIN p = 1 .. Len(h) + 2 /\ DOMAIN h = 1 .. Len(h)
  BY <1>0, <1>2
<1>4. Paired(p)
  <2> SUFFICES ASSUME NEW i \in DOMAIN p, i > 1
               PROVE  /\ p[i].by # p[i - 1].by
                      /\ p[i].by = "assistant" => p[i].text \in {p[i - 1].text, "error"}
    BY DEF Paired
  <2>1. CASE i \in 1 .. Len(h)
    <3>1. i - 1 \in 1 .. Len(h)
      BY <2>1
    <3>2. p[i] = h[i] /\ p[i - 1] = h[i - 1]
      BY <1>2, <2>1, <3>1
    <3> QED
      BY <1>0, <1>3, <2>1, <3>2 DEF Paired
  <2>2. CASE i = Len(h) + 1
    <3>1. i - 1 = Len(h) /\ Len(h) \in 1 .. Len(h) /\ h # <<>>
      BY <1>0, <1>2, <2>2
    <3>2. p[i] = Says(q) /\ p[i - 1] = h[Len(h)]
      BY <1>2, <2>2, <3>1
    <3> QED
      BY <1>0, <3>1, <3>2, SaysIs DEF Answered
  <2>3. CASE i = Len(h) + 2
    <3>1. i - 1 = Len(h) + 1
      BY <1>2, <2>3
    <3>2. p[i] = Tells(q) /\ p[i - 1] = Says(q)
      BY <1>2, <2>3, <3>1
    <3> QED
      BY <3>2, SaysIs
  <2> QED
    BY <1>2, <1>3, <2>1, <2>2, <2>3
<1>5. Answered(p)
  <2>1. Len(p) = Len(h) + 2
    BY <1>2
  <2> QED
    BY <1>2, <2>1, SaysIs DEF Answered
<1>6. ASSUME NEW language, IF q = "short" THEN SpokeIn(h, language) ELSE language = q
      PROVE  SpokeIn(p, language)
  <2> SUFFICES ASSUME NEW i \in DOMAIN p, Latest(p, i) PROVE p[i].text = language
    BY DEF SpokeIn
  <2>0. p[i].by = "user" /\ p[i].text # "short" /\ i # Len(h) + 2
    BY <1>2, SaysIs DEF Latest, Telling
  <2>1. CASE q = "short"
    <3>1. i \in 1 .. Len(h) /\ p[i] = h[i]
      BY <1>2, <1>3, <2>0, <2>1, SaysIs
    <3>2. ASSUME NEW j \in DOMAIN h, Telling(h, j) PROVE j <= i
      <4>1. p[j] = h[j] /\ j \in DOMAIN p
        BY <1>2, <1>3
      <4> QED
        BY <3>2, <4>1 DEF Latest, Telling
    <3>3. Latest(h, i)
      BY <1>3, <2>0, <3>1, <3>2 DEF Latest, Telling
    <3> QED
      BY <1>3, <1>6, <2>1, <3>1, <3>3 DEF SpokeIn
  <2>2. CASE q # "short"
    <3>1. Len(h) + 1 \in DOMAIN p /\ Telling(p, Len(h) + 1)
      BY <1>2, <1>3, <2>2, SaysIs DEF Telling
    <3>2. Len(h) + 1 <= i
      BY <3>1 DEF Latest
    <3>3. i = Len(h) + 1
      BY <1>2, <1>3, <2>0, <3>2
    <3> QED
      BY <1>2, <1>6, <2>2, <3>3, SaysIs
  <2> QED
    BY <2>1, <2>2
<1> QED
  BY <1>2, <1>4, <1>5, <1>6 DEF Kept, p, two

(* Before its last entry a list is what it was before the entry came.      *)
LEMMA FrontIs ==
  ASSUME NEW m \in Seq(Messages), NEW x \in Messages
  PROVE  SubSeq(Append(m, x), 1, Len(m)) = m
<1> DEFINE a == Append(m, x)
           s == SubSeq(a, 1, Len(m))
<1>1. /\ a \in Seq(Messages) /\ Len(a) = Len(m) + 1 /\ Len(m) \in Nat
      /\ \A i \in 1 .. Len(m) : a[i] = m[i]
  BY AppendProperties
<1> HIDE DEF a
<1>2. \A i \in 1 .. Len(m) : a[i] \in Messages
  BY <1>1
<1>3. s \in Seq(Messages) /\ Len(s) = Len(m) /\ \A i \in 1 .. Len(m) : s[i] = m[i]
  <2>1. 1 \in Int /\ Len(m) \in Int
    BY <1>1
  <2>2. /\ s \in Seq(Messages) /\ Len(s) = IF 1 <= Len(m) THEN Len(m) - 1 + 1 ELSE 0
        /\ \A i \in 1 .. Len(m) - 1 + 1 : s[i] = a[1 + i - 1]
    BY <1>2, <2>1, SubSeqProperties
  <2>3. \A i \in 1 .. Len(m) : s[i] = a[i]
    <3> TAKE i \in 1 .. Len(m)
    <3>1. i \in 1 .. Len(m) - 1 + 1 /\ 1 + i - 1 = i
      BY <1>1
    <3> HIDE DEF s
    <3> QED
      BY <2>2, <3>1
  <2> HIDE DEF s
  <2> QED
    BY <1>1, <2>2, <2>3
<1> HIDE DEF s
<1>4. s = m
  BY <1>3, SeqEqual
<1> QED
  BY <1>4 DEF s, a

(* What a new turn takes along: the history of the session, or of the box  *)
(* before the question, and the language it shows.                         *)
LEMMA TurnTakes ==
  ASSUME AnswersIInv, awaited = NoModel, NEW q \in Questions,
         NEW payload, payload = Append(LastOf(box, MaxMessages - 1), Says(q))
  PROVE  /\ Kept(History(payload, q)) /\ Language(q, payload) \in Texts
         /\ InLanguage(History(payload, q), q, Language(q, payload))
<1> DEFINE e == LastOf(box, MaxMessages - 1)
           l == Language(q, payload)
<1>1. /\ MaxMessages - 1 \in Nat /\ MaxMessages - 1 > 0
      /\ box \in Seq(Messages) /\ Paired(box) /\ Answered(box) /\ preference \in {"AUTO", "SI"}
  BY ChatAssumption DEF AnswersIInv, BoxOK
<1>2. Kept(e)
  BY <1>1, LastOfKeeps DEF Kept
<1>3. Says(q) \in Messages /\ Says(q).by = "user" /\ Says(q).text = q
  BY SaysIs
<1>4. e \in Seq(Messages) /\ payload = Append(e, Says(q))
  BY <1>2 DEF Kept
<1> HIDE DEF e
<1>5. /\ payload \in Seq(Messages) /\ Len(payload) = Len(e) + 1 /\ Len(e) \in Nat
      /\ \A i \in 1 .. Len(e) : payload[i] = e[i]
      /\ payload[Len(e) + 1] = Says(q)
  <2>1. Len(e) \in Nat
    BY <1>4
  <2>2. \A x \in Messages :
          /\ Append(e, x) \in Seq(Messages) /\ Len(Append(e, x)) = Len(e) + 1
          /\ \A i \in 1 .. Len(e) : Append(e, x)[i] = e[i]
          /\ Append(e, x)[Len(e) + 1] = x
    BY <1>4, AppendProperties
  <2>3. Says(q) \in Messages /\ payload = Append(e, Says(q))
    BY <1>3, <1>4
  <2> QED
    BY <2>1, <2>2, <2>3, Zenon
<1>6. CASE session # NoMemory
  <2>1. History(payload, q) = session.history
    BY <1>6 DEF History
  <2>2. Kept(session.history) /\ session.language \in Texts
        /\ (preference = "AUTO" => SpokeIn(session.history, session.language))
    BY <1>6 DEF AnswersIInv, SessionKeeps
  <2>3. l \in Texts /\ (preference = "AUTO" => l = IF q = "short" THEN session.language ELSE q)
    BY <1>1, <1>6, <2>2 DEF Language, Texts, Questions
  <2> QED
    BY <2>1, <2>2, <2>3 DEF InLanguage
<1>7. CASE session = NoMemory
  <2>1. History(payload, q) = e
    <3> DEFINE same == {i \in DOMAIN payload : payload[i] = Says(q)}
               last == CHOOSE i \in same : \A j \in same : j <= i
    <3>1. Len(payload) \in same /\ \A j \in same : j \in Nat /\ j <= Len(payload)
      BY <1>5
    <3>2. last \in same /\ \A j \in same : j <= last
      <4> HIDE DEF same
      <4> QED
        BY <3>1
    <3>3. last = Len(payload)
      <4> HIDE DEF same, last
      <4>1. last \in Nat /\ last <= Len(payload) /\ Len(payload) <= last
        BY <3>1, <3>2
      <4> QED
        BY <1>5, <4>1
    <3>4. History(payload, q) = SubSeq(payload, 1, last - 1)
      BY <1>7 DEF History
    <3>5. last - 1 = Len(e)
      BY <1>5, <3>3
    <3> HIDE DEF last
    <3> QED
      BY <1>3, <1>4, <3>4, <3>5, FrontIs
  <2>2. \/ LastShown(payload) = "none" /\ \A i \in DOMAIN payload : ~Telling(payload, i)
        \/ \E i \in DOMAIN payload : Latest(payload, i) /\ LastShown(payload) = payload[i].text
    BY <1>5, LastShownIs
  <2>3. \A i \in DOMAIN payload : payload[i].text \in Texts
    <3>1. \A i \in DOMAIN payload : payload[i] \in Messages
      BY <1>5
    <3> QED
      BY <3>1 DEF Messages
  <2>4. "none" \notin Texts /\ "EN" \in Texts /\ "SI" \in Texts /\ Questions \subseteq Texts
    BY DEF Texts, Questions
  <2>5. l \in Texts
    <3>1. \/ l = "SI" \/ l = q \/ l = "EN" \/ (l = LastShown(payload) /\ l # "none")
      BY <1>1, <1>7 DEF Language
    <3> QED
      BY <2>2, <2>3, <2>4, <3>1
  <2>6. ASSUME preference = "AUTO" PROVE IF q = "short" THEN SpokeIn(e, l) ELSE l = q
    <3>1. CASE q # "short"
      BY <2>6, <3>1 DEF Language
    <3>2. CASE q = "short"
      <4>1. l = IF LastShown(payload) = "none" THEN "EN" ELSE LastShown(payload)
        BY <1>7, <2>6, <3>2 DEF Language
      <4>2. ASSUME NEW i \in DOMAIN e, Latest(e, i) PROVE e[i].text = l
        <5>1. i \in 1 .. Len(e) /\ payload[i] = e[i] /\ i \in DOMAIN payload
          BY <1>4, <1>5
        <5>2. Telling(payload, i)
          BY <4>2, <5>1 DEF Latest, Telling
        <5>3. PICK k \in DOMAIN payload : Latest(payload, k) /\ LastShown(payload) = payload[k].text
          BY <2>2, <5>1, <5>2
        <5>4. k # Len(e) + 1
          BY <1>3, <1>5, <3>2, <5>3 DEF Latest, Telling
        <5>5. k \in 1 .. Len(e) /\ payload[k] = e[k] /\ k \in DOMAIN e
          BY <1>4, <1>5, <5>4
        <5>6. k <= i /\ i <= k
          <6>1. Telling(e, k)
            BY <5>3, <5>5 DEF Latest, Telling
          <6> QED
            BY <4>2, <5>1, <5>2, <5>3, <5>5, <6>1 DEF Latest
        <5>7. k = i
          BY <5>1, <5>5, <5>6
        <5>8. LastShown(payload) # "none"
          BY <2>3, <2>4, <5>3
        <5> QED
          BY <4>1, <5>1, <5>3, <5>7, <5>8
      <4> QED
        BY <3>2, <4>2 DEF SpokeIn
    <3> QED
      BY <3>1, <3>2
  <2> QED
    BY <1>2, <2>1, <2>5, <2>6 DEF InLanguage
<1> QED
  BY <1>6, <1>7

(* One turn changes to one that keeps what a turn keeps.                   *)
LEMMA OneTurn ==
  ASSUME AnswersIInv, NEW t \in Turns, NEW x, turn' = [turn EXCEPT ![t] = x],
         TurnKeeps(x), ModelKnown(x), preference' = preference, offered' = offered
  PROVE  /\ turn' = [u \in Turns |-> turn'[u]] /\ turn'[t] = x
         /\ \A u \in Turns : u # t => turn'[u] = turn[u]
         /\ (\A u \in Turns : TurnKeeps(turn[u]))' /\ (\A u \in Turns : ModelKnown(turn[u]))'
<1>1. turn = [u \in Turns |-> turn[u]]
  BY DEF AnswersIInv
<1>2. /\ turn' = [u \in Turns |-> turn'[u]] /\ turn'[t] = x
      /\ \A u \in Turns : u # t => turn'[u] = turn[u]
  BY <1>1
<1>3. \A u \in Turns : TurnKeeps(turn'[u]) /\ ModelKnown(turn'[u])
  BY <1>2 DEF AnswersIInv, ModelsOK
<1>4. ASSUME NEW u \in Turns PROVE TurnKeeps(turn[u])' /\ ModelKnown(turn[u])'
  <2>1. TurnKeeps(turn'[u]) /\ ModelKnown(turn'[u])
    BY <1>3
  <2> QED
    BY <2>1 DEF TurnKeeps, ModelKnown, InLanguage
<1> QED
  BY <1>2, <1>4

(* A turn that is done, or refused, keeps it, as it holds nothing.         *)
LEMMA QuietKeeps ==
  ASSUME AnswersIInv, NEW why \in {"free", "refused", "failed"}, NEW moved \in BOOLEAN
  PROVE  /\ TurnKeeps(Quiet) /\ ModelKnown(Quiet)
         /\ TurnKeeps([Quiet EXCEPT !.pc = why, !.disturbed = moved])
         /\ (why = "refused" /\ ~moved => offered = {})
              => ModelKnown([Quiet EXCEPT !.pc = why, !.disturbed = moved])
<1>1. <<>> \in Seq(Messages) /\ Kept(<<>>) /\ \A language : SpokeIn(<<>>, language)
  BY DEF Kept, Paired, Answered, SpokeIn
<1>2. "EN" \in Texts /\ "short" \in Questions
  BY DEF Texts, Questions
<1>3. Quiet \in TurnRecords
  BY <1>1, <1>2 DEF Quiet, TurnRecords, PCsOfTurns
<1>4. [Quiet EXCEPT !.pc = why, !.disturbed = moved] \in TurnRecords
  BY <1>3 DEF TurnRecords, PCsOfTurns
<1>5. /\ Quiet.history = <<>> /\ Quiet.question = "short" /\ Quiet.pc = "free"
      /\ [Quiet EXCEPT !.pc = why, !.disturbed = moved].history = <<>>
      /\ [Quiet EXCEPT !.pc = why, !.disturbed = moved].question = "short"
      /\ [Quiet EXCEPT !.pc = why, !.disturbed = moved].pc = why
      /\ [Quiet EXCEPT !.pc = why, !.disturbed = moved].disturbed = moved
  BY DEF Quiet
<1>6. TurnKeeps(Quiet) /\ ModelKnown(Quiet)
  BY <1>1, <1>3, <1>5 DEF TurnKeeps, ModelKnown, InLanguage
<1>7. TurnKeeps([Quiet EXCEPT !.pc = why, !.disturbed = moved])
  BY <1>1, <1>4, <1>5 DEF TurnKeeps, InLanguage
<1>8. (why = "refused" /\ ~moved => offered = {})
        => ModelKnown([Quiet EXCEPT !.pc = why, !.disturbed = moved])
  BY <1>5 DEF ModelKnown
<1> QED
  BY <1>6, <1>7, <1>8

(* What the box shows of an answer, or instead of one, answers the         *)
(* question it waits on; it goes on waiting for the turn of another.       *)
LEMMA ShowKeeps ==
  ASSUME AnswersIInv, NEW t \in Turns, NEW message, Show(t, message),
         message \in {Tells(turn[t].question), Failed},
         \A u \in Turns : u # t => turn'[u] = turn[u]
  PROVE  BoxOK'
<1>1. BoxOK /\ turn[t].question \in Questions
  BY DEF AnswersIInv, TurnKeeps, TurnRecords
<1>2. MaxMessages \in Nat /\ MaxMessages > 0
  BY ChatAssumption
<1>3. CASE awaited = t
  <2> DEFINE m == Append(box, message)
  <2>1. awaited # NoModel
    BY <1>3, ChatAssumption
  <2>2. box \in Seq(Messages) /\ Paired(box) /\ box # <<>> /\ box[Len(box)] = Says(turn[t].question)
    BY <1>1, <1>3, <2>1 DEF BoxOK
  <2>3. /\ message \in Messages /\ message.by = "assistant"
        /\ message.text \in {box[Len(box)].text, "error"} /\ box[Len(box)].by # message.by
    BY <1>1, <2>2, SaysIs
  <2>4. m \in Seq(Messages) /\ Paired(m) /\ m # <<>> /\ m[Len(m)] = message
    BY <2>2, <2>3, PairedOn
  <2>5. Answered(m)
    BY <2>3, <2>4 DEF Answered
  <2>6. box' = LastOf(m, MaxMessages) /\ awaited' = NoModel
    BY <1>3 DEF Show
  <2> HIDE DEF m
  <2>7. LastOf(m, MaxMessages) \in Seq(Messages) /\ Paired(LastOf(m, MaxMessages))
        /\ Answered(LastOf(m, MaxMessages))
    BY <1>2, <2>4, <2>5, LastOfKeeps
  <2>8. box' \in Seq(Messages) /\ Paired(box)' /\ Answered(box)'
    BY <2>6, <2>7 DEF Paired, Answered
  <2> QED
    BY <2>6, <2>8 DEF BoxOK
<1>4. CASE awaited # t
  <2>1. box' = box /\ awaited' = awaited
    BY <1>4 DEF Show
  <2>2. awaited # NoModel => turn'[awaited] = turn[awaited]
    BY <1>1, <1>4 DEF BoxOK
  <2> QED
    BY <1>1, <2>1, <2>2 DEF BoxOK, Paired, Answered, Says
<1> QED
  BY <1>3, <1>4

(* A question that is sent leaves a box that waits for it.                 *)
LEMMA SendKeeps ==
  ASSUME AnswersIInv, NEW t \in Turns, NEW q \in Questions, SendMessage(t, q)
  PROVE  AnswersIInv'
<1> DEFINE m == Append(box, Says(q))
<1>1. /\ awaited = NoModel /\ turn[t].pc = "free" /\ box' = LastOf(m, MaxMessages) /\ awaited' = t
      /\ UNCHANGED <<session, preference, resolvedModel, offered>>
  BY DEF SendMessage
<1>2. PICK payload : payload = Append(LastOf(box, MaxMessages - 1), Says(q))
  OBVIOUS
<1>3. PICK x : x = [pc |-> "posted", history |-> History(payload, q), question |-> q,
                    language |-> Language(q, payload),
                    model |-> IF resolvedModel = NoModel THEN Primary ELSE resolvedModel,
                    disturbed |-> FALSE]
  OBVIOUS
<1>4. turn' = [turn EXCEPT ![t] = x]
  BY <1>2, <1>3 DEF SendMessage
<1>5. /\ Kept(History(payload, q)) /\ Language(q, payload) \in Texts
      /\ InLanguage(History(payload, q), q, Language(q, payload))
  BY <1>1, <1>2, TurnTakes
<1>6. x.model \in Nat \cup {NoModel}
  BY <1>3, ChatAssumption DEF AnswersIInv, ModelsOK
<1>7. x \in TurnRecords
  BY <1>3, <1>5, <1>6 DEF TurnRecords, PCsOfTurns, Kept
<1>8. TurnKeeps(x) /\ ModelKnown(x)
  BY <1>3, <1>5, <1>7 DEF TurnKeeps, ModelKnown
<1>9. /\ turn' = [u \in Turns |-> turn'[u]] /\ turn'[t] = x
      /\ (\A u \in Turns : TurnKeeps(turn[u]))' /\ (\A u \in Turns : ModelKnown(turn[u]))'
  BY <1>1, <1>4, <1>8, OneTurn
<1>10. BoxOK'
  <2>1. box \in Seq(Messages) /\ Paired(box) /\ Answered(box) /\ MaxMessages \in Nat /\ MaxMessages > 0
    BY <1>1, ChatAssumption DEF AnswersIInv, BoxOK
  <2>2. m \in Seq(Messages) /\ Paired(m) /\ m # <<>> /\ m[Len(m)] = Says(q)
    BY <2>1, SaysIs, PairedOn DEF Answered
  <2> HIDE DEF m
  <2>3. /\ LastOf(m, MaxMessages) \in Seq(Messages) /\ Paired(LastOf(m, MaxMessages))
        /\ LastOf(m, MaxMessages) # <<>>
        /\ LastOf(m, MaxMessages)[Len(LastOf(m, MaxMessages))] = Says(q)
    BY <2>1, <2>2, LastOfKeeps
  <2>4. box' \in Seq(Messages) /\ Paired(box)' /\ box' # <<>> /\ box'[Len(box')] = Says(q)
    BY <1>1, <2>3 DEF Paired
  <2>5. awaited' \in Turns /\ awaited' # NoModel /\ turn'[awaited'].pc = "posted"
        /\ turn'[awaited'].question = q
    BY <1>1, <1>3, <1>9, ChatAssumption
  <2> QED
    BY <2>4, <2>5 DEF BoxOK, Says
<1>11. SessionKeeps'
  BY <1>1 DEF AnswersIInv, SessionKeeps, SpokeIn, Latest, Telling, Kept, Paired, Answered
<1>12. ModelsOK'
  BY <1>1, <1>9 DEF AnswersIInv, ModelsOK
<1> QED
  BY <1>1, <1>9, <1>10, <1>11, <1>12 DEF AnswersIInv

(* An answer leaves a session with the question and its answer.            *)
LEMMA ReplyKeeps ==
  ASSUME AnswersIInv, NEW t \in Turns, Reply(t), preference' = preference, offered' = offered,
         resolvedModel' \in Nat \cup {NoModel}
  PROVE  AnswersIInv'
<1>1. turn' = [turn EXCEPT ![t] = Quiet] /\ Show(t, Tells(turn[t].question))
  BY DEF Reply
<1>2. /\ turn' = [u \in Turns |-> turn'[u]]
      /\ \A u \in Turns : u # t => turn'[u] = turn[u]
      /\ (\A u \in Turns : TurnKeeps(turn[u]))' /\ (\A u \in Turns : ModelKnown(turn[u]))'
  BY <1>1, QuietKeeps, OneTurn
<1>3. BoxOK'
  BY <1>1, <1>2, ShowKeeps
<1>4. SessionKeeps'
  <2>1. PICK h, q, l : h = turn[t].history /\ q = turn[t].question /\ l = turn[t].language
    OBVIOUS
  <2>2. Kept(h) /\ q \in Questions /\ l \in Texts /\ InLanguage(h, q, l)
    BY <2>1 DEF AnswersIInv, TurnKeeps, TurnRecords
  <2>3. PICK p : p = h \o <<Says(q), Tells(q)>>
    OBVIOUS
  <2>4. Kept(p) /\ (preference = "AUTO" => SpokeIn(p, l))
    BY <2>2, <2>3, AnswerIsKept DEF InLanguage
  <2>5. PICK s : s = LastOf(p, MaxMessages)
    OBVIOUS
  <2>6. Kept(s) /\ (preference = "AUTO" => SpokeIn(s, l))
    <3>1. p \in Seq(Messages) /\ Paired(p) /\ Answered(p) /\ MaxMessages \in Nat /\ MaxMessages > 0
      BY <2>4, ChatAssumption DEF Kept
    <3> QED
      BY <2>4, <2>5, <3>1, LastOfKeeps DEF Kept
  <2>7. session' = [history |-> s, language |-> l]
    BY <2>1, <2>3, <2>5 DEF Reply
  <2>8. session'.history = s /\ session'.language = l
    BY <2>7
  <2> QED
    BY <2>2, <2>6, <2>8 DEF SessionKeeps
<1>5. ModelsOK'
  BY <1>2 DEF AnswersIInv, ModelsOK
<1> QED
  BY <1>2, <1>3, <1>4, <1>5 DEF AnswersIInv

(* A refusal is for want of a model, or follows a change of the offer.     *)
LEMMA RefuseKeeps ==
  ASSUME AnswersIInv, NEW t \in Turns, NEW why \in {"refused", "failed"}, Refuse(t, why),
         preference' = preference, offered' = offered, resolvedModel' = resolvedModel,
         why = "refused" /\ ~turn[t].disturbed => offered = {}
  PROVE  AnswersIInv'
<1>1. PICK moved : moved = turn[t].disturbed
  OBVIOUS
<1>2. moved \in BOOLEAN
  BY <1>1 DEF AnswersIInv, TurnKeeps, TurnRecords
<1>3. PICK x : x = [Quiet EXCEPT !.pc = why, !.disturbed = moved]
  OBVIOUS
<1>4. turn' = [turn EXCEPT ![t] = x] /\ Show(t, Failed) /\ session' = session
  BY <1>1, <1>3 DEF Refuse
<1>5. TurnKeeps(x) /\ ModelKnown(x)
  BY <1>1, <1>2, <1>3, QuietKeeps
<1>6. /\ turn' = [u \in Turns |-> turn'[u]]
      /\ \A u \in Turns : u # t => turn'[u] = turn[u]
      /\ (\A u \in Turns : TurnKeeps(turn[u]))' /\ (\A u \in Turns : ModelKnown(turn[u]))'
  BY <1>4, <1>5, OneTurn
<1>7. BoxOK'
  BY <1>4, <1>6, ShowKeeps
<1>8. SessionKeeps'
  BY <1>4 DEF AnswersIInv, SessionKeeps, SpokeIn, Latest, Telling, Kept, Paired, Answered
<1>9. ModelsOK'
  BY <1>6 DEF AnswersIInv, ModelsOK
<1> QED
  BY <1>6, <1>7, <1>8, <1>9 DEF AnswersIInv

(* A turn goes on with another model, or to look for one.                  *)
LEMMA TurnGoesOn ==
  ASSUME AnswersIInv, NEW t \in Turns, turn[t].pc \in {"posted", "discovering"},
         NEW pc \in {"discovering", "retrying"}, NEW model \in Nat \cup {NoModel},
         turn' = [turn EXCEPT ![t].pc = pc, ![t].model = model],
         turn[t].disturbed \/ (pc = "discovering" /\ model \notin offered)
           \/ (pc = "retrying" /\ model \in offered),
         UNCHANGED <<box, awaited, session, preference, resolvedModel, offered>>
  PROVE  AnswersIInv'
<1>1. PICK x : x = [turn[t] EXCEPT !.pc = pc, !.model = model]
  OBVIOUS
<1>2. turn = [u \in Turns |-> turn[u]] /\ turn[t] \in TurnRecords
  BY DEF AnswersIInv, TurnKeeps
<1>3. turn' = [turn EXCEPT ![t] = x]
  BY <1>1, <1>2
<1>4. /\ x \in TurnRecords /\ x.pc = pc /\ x.model = model /\ x.disturbed = turn[t].disturbed
      /\ x.history = turn[t].history /\ x.question = turn[t].question
      /\ x.language = turn[t].language
  BY <1>1, <1>2 DEF TurnRecords, PCsOfTurns
<1>5. TurnKeeps(x)
  BY <1>4 DEF AnswersIInv, TurnKeeps
<1>6. ModelKnown(x)
  BY <1>4 DEF ModelKnown
<1>7. /\ turn' = [u \in Turns |-> turn'[u]] /\ turn'[t] = x
      /\ \A u \in Turns : u # t => turn'[u] = turn[u]
      /\ (\A u \in Turns : TurnKeeps(turn[u]))' /\ (\A u \in Turns : ModelKnown(turn[u]))'
  BY <1>3, <1>5, <1>6, OneTurn
<1>8. BoxOK'
  <2>1. awaited # NoModel => /\ turn'[awaited].pc \in {"posted", "discovering", "retrying"}
                             /\ turn'[awaited].question = turn[awaited].question
    BY <1>4, <1>7 DEF AnswersIInv, BoxOK
  <2> QED
    BY <2>1 DEF AnswersIInv, BoxOK, Paired, Answered, Says
<1>9. SessionKeeps'
  BY DEF AnswersIInv, SessionKeeps, SpokeIn, Latest, Telling, Kept, Paired, Answered
<1>10. ModelsOK'
  BY <1>7 DEF AnswersIInv, ModelsOK
<1> QED
  BY <1>7, <1>8, <1>9, <1>10 DEF AnswersIInv

(* The model picked is one of those offered, if any is.                    *)
LEMMA PickIs ==
  ASSUME offered \subseteq Models
  PROVE  IF offered = {} THEN Pick = NoModel ELSE Pick \in offered /\ Pick # NoModel /\ Pick \in Nat
<1> DEFINE best == IF offered \cap Flash # {} THEN offered \cap Flash
                   ELSE IF offered \cap Pro # {} THEN offered \cap Pro ELSE offered
<1>1. best \subseteq offered /\ (best = {} <=> offered = {})
  OBVIOUS
<1>2. Pick = IF best = {} THEN NoModel ELSE CHOOSE m \in best : \A n \in best : m <= n
  BY DEF Pick
<1>3. offered \subseteq Nat /\ NoModel \notin Nat
  BY ChatAssumption
<1> HIDE DEF best
<1>4. ASSUME best # {} PROVE Pick \in best
  <2>1. \E m \in best : \A n \in best : m <= n
    BY <1>1, <1>3, <1>4, LeastOf
  <2> QED
    BY <1>2, <1>4, <2>1
<1> QED
  BY <1>1, <1>2, <1>3, <1>4

LEMMA GenerateKeeps ==
  ASSUME AnswersIInv, NEW t \in Turns, Generate(t)
  PROVE  AnswersIInv'
<1>1. turn[t].pc = "posted" /\ UNCHANGED <<preference, resolvedModel, offered>>
  BY DEF Generate
<1>2. resolvedModel' \in Nat \cup {NoModel} /\ turn[t] \in TurnRecords
  BY <1>1 DEF AnswersIInv, ModelsOK, TurnKeeps
<1>3. CASE turn[t].model \in offered
  BY <1>1, <1>2, <1>3, ReplyKeeps DEF Generate
<1>4. CASE turn[t].model \notin offered
  <2>1. /\ turn' = [turn EXCEPT ![t].pc = "discovering"]
        /\ UNCHANGED <<box, awaited, session>>
    BY <1>4 DEF Generate
  <2>2. [turn[t] EXCEPT !.pc = "discovering"]
          = [turn[t] EXCEPT !.pc = "discovering", !.model = turn[t].model]
    BY <1>2 DEF TurnRecords
  <2>3. turn = [u \in Turns |-> turn[u]]
    BY DEF AnswersIInv
  <2>4. turn' = [turn EXCEPT ![t].pc = "discovering", ![t].model = turn[t].model]
    BY <2>1, <2>2, <2>3
  <2>5. turn[t].model \in Nat \cup {NoModel}
    BY <1>2 DEF TurnRecords
  <2> QED
    BY <1>1, <1>4, <2>1, <2>4, <2>5, TurnGoesOn
<1> QED
  BY <1>3, <1>4

LEMMA DiscoverKeeps ==
  ASSUME AnswersIInv, NEW t \in Turns, Discover(t)
  PROVE  AnswersIInv'
<1>1. turn[t].pc = "discovering" /\ UNCHANGED <<preference, resolvedModel, offered>>
  BY DEF Discover
<1>2. /\ IF offered = {} THEN Pick = NoModel ELSE Pick \in offered /\ Pick # NoModel /\ Pick \in Nat
      /\ ModelKnown(turn[t])
  BY PickIs DEF AnswersIInv, ModelsOK
<1>3. CASE Pick # NoModel /\ Pick # turn[t].model
  <2>1. /\ turn' = [turn EXCEPT ![t].pc = "retrying", ![t].model = Pick]
        /\ UNCHANGED <<box, awaited, session>>
    BY <1>3 DEF Discover
  <2>2. Pick \in Nat \cup {NoModel} /\ Pick \in offered
    BY <1>2, <1>3
  <2> QED
    BY <1>1, <2>1, <2>2, TurnGoesOn
<1>4. CASE ~(Pick # NoModel /\ Pick # turn[t].model)
  <2>1. Refuse(t, "refused")
    BY <1>4 DEF Discover
  <2>2. ~turn[t].disturbed => offered = {}
    BY <1>1, <1>2, <1>4 DEF ModelKnown
  <2> QED
    BY <1>1, <2>1, <2>2, RefuseKeeps
<1> QED
  BY <1>3, <1>4

LEMMA GenerateAgainKeeps ==
  ASSUME AnswersIInv, NEW t \in Turns, GenerateAgain(t)
  PROVE  AnswersIInv'
<1>1. turn[t].pc = "retrying" /\ UNCHANGED <<preference, offered>>
  BY DEF GenerateAgain
<1>2. turn[t].model \in Nat \cup {NoModel} /\ ModelKnown(turn[t])
  BY DEF AnswersIInv, ModelsOK, TurnKeeps, TurnRecords
<1>3. CASE turn[t].model \in offered
  <2>1. Reply(t) /\ resolvedModel' \in Nat \cup {NoModel}
    BY <1>2, <1>3 DEF GenerateAgain
  <2> QED
    BY <1>1, <2>1, ReplyKeeps
<1>4. CASE turn[t].model \notin offered
  <2>1. Refuse(t, "refused") /\ resolvedModel' = resolvedModel
    BY <1>4 DEF GenerateAgain
  <2>2. turn[t].disturbed
    BY <1>1, <1>2, <1>4 DEF ModelKnown
  <2> QED
    BY <1>1, <2>1, <2>2, RefuseKeeps
<1> QED
  BY <1>3, <1>4

(* A turn that was refused or failed is not one the box waits for.         *)
LEMMA SettledKeeps ==
  ASSUME AnswersIInv, NEW t \in Turns, Settled(t)
  PROVE  AnswersIInv'
<1>1. /\ turn[t].pc \in {"refused", "failed"} /\ turn' = [turn EXCEPT ![t] = Quiet]
      /\ UNCHANGED <<box, awaited, session, preference, resolvedModel, offered>>
  BY DEF Settled
<1>2. /\ turn' = [u \in Turns |-> turn'[u]]
      /\ \A u \in Turns : u # t => turn'[u] = turn[u]
      /\ (\A u \in Turns : TurnKeeps(turn[u]))' /\ (\A u \in Turns : ModelKnown(turn[u]))'
  BY <1>1, QuietKeeps, OneTurn
<1>3. BoxOK'
  <2>1. awaited # t
    BY <1>1, ChatAssumption DEF AnswersIInv, BoxOK
  <2>2. awaited # NoModel => turn'[awaited] = turn[awaited]
    BY <1>2, <2>1 DEF AnswersIInv, BoxOK
  <2> QED
    BY <1>1, <2>2 DEF AnswersIInv, BoxOK, Paired, Answered, Says
<1>4. SessionKeeps'
  BY <1>1 DEF AnswersIInv, SessionKeeps, SpokeIn, Latest, Telling, Kept, Paired, Answered
<1>5. ModelsOK'
  BY <1>1, <1>2 DEF AnswersIInv, ModelsOK
<1> QED
  BY <1>1, <1>2, <1>3, <1>4, <1>5 DEF AnswersIInv

(* When the box gives up, an error answers its last question.              *)
LEMMA TimesOutKeeps == ASSUME AnswersIInv, TimesOut PROVE AnswersIInv'
<1>1. /\ awaited # NoModel /\ box' = LastOf(Append(box, Failed), MaxMessages) /\ awaited' = NoModel
      /\ UNCHANGED <<session, preference, turn, resolvedModel, offered>>
  BY DEF TimesOut
<1>2. awaited \in Turns
  BY <1>1 DEF AnswersIInv, BoxOK
<1>3. Show(awaited, Failed)
  BY <1>1 DEF Show
<1>4. BoxOK'
  BY <1>1, <1>2, <1>3, ShowKeeps
<1>5. (\A t \in Turns : TurnKeeps(turn[t]))' /\ SessionKeeps' /\ ModelsOK'
  BY <1>1 DEF AnswersIInv, TurnKeeps, InLanguage, SessionKeeps, ModelsOK, ModelKnown, SpokeIn,
              Latest, Telling, Kept, Paired, Answered
<1> QED
  BY <1>1, <1>4, <1>5 DEF AnswersIInv

LEMMA ExpiryKeeps == ASSUME AnswersIInv, cleanupExpiredSessions PROVE AnswersIInv'
<1>1. session' = NoMemory /\ UNCHANGED <<box, awaited, preference, turn, resolvedModel, offered>>
  BY DEF cleanupExpiredSessions
<1>2. SessionKeeps'
  BY <1>1 DEF SessionKeeps
<1>3. BoxOK' /\ (\A t \in Turns : TurnKeeps(turn[t]))' /\ ModelsOK'
  BY <1>1 DEF AnswersIInv, BoxOK, Says, TurnKeeps, InLanguage, ModelsOK, ModelKnown, SpokeIn,
              Latest, Telling, Kept, Paired, Answered
<1> QED
  BY <1>1, <1>2, <1>3 DEF AnswersIInv

(* When the offer changes, nothing is claimed of the turns being served.   *)
LEMMA ModelsChangeKeeps == ASSUME AnswersIInv, ModelsChange PROVE AnswersIInv'
<1>1. /\ offered' \subseteq Models
      /\ turn' = [t \in Turns |-> [turn[t] EXCEPT !.disturbed = turn[t].pc # "free"]]
      /\ UNCHANGED <<box, awaited, session, preference, resolvedModel>>
  BY DEF ModelsChange
<1>2. ASSUME NEW t \in Turns
      PROVE  /\ turn'[t] \in TurnRecords /\ turn'[t].pc = turn[t].pc
             /\ turn'[t].disturbed = (turn[t].pc # "free")
             /\ turn'[t].history = turn[t].history /\ turn'[t].question = turn[t].question
             /\ turn'[t].language = turn[t].language
  <2>1. turn[t] \in TurnRecords
    BY DEF AnswersIInv, TurnKeeps
  <2>2. turn'[t] = [turn[t] EXCEPT !.disturbed = turn[t].pc # "free"]
    BY <1>1
  <2> QED
    BY <2>1, <2>2 DEF TurnRecords
<1>3. (\A t \in Turns : TurnKeeps(turn[t]))'
  <2>1. ASSUME NEW t \in Turns PROVE TurnKeeps(turn'[t])
    <3>1. TurnKeeps(turn[t])
      BY DEF AnswersIInv
    <3> QED
      BY <1>2, <3>1 DEF TurnKeeps
  <2>2. preference' = preference
    BY <1>1
  <2> QED
    BY <2>1, <2>2 DEF TurnKeeps, InLanguage
<1>4. ModelsOK'
  BY <1>1, <1>2 DEF AnswersIInv, ModelsOK, ModelKnown
<1>5. BoxOK'
  BY <1>1, <1>2 DEF AnswersIInv, BoxOK, Says, Paired, Answered
<1>6. SessionKeeps'
  BY <1>1 DEF AnswersIInv, SessionKeeps, SpokeIn, Latest, Telling, Kept, Paired, Answered
<1>7. turn' = [t \in Turns |-> turn'[t]]
  BY <1>1
<1> QED
  BY <1>1, <1>3, <1>4, <1>5, <1>6, <1>7 DEF AnswersIInv

LEMMA AnswersStart == AnswersInit => AnswersIInv
<1> SUFFICES ASSUME AnswersInit PROVE AnswersIInv
  OBVIOUS
<1>1. TurnKeeps(Quiet) /\ ModelKnown(Quiet)
  <2>1. <<>> \in Seq(Messages) /\ Kept(<<>>) /\ \A language : SpokeIn(<<>>, language)
    BY DEF Kept, Paired, Answered, SpokeIn
  <2>2. Quiet \in TurnRecords
    BY <2>1 DEF Quiet, TurnRecords, PCsOfTurns, Texts, Questions
  <2>3. Quiet.history = <<>> /\ Quiet.question = "short" /\ Quiet.pc = "free"
    BY DEF Quiet
  <2> QED
    BY <2>1, <2>2, <2>3 DEF TurnKeeps, ModelKnown, InLanguage
<1>2. turn = [t \in Turns |-> turn[t]] /\ \A t \in Turns : turn[t] = Quiet
  BY DEF AnswersInit
<1>3. BoxOK
  BY DEF AnswersInit, BoxOK, Paired, Answered
<1>4. SessionKeeps
  BY DEF AnswersInit, SessionKeeps
<1>5. ModelsOK
  BY <1>1, <1>2 DEF AnswersInit, ModelsOK
<1> QED
  BY <1>1, <1>2, <1>3, <1>4, <1>5 DEF AnswersInit, AnswersIInv

LEMMA AnswersStep == AnswersIInv /\ [AnswersNext]_answerVars => AnswersIInv'
<1> SUFFICES ASSUME AnswersIInv, [AnswersNext]_answerVars PROVE AnswersIInv'
  OBVIOUS
<1>1. CASE TimesOut
  BY <1>1, TimesOutKeeps
<1>2. CASE cleanupExpiredSessions
  BY <1>2, ExpiryKeeps
<1>3. CASE ModelsChange
  BY <1>3, ModelsChangeKeeps
<1>4. ASSUME NEW t \in Turns, Generate(t) PROVE AnswersIInv'
  BY <1>4, GenerateKeeps
<1>5. ASSUME NEW t \in Turns, Discover(t) PROVE AnswersIInv'
  BY <1>5, DiscoverKeeps
<1>6. ASSUME NEW t \in Turns, GenerateAgain(t) PROVE AnswersIInv'
  BY <1>6, GenerateAgainKeeps
<1>7. ASSUME NEW t \in Turns, ProviderFails(t) PROVE AnswersIInv'
  <2>1. Refuse(t, "failed") /\ UNCHANGED <<preference, resolvedModel, offered>>
    BY <1>7 DEF ProviderFails
  <2> QED
    BY <2>1, RefuseKeeps
<1>8. ASSUME NEW t \in Turns, Settled(t) PROVE AnswersIInv'
  BY <1>8, SettledKeeps
<1>9. ASSUME NEW t \in Turns, NEW q \in Questions, SendMessage(t, q) PROVE AnswersIInv'
  BY <1>9, SendKeeps
<1>10. CASE UNCHANGED answerVars
  <2>1. UNCHANGED <<box, awaited, session, preference, turn, resolvedModel, offered>>
    BY <1>10 DEF answerVars
  <2>2. BoxOK' /\ SessionKeeps'
    BY <2>1 DEF AnswersIInv, BoxOK, Says, SessionKeeps, SpokeIn, Latest, Telling, Kept, Paired,
                Answered
  <2>3. (\A t \in Turns : TurnKeeps(turn[t]))' /\ ModelsOK'
    BY <2>1 DEF AnswersIInv, TurnKeeps, InLanguage, ModelsOK, ModelKnown, SpokeIn, Latest, Telling,
                Kept, Paired, Answered
  <2> QED
    BY <2>1, <2>2, <2>3 DEF AnswersIInv
<1> QED
  BY <1>1, <1>2, <1>3, <1>4, <1>5, <1>6, <1>7, <1>8, <1>9, <1>10 DEF AnswersNext

(* What is kept shows a consistent session, and models that heal.          *)
LEMMA AnswersShow == AnswersIInv => SessionConsistent /\ ModelHeals
<1> SUFFICES ASSUME AnswersIInv PROVE SessionConsistent /\ ModelHeals
  OBVIOUS
<1>1. session # NoMemory => Kept(session.history)
        /\ (preference = "AUTO" => SpokeIn(session.history, session.language))
  BY DEF AnswersIInv, SessionKeeps
<1>2. session # NoMemory /\ preference = "AUTO"
        => LastShown(session.history) \in {"none", session.language}
  BY <1>1, SpokeInShows DEF Kept
<1>3. \A t \in Turns : Paired(turn[t].history)
  BY DEF AnswersIInv, TurnKeeps, Kept
<1>4. ModelHeals
  BY DEF ModelHeals, AnswersIInv, ModelsOK, ModelKnown
<1> QED
  BY <1>1, <1>2, <1>3, <1>4 DEF SessionConsistent, Kept

(* The assistant runs the tools the person who asks may use and suggests   *)
(* the routes they may open, but for those that go with a topic, its       *)
(* tools tell numbers that agree, it answers in the language last shown    *)
(* from a history of questions with their own answers, and it refuses no   *)
(* one for a model that has gone while another is offered: for any         *)
(* bookings, models, histories, turns and caps.                            *)
THEOREM ChatHolds == AnswersSpec => []ChatInv
<1>1. ToolsInit /\ AnswersInit => ToolsInit /\ AnswersIInv
  BY AnswersStart
<1>2. /\ ToolsInit /\ AnswersIInv
      /\ [AnswersNext /\ UNCHANGED toolVars]_<<toolVars, answerVars>>
      => ToolsInit' /\ AnswersIInv'
  <2> SUFFICES ASSUME ToolsInit, AnswersIInv,
                      [AnswersNext /\ UNCHANGED toolVars]_<<toolVars, answerVars>>
               PROVE  ToolsInit' /\ AnswersIInv'
    OBVIOUS
  <2>1. UNCHANGED toolVars /\ [AnswersNext]_answerVars
    OBVIOUS
  <2>2. ToolsInit'
    BY <2>1 DEF toolVars, ToolsInit
  <2> QED
    BY <2>1, <2>2, AnswersStep
<1>3. ToolsInit /\ AnswersIInv => ChatInv
  BY AnswersShow, ToolsDoAccept, CountsDoAgree DEF ChatInv
<1> QED
  BY <1>1, <1>2, <1>3, PTL DEF AnswersSpec
=============================================================================
