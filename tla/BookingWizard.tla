----------------------------- MODULE BookingWizard -----------------------------
(***************************************************************************)
(* The booking form (app/users/bookings/new).  Its steps, the guards of    *)
(* Next and Confirm, the answers that arrive while it is filled in (prices,*)
(* categories, the latest booking, the coordinates of an address, the      *)
(* position of the device), the assistant's draft, and the submission.     *)
(* An item is chosen by the id of the price it was listed with: "priced"   *)
(* for a price of the list, "new" for the one made up for a category that  *)
(* no price has arrived for.                                               *)
(***************************************************************************)
EXTENDS BookingAssistant, Sequences

CONSTANTS Priced,      \* categories that have a price
          Edited,      \* details the person edits by hand
          Offered,     \* ranges of weights the person may choose
          MaxBookings  \* bound on the submissions that book or may still book

ASSUME WizardAssumption ==
  /\ Priced \subseteq Categories /\ Edited \subseteq Details
  /\ Offered \subseteq 1..5 /\ MaxBookings \in Nat

VARIABLES pricing,  \* the query for the prices
          listing,  \* the query for the categories has been answered
          asked,    \* what else has been asked for and not been answered
          draft,    \* the assistant's draft, read when the page was mounted,
                    \* until it has been applied
          items,    \* the selected items
          weight,   \* the range of weights, 0 when none is chosen
          details,  \* the details that are filled in
          phoneOk,  \* the phone number, if any, is one of Sri Lanka
          located,  \* the location is said to have been picked
          pin,      \* where it comes from
          terms,    \* the terms are accepted
          step,     \* the step shown
          submit,   \* the submission
          order,    \* what it submits, read when Confirm was pressed
          made,     \* how many times the server booked
          unanswered, \* submissions given up that the server may still book
          leaving   \* the browser was told to leave the page

(* Observed.                                                               *)
VARIABLES ticked,   \* the person confirmed the default location by hand
          late,     \* prices arrived when items were selected already
          gaveUp,   \* a submission failed that may have booked, or may still
          again     \* Confirm was pressed again after that, or while leaving

queryVars == <<pricing, listing, asked, draft, prefill>>
itemVars == <<items, weight>>
detailVars == <<details, phoneOk, located, pin, terms, ticked>>
submitVars == <<submit, order, made, unanswered, leaving, gaveUp, again>>
formVars == <<pricing, listing, asked, draft, itemVars, detailVars, step, submitVars,
              late>>

PaperSteps == <<"category", "weight", "details", "time", "confirm">>
OtherSteps == <<"category", "details", "time", "confirm">>

IsPaperCategory == \E i \in items : i.category \in PaperCategories
Steps == IF IsPaperCategory THEN PaperSteps ELSE OtherSteps
StepOf(name) == CHOOSE n \in DOMAIN Steps : Steps[n] = name
At(name) == step \in DOMAIN Steps /\ Steps[step] = name

NoOrder == [items |-> {}, details |-> {}, phoneOk |-> FALSE, located |-> FALSE,
            pin |-> "default", ticked |-> FALSE, terms |-> FALSE]

(* The list of prices the page shows, and the id of a category in it.      *)
CombinedPricing ==
  {[category |-> c, id |-> "priced"] : c \in IF pricing = "loaded" THEN Priced ELSE {}}
    \cup {[category |-> c, id |-> "new"] :
            c \in IF ~listing THEN {}
                  ELSE IF pricing = "loaded" THEN Categories \ Priced ELSE Categories}

Chosen(p) == \E i \in items : i.category = p.category /\ i.id = p.id
ItemFor(p, kg) == [category |-> p.category, id |-> p.id, kg |-> kg]

(* Effects run before the person can act, and nothing is shown before the  *)
(* query for the prices has ended.                                         *)
DueAtOnce == draft # None

DraftDue == draft # None /\ CombinedPricing # {}
Ready == ~DraftDue /\ pricing # "loading"

-----------------------------------------------------------------------------
(* Answers.                                                                *)

(* Three retries have failed; the query starts over when the network is    *)
(* back.                                                                   *)
PricingAnswered(result) ==
  /\ ~DraftDue
  /\ pricing \in {"loading", "failed"} /\ result \in {"failed", "loaded"}
  /\ pricing # result
  /\ pricing' = result
  /\ late' = (late \/ (result = "loaded" /\ items # {}))
  /\ UNCHANGED <<listing, asked, draft, itemVars, detailVars, step, submitVars, prefill>>

CategoriesAnswered ==
  /\ ~DraftDue /\ ~listing
  /\ listing' = TRUE
  /\ UNCHANGED <<pricing, asked, draft, itemVars, detailVars, step, submitVars, late,
                 prefill>>

(* The address of the latest booking goes where nothing has been entered.  *)
LatestAnswered ==
  /\ ~DraftDue /\ "latest" \in asked
  /\ asked' = asked \ {"latest"}
  /\ details' = details \cup AddressFields
  /\ UNCHANGED <<pricing, listing, draft, itemVars, phoneOk, located, pin, terms, ticked,
                 step, submitVars, late, prefill>>

(* The coordinates of the draft's address, or the device's position; there *)
(* may be none.                                                            *)
LocationAnswered(what, found) ==
  /\ ~DraftDue /\ what \in asked \cap {"geocode", "position"}
  /\ asked' = asked \ {what}
  /\ IF found THEN pin' = what /\ located' = TRUE /\ ticked' = FALSE
              ELSE UNCHANGED <<pin, located, ticked>>
  /\ UNCHANGED <<pricing, listing, draft, itemVars, details, phoneOk, terms, step, submitVars,
                 late, prefill>>

(* The draft goes over what is there, once, as soon as the list has any    *)
(* price or category; the page turns to the first step it leaves open,     *)
(* which is the location at the latest, since a draft has none.  Its phone *)
(* number need not be one of Sri Lanka.                                    *)
ApplyDraft(valid) ==
  LET matched == {p \in CombinedPricing : p.category = draft.category}
      byRange == draft.category \in PaperCategories
  IN /\ DraftDue
     /\ items' = IF matched = {} THEN items ELSE {ItemFor(p, draft.kg) : p \in matched}
     /\ weight' = IF byRange /\ draft.range # 0 THEN draft.range ELSE weight
     /\ details' = details \cup draft.filled
     /\ phoneOk' = valid
     /\ located' = FALSE
     /\ asked' = asked \cup {"geocode"}
     /\ step' = IF matched = {} THEN 1
                ELSE IF byRange /\ draft.range # 0 THEN 3 ELSE 2
     /\ draft' = None /\ prefill' = None
     /\ UNCHANGED <<pricing, listing, pin, terms, ticked, submitVars, late>>

-----------------------------------------------------------------------------
(* The person fills in the form.                                           *)

ToggleSelection(p) ==
  /\ Ready /\ At("category") /\ p \in CombinedPricing
  /\ items' = IF Chosen(p) THEN {i \in items : ~(i.category = p.category /\ i.id = p.id)}
              ELSE items \cup {ItemFor(p, 1)}
  /\ UNCHANGED <<queryVars, weight, detailVars, step, submitVars, late>>

(* Images added to a category select it; removing them changes no item.    *)
AddImages(p) ==
  /\ Ready /\ At("category") /\ p \in CombinedPricing /\ ~Chosen(p)
  /\ items' = items \cup {ItemFor(p, 1)}
  /\ UNCHANGED <<queryVars, weight, detailVars, step, submitVars, late>>

ChooseWeight(range) ==
  /\ Ready /\ At("weight")
  /\ weight' = range
  /\ UNCHANGED <<queryVars, items, detailVars, step, submitVars, late>>

Editable == IF At("details") THEN AddressFields \cup {"phone"}
            ELSE IF At("time") THEN TimeFields ELSE {}

(* A field is filled in or cleared; a time slot cannot be cleared.         *)
EditDetail(f, valid) ==
  /\ Ready /\ f \in Edited \cap Editable
  /\ details' = IF f \notin details THEN details \cup {f}
                ELSE IF f = "scheduledTimeSlot" THEN details ELSE details \ {f}
  /\ phoneOk' = IF f = "phone" THEN valid ELSE phoneOk
  /\ UNCHANGED <<queryVars, itemVars, located, pin, terms, ticked, step, submitVars, late>>

(* A click on the map is answered at once, the question for the position   *)
(* of the device within ten seconds, on whatever step the page then shows. *)
AskForPosition ==
  /\ Ready /\ At("details")
  /\ asked' = asked \cup {"position"}
  /\ UNCHANGED <<pricing, listing, draft, prefill, itemVars, detailVars, step, submitVars,
                 late>>

TickLocated ==
  /\ Ready /\ At("details")
  /\ located' = ~located
  /\ ticked' = (ticked \/ (~located /\ pin = "default"))
  /\ UNCHANGED <<queryVars, itemVars, details, phoneOk, pin, terms, step, submitVars, late>>

TickTerms ==
  /\ Ready /\ At("confirm")
  /\ terms' = ~terms
  /\ UNCHANGED <<queryVars, itemVars, details, phoneOk, located, pin, ticked, step, submitVars,
                 late>>

(* What Next asks for before it leaves a step.                             *)
StepDone ==
  /\ step = 1 => items # {}
  /\ At("weight") => weight # 0
  /\ At("details") => AddressFields \cup {"phone"} \subseteq details /\ located
  /\ At("time") => TimeFields \subseteq details

NextStep ==
  /\ Ready /\ step < Len(Steps) /\ StepDone
  /\ step' = step + 1
  /\ UNCHANGED <<queryVars, itemVars, detailVars, submitVars, late>>

Back ==
  /\ Ready /\ step > 1
  /\ step' = step - 1
  /\ UNCHANGED <<queryVars, itemVars, detailVars, submitVars, late>>

-----------------------------------------------------------------------------
(* The submission works on what the form held when Confirm was pressed.    *)

OrderedItems ==
  {[category |-> i.category, id |-> i.id,
    kg |-> IF IsPaperCategory THEN WeightRanges[weight].min ELSE i.kg] : i \in items}

ConfirmAnyTime ==
  /\ Ready /\ At("confirm")
  /\ items # {} /\ (IsPaperCategory => weight # 0)
  /\ Details \subseteq details /\ phoneOk /\ located /\ terms
  /\ submit' = "uploading"
  /\ order' = [items |-> OrderedItems, details |-> details, phoneOk |-> phoneOk,
               located |-> located, pin |-> pin, ticked |-> ticked, terms |-> terms]
  /\ again' = (again \/ leaving \/ gaveUp)
  /\ UNCHANGED <<queryVars, itemVars, detailVars, step, made, unanswered, leaving, gaveUp, late>>

Confirm ==
  /\ Ready /\ At("confirm") /\ submit = "idle"
  /\ items # {} /\ (IsPaperCategory => weight # 0)
  /\ Details \subseteq details /\ phoneOk /\ located /\ terms
  /\ submit' = "uploading"
  /\ order' = [items |-> OrderedItems, details |-> details, phoneOk |-> phoneOk,
               located |-> located, pin |-> pin, ticked |-> ticked, terms |-> terms]
  /\ again' = (again \/ leaving \/ gaveUp)
  /\ UNCHANGED <<queryVars, itemVars, detailVars, step, made, unanswered, leaving, gaveUp, late>>

EndSubmit == submit' = "idle" /\ order' = NoOrder

UploadEnded(ok) ==
  /\ submit = "uploading"
  /\ IF ok THEN submit' = "posting" /\ UNCHANGED order ELSE EndSubmit
  /\ UNCHANGED <<queryVars, itemVars, detailVars, step, made, unanswered, leaving, gaveUp,
                 again, late>>

Booked ==
  /\ submit = "posting" /\ made + unanswered < MaxBookings
  /\ submit' = "booked"
  /\ made' = made + 1
  /\ UNCHANGED <<queryVars, itemVars, detailVars, step, order, unanswered, leaving, gaveUp,
                 again, late>>

(* What the page no longer waits for runs on at the server.                *)
BookedLate ==
  /\ unanswered > 0
  /\ made' = made + 1 /\ unanswered' = unanswered - 1
  /\ UNCHANGED <<queryVars, itemVars, detailVars, step, submit, order, leaving, gaveUp, again,
                 late>>

(* The page is told to leave and the button is enabled again.              *)
PostAnswered ==
  /\ submit = "booked"
  /\ EndSubmit
  /\ leaving' = TRUE
  /\ UNCHANGED <<queryVars, itemVars, detailVars, step, made, unanswered, gaveUp, again, late>>

(* Refused before anything is booked: the fields or the session.           *)
PostRefused ==
  /\ submit = "posting"
  /\ EndSubmit
  /\ UNCHANGED <<queryVars, itemVars, detailVars, step, made, unanswered, leaving, gaveUp,
                 again, late>>

(* No answer within thirty seconds, or an error while the bookings of the  *)
(* order are made side by side: the person is told that it failed and may  *)
(* press Confirm again, though it has been booked or still will be.        *)
PostFailed ==
  /\ \/ submit = "booked" /\ UNCHANGED unanswered
     \/ /\ submit = "posting" /\ made + unanswered < MaxBookings
        /\ unanswered' = unanswered + 1
  /\ EndSubmit
  /\ gaveUp' = TRUE
  /\ UNCHANGED <<queryVars, itemVars, detailVars, step, made, leaving, again, late>>

-----------------------------------------------------------------------------

FormInit ==
  /\ pricing = "loading" /\ listing = FALSE
  /\ asked \in {{}, {"latest"}}
  /\ draft = prefill
  /\ items = {} /\ weight = 0
  /\ details \in {{"scheduledDate"}, {"scheduledDate", "phone"}}
  /\ phoneOk = TRUE
  /\ located = FALSE /\ pin = "default" /\ terms = FALSE
  /\ step = 1
  /\ submit = "idle" /\ order = NoOrder /\ made = 0 /\ leaving = FALSE
  /\ unanswered = 0 /\ gaveUp = FALSE
  /\ ticked = FALSE /\ late = FALSE /\ again = FALSE

Answered ==
  \/ \E result \in {"failed", "loaded"} : PricingAnswered(result)
  \/ CategoriesAnswered \/ LatestAnswered
  \/ \E valid \in BOOLEAN : ApplyDraft(valid)
  \/ \E what \in {"geocode", "position"}, found \in BOOLEAN : LocationAnswered(what, found)

Filled ==
  \/ \E p \in CombinedPricing : ToggleSelection(p) \/ AddImages(p)
  \/ \E range \in Offered : ChooseWeight(range)
  \/ \E f \in Edited, valid \in BOOLEAN : EditDetail(f, valid)
  \/ AskForPosition \/ TickLocated \/ TickTerms
  \/ NextStep \/ Back

Submitted ==
  \/ Confirm \/ Booked \/ BookedLate \/ PostAnswered \/ PostRefused \/ PostFailed
  \/ \E ok \in BOOLEAN : UploadEnded(ok)

FormNext == Answered \/ Filled \/ Submitted

FormSpec == FormInit /\ prefill \in {None} \cup Kept /\ [][FormNext]_<<formVars, prefill>>

-----------------------------------------------------------------------------

ItemValues == [category : Categories, id : {"priced", "new"}, kg : Nat \ {0}]

(* Type invariant.                                                         *)
FormTypeOK ==
  /\ pricing \in {"loading", "failed", "loaded"} /\ listing \in BOOLEAN
  /\ asked \subseteq {"latest", "geocode", "position"}
  /\ draft \in DraftValues \cup {None}
  /\ items \subseteq ItemValues /\ weight \in 0..5
  /\ details \subseteq Details /\ phoneOk \in BOOLEAN
  /\ located \in BOOLEAN /\ pin \in {"default", "geocode", "position"}
  /\ terms \in BOOLEAN /\ step \in 1..Len(Steps)
  /\ submit \in {"idle", "uploading", "posting", "booked"}
  /\ order.items \subseteq ItemValues /\ made \in 0..MaxBookings /\ leaving \in BOOLEAN
  /\ unanswered \in 0..MaxBookings /\ gaveUp \in BOOLEAN
  /\ ticked \in BOOLEAN /\ late \in BOOLEAN /\ again \in BOOLEAN

(* No step is shown before the steps on the way to it are complete, though *)
(* a draft turns the page to a later step and answers arrive at any time.  *)
ReachedInOrder ==
  LET past(name) == step > StepOf(name)
  IN /\ step > 1 => items # {}
     /\ IsPaperCategory /\ past("weight") => weight # 0
     /\ past("details") => AddressFields \cup {"phone"} \subseteq details /\ located
     /\ past("time") => TimeFields \subseteq details

(* What is submitted has a weight for each item and every required field,  *)
(* whatever is changed or arrives while it is under way, and a location    *)
(* that came from the map, the device or the geocoder unless the person    *)
(* ticked the box instead.                                                 *)
OrderIsComplete ==
  submit # "idle" =>
    /\ order.items # {} /\ \A i \in order.items : i.kg > 0
    /\ order.details = Details /\ order.phoneOk /\ order.located /\ order.terms
    /\ order.pin = "default" => order.ticked

(* No category is selected twice, unless its price arrived when it had     *)
(* been selected without one.                                              *)
OneItemPerCategory ==
  ~late => \A i, j \in items : i.category = j.category => i = j

(* One filled-in form books once, now and by what the server is still at,  *)
(* unless Confirm was pressed again after a submission of which the page   *)
(* did not learn that it had booked nothing, or before the browser had     *)
(* left the page.                                                          *)
BookedOnce == made + unanswered > 1 => again

(* What the steps, the selection and the order promise each other.         *)
FormInv == FormTypeOK /\ ReachedInOrder /\ OrderIsComplete /\ OneItemPerCategory /\ BookedOnce

(* The draft leaves sessionStorage only when it is in the form, with its   *)
(* category selected unless that is not in the list yet.                   *)
DraftReachesForm ==
  [][draft # None /\ prefill # None /\ prefill' = None =>
       /\ draft.filled \subseteq details'
       /\ \/ \E i \in items' : i.category = draft.category /\ i.kg = draft.kg
          \/ /\ pricing = "loaded" \/ listing
             /\ \A p \in CombinedPricing : p.category # draft.category
       /\ \A i \in items' : i.category \in PaperCategories => weight' # 0]_<<formVars, prefill>>
=============================================================================
