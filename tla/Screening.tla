------------------------------- MODULE Screening -------------------------------
(***************************************************************************)
(* An order of several pickups: one row each, made side by side, a notice  *)
(* for each, and the check of its photos by a model, which nobody waits    *)
(* for and whose doubts are told to the administrators.                    *)
(***************************************************************************)
EXTENDS Naturals, FiniteSets

CONSTANTS Pickups,     \* 1 .. n: the items of the order
          PhotosOf,    \* PhotosOf[p]: the photos of the item and of the order
          Admins,
          Levels,      \* the confidences a model gives, in percent
          Unrated,     \* no number given
          AlertFrom    \* the least confidence of each verdict that alerts, above 100: none

ASSUME PickupsAssumption == IsFiniteSet(Pickups) /\ Pickups = 1 .. Cardinality(Pickups)

VARIABLES order,      \* "rest", "creating", "telling", "clearing", "ok", "error"
          booking,    \* booking[p]: "none", "going", "made", "failed"
          next,       \* the pickup whose category is read next
          confirmed,  \* pickups confirmed to the customer
          check,      \* check[p]: "rest", "looking", "clean", "asking", "noting", "given up"
          waiting,    \* waiting[p]: photos whose check has not ended
          suspicious, \* suspicious[p]: photos an administrator should see
          noticeOf,   \* noticeOf[p][a]: "none", "going", "kept", "failed"
          enabled,    \* BOOKING_IMAGE_VISION_ENABLED, and a key
          owed,       \* history: pickups with a photo that must be seen
          doubtful    \* history: pickups with a photo no answer vouches for

screenVars == <<order, booking, next, confirmed, check, waiting, suspicious, noticeOf, enabled, owed, doubtful>>

Verdicts == {"MATCHING_WASTE", "WASTE_BUT_DIFFERENT", "NON_WASTE", "UNCERTAIN"}

(* What a check comes to: nothing, for want of a photo or of a model; text *)
(* that is no JSON; or an answer: its verdict, if it is one of the four,   *)
(* its isWaste, whether its words name a thing that is no waste, and which *)
(* category of waste they name.                                            *)
Replies ==
  [kind : {"failed", "garbled"}] \cup
  [kind : {"answer"}, verdict : Verdicts \cup {"none"}, waste : {"yes", "no", "unsaid"},
   nonWaste : BOOLEAN, names : {"none", "expected", "other"}, confidence : Levels \cup {Unrated}]

IsWaste(r) == r.waste # "no" /\ (r.nonWaste => r.waste = "yes")

ParseVerdict(r) ==
  CASE r.verdict # "none" -> r.verdict
    [] r.verdict = "none" /\ IsWaste(r) -> "MATCHING_WASTE"
    [] r.verdict = "none" /\ ~IsWaste(r) -> IF r.nonWaste THEN "NON_WASTE" ELSE "UNCERTAIN"

(* The result of a photo: what parseGeminiResponse or the fallback gives.  *)
Result(r) ==
  IF r.kind # "answer"
  THEN [verdict |-> "UNCERTAIN", confidence |-> 0, nonWaste |-> FALSE,
        fallback |-> r.kind = "failed"]
  ELSE [verdict |-> IF ParseVerdict(r) = "MATCHING_WASTE" /\ r.names = "other"
                    THEN "WASTE_BUT_DIFFERENT" ELSE ParseVerdict(r),
        confidence |-> IF r.confidence = Unrated THEN 50 ELSE r.confidence,
        nonWaste |-> r.nonWaste, fallback |-> FALSE]

ShouldAlert(x) ==
  \/ x.fallback
  \/ x.verdict = "NON_WASTE" /\ x.nonWaste
  \/ x.verdict # "MATCHING_WASTE" /\ x.confidence >= AlertFrom[x.verdict]

(* What an answer is worth, whatever the code makes of it: it vouches for  *)
(* the photo, or leaves no doubt that someone must see it.                 *)
Vouches(r) ==
  /\ r.kind = "answer" /\ r.names # "other"
  /\ \/ r.verdict = "MATCHING_WASTE"
     \/ r.verdict = "none" /\ (r.waste = "yes" \/ (r.waste = "unsaid" /\ ~r.nonWaste))

MustBeSeen(r) ==
  \/ r.kind = "failed"
  \/ /\ r.kind = "answer" /\ ~Vouches(r)
     /\ r.confidence # Unrated /\ \A v \in Verdicts \ {"MATCHING_WASTE"} : r.confidence >= AlertFrom[v]
  \/ /\ r.kind = "answer" /\ r.nonWaste
     /\ r.verdict = "NON_WASTE" \/ (r.verdict = "none" /\ r.waste # "yes")

ScreenInit ==
  /\ order = "rest" /\ booking = [p \in Pickups |-> "none"]
  /\ next = 1 /\ confirmed = {}
  /\ check = [p \in Pickups |-> "rest"]
  /\ waiting = [p \in Pickups |-> {}] /\ suspicious = [p \in Pickups |-> {}]
  /\ noticeOf = [p \in Pickups |-> [a \in Admins |-> "none"]]
  /\ enabled \in BOOLEAN
  /\ owed = {} /\ doubtful = {}

checkVars == <<check, waiting, suspicious, noticeOf, enabled, owed, doubtful>>

Order ==
  /\ order = "rest" /\ order' = "creating"
  /\ booking' = [p \in Pickups |-> "going"]
  /\ UNCHANGED <<next, confirmed, checkVars>>

(* Promise.all: the order goes on when its last row is made, and fails     *)
(* with the first that is not; the others are made all the same.           *)
RowEnds(p, end) ==
  /\ booking[p] = "going" /\ booking' = [booking EXCEPT ![p] = end]
  /\ order' = CASE order = "creating" /\ end = "failed" -> "error"
                [] order = "creating" /\ \A q \in Pickups : booking'[q] = "made" -> "telling"
                [] OTHER -> order
  /\ UNCHANGED <<next, confirmed, checkVars>>

(* The category of one pickup is read, its notice sent and its check begun *)
(* without waiting for either.                                             *)
TellCustomer ==
  /\ order = "telling"
  /\ confirmed' = confirmed \cup {next} /\ next' = next + 1
  /\ order' = IF next = Cardinality(Pickups) THEN "clearing" ELSE order
  /\ waiting' = [waiting EXCEPT ![next] = PhotosOf[next]]
  /\ check' = [check EXCEPT ![next] = IF PhotosOf[next] = {} THEN "clean" ELSE "looking"]
  /\ UNCHANGED <<booking, suspicious, noticeOf, enabled, owed, doubtful>>

OrderFails ==
  /\ order \in {"telling", "clearing"} /\ order' = "error"
  /\ UNCHANGED <<booking, next, confirmed, checkVars>>

ClearCache ==
  /\ order = "clearing" /\ order' = "ok"
  /\ UNCHANGED <<booking, next, confirmed, checkVars>>

(* screenImage: nothing that happens to one photo stops the others.        *)
(* Mutant: a check that fails gives no result.                             *)
LookUnlessFailed(p, i, r) ==
  /\ i \in waiting[p] /\ waiting' = [waiting EXCEPT ![p] = @ \ {i}]
  /\ suspicious' = IF enabled /\ r.kind # "failed" /\ ShouldAlert(Result(r))
                   THEN [suspicious EXCEPT ![p] = @ \cup {i}] ELSE suspicious
  /\ owed' = IF enabled /\ MustBeSeen(r) THEN owed \cup {p} ELSE owed
  /\ doubtful' = IF enabled /\ ~Vouches(r) THEN doubtful \cup {p} ELSE doubtful
  /\ UNCHANGED <<order, booking, next, confirmed, check, noticeOf, enabled>>

Look(p, i, r) ==
  /\ i \in waiting[p] /\ waiting' = [waiting EXCEPT ![p] = @ \ {i}]
  /\ suspicious' = IF enabled /\ ShouldAlert(Result(r))
                   THEN [suspicious EXCEPT ![p] = @ \cup {i}] ELSE suspicious
  /\ owed' = IF enabled /\ MustBeSeen(r) THEN owed \cup {p} ELSE owed
  /\ doubtful' = IF enabled /\ ~Vouches(r) THEN doubtful \cup {p} ELSE doubtful
  /\ UNCHANGED <<order, booking, next, confirmed, check, noticeOf, enabled>>

Decide(p) ==
  /\ check[p] = "looking" /\ waiting[p] = {}
  /\ check' = [check EXCEPT ![p] = IF suspicious[p] = {} THEN "clean" ELSE "asking"]
  /\ UNCHANGED <<order, booking, next, confirmed, waiting, suspicious, noticeOf, enabled, owed, doubtful>>

FindAdmins(p) ==
  /\ check[p] = "asking"
  /\ check' = [check EXCEPT ![p] = "noting"]
  /\ noticeOf' = [noticeOf EXCEPT ![p] = [a \in Admins |-> "going"]]
  /\ UNCHANGED <<order, booking, next, confirmed, waiting, suspicious, enabled, owed, doubtful>>

(* Promise.allSettled.                                                     *)
NoteEnds(p, a, end) ==
  /\ noticeOf[p][a] = "going" /\ noticeOf' = [noticeOf EXCEPT ![p][a] = end]
  /\ UNCHANGED <<order, booking, next, confirmed, check, waiting, suspicious, enabled, owed, doubtful>>

(* The look-up of the administrators fails: logged, and nobody is told.    *)
GiveUpCheck(p) ==
  /\ check[p] = "asking" /\ check' = [check EXCEPT ![p] = "given up"]
  /\ UNCHANGED <<order, booking, next, confirmed, waiting, suspicious, noticeOf, enabled, owed, doubtful>>

ScreenNext ==
  \/ Order \/ TellCustomer \/ OrderFails \/ ClearCache
  \/ \E p \in Pickups :
       \/ RowEnds(p, "made") \/ RowEnds(p, "failed")
       \/ \E i \in PhotosOf[p], r \in Replies : Look(p, i, r)
       \/ Decide(p) \/ FindAdmins(p) \/ GiveUpCheck(p)
       \/ \E a \in Admins : NoteEnds(p, a, "kept") \/ NoteEnds(p, a, "failed")

ScreenSpec == ScreenInit /\ [][ScreenNext]_screenVars

(* What the customer is told of was booked, and an order that succeeds had *)
(* all of it told and checked. Once the photos of a pickup have been       *)
(* looked at, it passes only if none of them had to be seen, and nobody is *)
(* called for photos that are all vouched for.                             *)
ScreenInv ==
  /\ \A p \in confirmed : booking[p] = "made"
  /\ order = "ok" => confirmed = Pickups /\ \A p \in Pickups : check[p] # "rest"
  /\ \A p \in Pickups :
       /\ check[p] = "clean" => p \notin owed
       /\ check[p] \in {"asking", "noting", "given up"} => p \in doubtful
=============================================================================
