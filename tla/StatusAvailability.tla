-------------------------- MODULE StatusAvailability --------------------------
(***************************************************************************)
(* Which booking statuses the database knows: three fields of AdminService *)
(* that the first request fills while others already ask.                  *)
(***************************************************************************)
CONSTANTS Statuses, Asking

VARIABLES stored,  \* the statuses of the database's enumeration
          loaded,  \* bookingStatusAvailabilityLoaded
          known,   \* bookingStatusAvailabilityKnown
          have,    \* the statuses mapped to true
          asking,  \* asking[r]: "rest", "querying", or "answering"
          told,    \* some request was answered from the list (observed only)
          refused, \* statuses that were refused (observed only)
          doubted  \* a request was answered without the list after one with it (observed only)

statusVars == <<stored, loaded, known, have, asking, told, refused, doubted>>

StatusInit ==
  /\ stored \in SUBSET Statuses
  /\ loaded = FALSE /\ known = FALSE /\ have = {}
  /\ asking = [r \in Asking |-> "rest"]
  /\ told = FALSE /\ refused = {} /\ doubted = FALSE

(* loadBookingStatusAvailability up to its query: the flag comes first.    *)
(* Mutant: every request asks anew. *)
LoadAgain(r) ==
  /\ asking[r] = "rest"
  /\ asking' = [asking EXCEPT ![r] = "querying"] /\ have' = {}
  /\ loaded' = TRUE /\ known' = FALSE
  /\ UNCHANGED <<stored, told, refused, doubted>>

Load(r) ==
  /\ asking[r] = "rest"
  /\ IF loaded THEN asking' = [asking EXCEPT ![r] = "answering"] /\ UNCHANGED have
               ELSE asking' = [asking EXCEPT ![r] = "querying"] /\ have' = {}
  /\ loaded' = TRUE
  /\ UNCHANGED <<stored, known, told, refused, doubted>>

(* The query is answered; no rows, or a failure, leave everything unknown. *)
Loaded(r) ==
  /\ asking[r] = "querying"
  /\ asking' = [asking EXCEPT ![r] = "answering"]
  /\ \/ stored # {} /\ have' = have \cup stored /\ known' = TRUE
     \/ UNCHANGED <<have, known>>
  /\ UNCHANGED <<stored, loaded, told, refused, doubted>>

Answered(r) ==
  /\ asking[r] = "answering"
  /\ asking' = [asking EXCEPT ![r] = "rest"]
  /\ told' = (told \/ known) /\ doubted' = (doubted \/ (told /\ ~known))
  /\ UNCHANGED <<stored, loaded, known, have>>

(* isBookingStatusSupported, for a change to status s: unknown means yes.  *)
AskToSet(r, s) == Answered(r) /\ refused' = IF known /\ s \notin have THEN refused \cup {s} ELSE refused

(* The lists and counts, and the automatic ASSIGNED: unknown means the     *)
(* fallback. *)
AskForList(r) == Answered(r) /\ UNCHANGED refused

StatusNext ==
  \E r \in Asking : Load(r) \/ Loaded(r) \/ AskForList(r) \/ \E s \in Statuses : AskToSet(r, s)

StatusSpec == StatusInit /\ [][StatusNext]_statusVars

(* A status that the database has is never refused, however many requests  *)
(* ask for the first time side by side.                                    *)
NoFalseRefusal == refused \cap stored = {}

(* Once a request was answered from the database's list, no later one is   *)
(* answered by the fallback.                                               *)
AnswersSettle == ~doubted

(* The list read by the first request serves all that come later.          *)
StatusInv == NoFalseRefusal /\ AnswersSettle
=============================================================================
