--------------------------- MODULE BookingAssistant ---------------------------
(***************************************************************************)
(* The booking conversation of the chat assistant.  ChatService.handleChat *)
(* reads the conversation's state from sessionMemory, awaits the waste     *)
(* types (or, outside a booking flow, the language model), and stores the  *)
(* state it computed from what it had read.  The chat box waits for one    *)
(* answer at a time but gives up after the time-out of apiFetch, while the *)
(* server goes on.  A message is what the parsers of the service find in   *)
(* it; a draft is what has been captured so far.                           *)
(***************************************************************************)
EXTENDS Naturals, FiniteSets

CONSTANTS Categories,      \* waste categories
          PaperCategories, \* those booked by a range of weights
          Messages,        \* what the person may write
          Requests,        \* slots for requests the server works on
          Kept,            \* drafts an earlier conversation of the tab may have left
          None             \* no value

ASSUME AssistantAssumption == PaperCategories \subseteq Categories /\ None \notin Categories

VARIABLES memory,  \* memory[k]: the flow stored under session key k
          request, \* request[r]: a POST /chat the server works on
          person,  \* who is signed in at the client
          waiting, \* the request whose answer the chat box waits for
          shown,   \* the field the last answer shown asked for
          prefill  \* the draft in sessionStorage, for the booking form

(* Observed: the conversation went on without a time-out, a forgotten      *)
(* session or an expired access token since the last question that was     *)
(* answered with nothing else under way.                                   *)
VARIABLES undisturbed, alone

memoryVars == <<memory, request>>
boxVars == <<person, waiting, shown, prefill, undisturbed, alone>>
assistantVars == <<memoryVars, boxVars>>

WeightRanges == <<[min |-> 1, max |-> 5], [min |-> 5, max |-> 10], [min |-> 10, max |-> 20],
                  [min |-> 20, max |-> 50], [min |-> 50, max |-> 80]>>

RangeOf(kg) ==
  LET fits == {i \in DOMAIN WeightRanges :
                 WeightRanges[i].min <= kg /\ kg <= WeightRanges[i].max}
  IN IF fits = {} THEN 5 ELSE CHOOSE i \in fits : \A j \in fits : i <= j

(* The labels "1-5 kg" and "5-10 kg" also match the day-month pattern.     *)
ReadsAsDate == {1, 2}

AddressFields == {"addressLine1", "city", "postalCode"}
TimeFields == {"scheduledDate", "scheduledTimeSlot"}
Details == AddressFields \cup TimeFields \cup {"phone"}

(* The order in which what is missing is asked for.                        *)
AskingOrder == <<"wasteCategory", "addressLine1", "city", "postalCode", "phone",
                 "scheduledDate", "scheduledTimeSlot">>
Questions == {AskingOrder[i] : i \in 1..7} \cup {"specialInstructions"}

Persons == {"customer", "staff", "nobody"}
Keys == {"customer", "staff", "guest"}
KeyOf(p) == IF p = "nobody" THEN "guest" ELSE p

EmptyDraft == [category |-> None, kg |-> 0, range |-> 0, filled |-> {}]

NoFlow == [active |-> FALSE, draft |-> EmptyDraft, awaiting |-> None, asked |-> FALSE]
Empty == [NoFlow EXCEPT !.active = TRUE]

Free == [pc |-> "free", key |-> "guest", message |-> None, state |-> NoFlow,
         asks |-> None, draft |-> None]

IsPaper(draft) == draft.category \in PaperCategories

Missing(draft) ==
  (Details \ draft.filled) \cup (IF draft.category = None THEN {"wasteCategory"} ELSE {})

FirstMissing(draft) ==
  LET i == CHOOSE i \in 1..7 : /\ AskingOrder[i] \in Missing(draft)
                               /\ \A j \in 1..(i - 1) : AskingOrder[j] \notin Missing(draft)
  IN AskingOrder[i]

-----------------------------------------------------------------------------
(* What a message adds to the draft; the categories it may name are those  *)
(* of the waste types, if they could be loaded.                            *)

CategoryIn(message, draft, loaded) ==
  IF loaded /\ message.category # None THEN message.category ELSE draft.category

RangeIn(message) ==
  IF message.range # 0 THEN message.range
  ELSE IF message.kg # 0 THEN RangeOf(message.kg) ELSE 0

WithRangeOnly(draft, message) ==
  IF IsPaper(draft) /\ RangeIn(message) # 0 THEN [draft EXCEPT !.range = RangeIn(message)]
  ELSE IF message.kg = 0 THEN draft ELSE [draft EXCEPT !.kg = message.kg]

WithQuantity(draft, message) ==
  IF IsPaper(draft)
  THEN IF RangeIn(message) = 0 THEN draft
       ELSE [draft EXCEPT !.range = RangeIn(message), !.kg = WeightRanges[RangeIn(message)].min]
  ELSE IF message.kg = 0 THEN draft ELSE [draft EXCEPT !.kg = message.kg]

PostalCodeExpected(awaiting) == awaiting \in {None, "addressLine1", "city", "postalCode"}

DetailsIn(message, awaiting) ==
  {f \in Details :
     \/ f \in message.finds
     \/ f = "scheduledDate" /\ message.range \in ReadsAsDate
     \/ f = "postalCode" /\ "digits" \in message.finds /\ PostalCodeExpected(awaiting)
     \/ f = "addressLine1" /\ awaiting = f /\ message.text \in {"text", "skip"}
     \/ f = "city" /\ awaiting = f}

WithDefaults(draft) ==
  IF IsPaper(draft)
  THEN IF draft.range # 0
       THEN [draft EXCEPT !.kg = IF @ = 0 THEN WeightRanges[draft.range].min ELSE @]
       ELSE LET range == IF draft.kg = 0 THEN 1 ELSE RangeOf(draft.kg)
            IN [draft EXCEPT !.range = range, !.kg = WeightRanges[range].min]
  ELSE [draft EXCEPT !.kg = IF @ = 0 THEN 1 ELSE @]

Extracted(message, awaiting, draft, loaded) ==
  LET named == [draft EXCEPT !.category = CategoryIn(message, draft, loaded)]
      weighed == WithQuantity(named, message)
  IN WithDefaults([weighed EXCEPT !.filled = @ \cup DetailsIn(message, awaiting)])

(* The flow a booking turn works on, and what it makes of the message: the *)
(* state to store, the field to ask for and the draft to hand out.         *)
Working(state, message) ==
  IF ~state.active \/ message.intent = "reset" THEN Empty ELSE state

Turn(state, message, loaded) ==
  LET was == Working(state, message)
      draft == Extracted(message, was.awaiting, was.draft, loaded)
      missing == Missing(draft)
      asking(f, asked) == [state |-> [active |-> TRUE, draft |-> draft, awaiting |-> f,
                                      asked |-> asked],
                           asks |-> f, draft |-> None]
  IN IF missing = {} /\ ~was.asked /\ was.awaiting # "specialInstructions"
     THEN asking("specialInstructions", TRUE)
     ELSE IF missing # {} THEN asking(FirstMissing(draft), was.asked)
     ELSE [state |-> NoFlow, asks |-> None, draft |-> draft]

-----------------------------------------------------------------------------
(* The server.                                                             *)

EndFlow == [state |-> NoFlow, asks |-> None, draft |-> None]

ReplyWithAnyDraft(r, answer) ==
  request' = [request EXCEPT ![r] =
    IF waiting # r THEN Free
    ELSE [Free EXCEPT !.pc = "answered", !.key = request[r].key, !.asks = answer.asks,
                      !.draft = request[r].state.draft]]

(* The answer to a request that was given up goes nowhere.                 *)
Reply(r, answer) ==
  request' = [request EXCEPT ![r] =
    IF waiting # r THEN Free
    ELSE [Free EXCEPT !.pc = "answered", !.key = request[r].key, !.asks = answer.asks,
                      !.draft = answer.draft]]

Answer(r, answer) ==
  memory' = [memory EXCEPT ![request[r].key] = answer.state] /\ Reply(r, answer)

InUse(k) ==
  \E r \in Requests : request[r].pc \in {"types", "model", "answered"} /\ request[r].key = k

(* A request is taken up: sessions idle for six hours are forgotten first, *)
(* then the flow is read.  A flow is ended, or the waste types are         *)
(* awaited, or the message is none of the flow's and the model is asked.   *)
HandleChat(r, forgotten) ==
  LET q == request[r]
      kept == [k \in Keys |-> IF k \in forgotten THEN NoFlow ELSE memory[k]]
      state == kept[q.key]
      read(pc) == request' = [request EXCEPT ![r] = [@ EXCEPT !.pc = pc, !.state = state]]
      ended == memory' = [kept EXCEPT ![q.key] = NoFlow] /\ Reply(r, EndFlow)
  IN /\ q.pc = "sent"
     /\ \A k \in forgotten : memory[k].active /\ ~InUse(k)
     /\ IF ~state.active /\ q.message.intent # "create"
        THEN read("model") /\ memory' = kept
        ELSE IF (state.active /\ q.message.intent = "cancel") \/ q.key # "customer"
        THEN ended
        ELSE read("types") /\ memory' = kept
     /\ undisturbed' = (undisturbed /\ forgotten = {})
     /\ UNCHANGED <<person, waiting, shown, prefill, alone>>

(* The waste types are there, or could not be loaded, which is not told.   *)
BookingTurn(r, loaded) ==
  /\ request[r].pc = "types"
  /\ Answer(r, Turn(request[r].state, request[r].message, loaded))
  /\ UNCHANGED boxVars

(* The model has answered: the flow read before is written back.           *)
GeneralAnswer(r) ==
  /\ request[r].pc = "model"
  /\ Answer(r, [EndFlow EXCEPT !.state = request[r].state])
  /\ UNCHANGED boxVars

GeneralFailure(r) ==
  /\ request[r].pc = "model"
  /\ Reply(r, EndFlow)
  /\ UNCHANGED <<memory, boxVars>>

-----------------------------------------------------------------------------
(* The chat box.                                                           *)

Under(r) == request[r].pc # "free"

(* An access token that has expired makes the sender a guest: the service  *)
(* answers instead of refusing, so the client does not refresh the token.  *)
SendMessage(r, key, message) ==
  /\ waiting = None
  /\ ~Under(r)
  /\ key \in {KeyOf(person), "guest"}
  /\ ~(person = "nobody" /\ message.intent = "create")
  /\ waiting' = r
  /\ request' = [request EXCEPT ![r] = [Free EXCEPT !.pc = "sent", !.key = key,
                                                    !.message = message]]
  /\ undisturbed' = (undisturbed /\ key = KeyOf(person))
  /\ alone' = \A o \in Requests : ~Under(o)
  /\ UNCHANGED <<memory, person, shown, prefill>>

(* The answer is shown and its draft kept for the form.                    *)
ReceiveAnswer(r) ==
  /\ waiting = r /\ request[r].pc = "answered"
  /\ request' = [request EXCEPT ![r] = Free]
  /\ waiting' = None
  /\ shown' = request[r].asks
  /\ prefill' = IF request[r].draft = None THEN prefill ELSE request[r].draft
  /\ undisturbed' = (undisturbed \/ (alone /\ request[r].key = KeyOf(person)))
  /\ UNCHANGED <<memory, person, alone>>

(* After thirty seconds apiFetch aborts.  A request that has not reached    *)
(* the service never will; one that has is worked on all the same.         *)
TimeOut ==
  /\ waiting # None
  /\ waiting' = None
  /\ request' = IF request[waiting].pc \in {"sent", "answered"}
                THEN [request EXCEPT ![waiting] = Free] ELSE request
  /\ undisturbed' = FALSE
  /\ UNCHANGED <<memory, person, shown, prefill, alone>>

-----------------------------------------------------------------------------

AssistantInit ==
  /\ memory = [k \in Keys |-> NoFlow]
  /\ request = [r \in Requests |-> Free]
  /\ person \in Persons
  /\ waiting = None
  /\ shown = None
  /\ prefill \in {None} \cup Kept
  /\ undisturbed = TRUE /\ alone = TRUE

ServerStep(r) ==
  \/ \E forgotten \in SUBSET Keys : HandleChat(r, forgotten)
  \/ \E loaded \in BOOLEAN : BookingTurn(r, loaded)
  \/ GeneralAnswer(r) \/ GeneralFailure(r)

AssistantNext ==
  \/ \E r \in Requests : ServerStep(r) \/ ReceiveAnswer(r)
  \/ \E r \in Requests, key \in Keys, message \in Messages : SendMessage(r, key, message)
  \/ TimeOut

AssistantSpec == AssistantInit /\ [][AssistantNext]_assistantVars

-----------------------------------------------------------------------------

DraftValues == [category : Categories \cup {None}, kg : Nat, range : 0..5, filled : SUBSET Details]

(* It has everything the form prefills, and a range of weights if its      *)
(* category is booked by one.                                              *)
IsComplete(draft) ==
  /\ draft.category # None /\ draft.filled = Details /\ draft.kg > 0
  /\ draft.category \in PaperCategories => draft.range # 0

(* A message names what the parsers know; an earlier conversation has left *)
(* a draft as this one does (DraftIsComplete).                             *)
ASSUME ConversationAssumption ==
  /\ None \notin Requests \cup Questions \cup DraftValues
  /\ \A message \in Messages :
       message.category \in Categories \cup {None} /\ message.kg \in Nat /\ message.range \in 0..5
  /\ \A draft \in Kept : draft \in DraftValues /\ IsComplete(draft)

FlowValues == [active : BOOLEAN, draft : DraftValues, awaiting : Questions \cup {None},
               asked : BOOLEAN]

(* Type invariant.                                                         *)
AssistantTypeOK ==
  /\ memory \in [Keys -> FlowValues]
  /\ \A r \in Requests :
       /\ request[r].pc \in {"free", "sent", "types", "model", "answered"}
       /\ request[r].key \in Keys
       /\ request[r].message \in Messages \cup {None}
       /\ request[r].state \in FlowValues
       /\ request[r].asks \in Questions \cup {None}
       /\ request[r].draft \in DraftValues \cup {None}
  /\ person \in Persons
  /\ waiting \in Requests \cup {None}
  /\ shown \in Questions \cup {None}
  /\ prefill \in DraftValues \cup {None}
  /\ undisturbed \in BOOLEAN /\ alone \in BOOLEAN

(* A stored flow always waits for the first thing still missing, and for   *)
(* the special instructions, once, only when nothing is.                   *)
AwaitedIsMissing ==
  \A k \in Keys : memory[k].active =>
    LET draft == memory[k].draft
        has(f) == IF f = "wasteCategory" THEN draft.category # None ELSE f \in draft.filled
    IN IF memory[k].awaiting = "specialInstructions"
       THEN memory[k].asked /\ \A i \in 1..7 : has(AskingOrder[i])
       ELSE /\ ~memory[k].asked
            /\ \E i \in 1..7 : /\ memory[k].awaiting = AskingOrder[i] /\ ~has(AskingOrder[i])
                               /\ \A j \in 1..(i - 1) : has(AskingOrder[j])

(* What the service will take the next message for is what the person was  *)
(* last asked, unless the client gave up on an answer, the session was     *)
(* forgotten or the access token had expired since.                        *)
QuestionStands ==
  undisturbed /\ waiting = None => memory[KeyOf(person)].awaiting = shown

(* The draft kept for the booking form has everything the form prefills,   *)
(* and a range of weights if its category is booked by one.                *)
DraftIsComplete == prefill # None => IsComplete(prefill)

(* Nothing is skipped on the way to a draft, and what is asked is what the *)
(* next message is taken for.                                              *)
DraftInv == AssistantTypeOK /\ AwaitedIsMissing /\ QuestionStands /\ DraftIsComplete

Captured(draft) ==
  draft.filled \cup (IF draft.category = None THEN {} ELSE {"wasteCategory"})

Moves(r) == request'[r].pc # request[r].pc

(* What a flow has captured is never lost, in the flow or in the draft it  *)
(* ends with, unless the person cancels or starts over, the session is     *)
(* forgotten, or two requests overlapped after a time-out and the later    *)
(* answer was computed from what was there before the earlier one.         *)
AnswersAreKept ==
  [][\A k \in Keys : memory[k].active =>
       \/ memory'[k].active /\ Captured(memory[k].draft) \subseteq Captured(memory'[k].draft)
       \/ ~undisturbed'
       \/ \E r \in Requests :
            /\ Moves(r) /\ request[r].key = k
            /\ \/ request[r].message.intent \in {"cancel", "reset"}
               \/ request[r].pc # "sent" /\ request[r].state # memory[k]
               \/ /\ request'[r].draft # None
                  /\ Captured(memory[k].draft) \subseteq Captured(request'[r].draft)]_assistantVars

LabelFits(draft) ==
  draft.category \in PaperCategories =>
    /\ draft.range # 0
    /\ WeightRanges[draft.range].min <= draft.kg
    /\ draft.kg <= WeightRanges[draft.range].max

(* The range and the weight of a paper draft agree after every turn; only  *)
(* a range left over from before the category was changed to another and   *)
(* back can disagree with the weight given meanwhile.                      *)
RangeAndWeightAgree ==
  [][\A r \in Requests : request[r].pc = "types" /\ Moves(r) =>
       LET was == request[r].state.draft
           now == IF request'[r].draft = None THEN memory'[request[r].key].draft
                  ELSE request'[r].draft
       IN \/ LabelFits(now)
          \/ was.range # 0 /\ (was.category \notin PaperCategories \/ ~LabelFits(was))]_assistantVars
(* What the person has said stands.                                        *)
AnswersStand == AnswersAreKept /\ RangeAndWeightAgree
=============================================================================
