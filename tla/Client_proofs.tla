----------------------------- MODULE Client_proofs -----------------------------
(***************************************************************************)
(* Proofs about the booking conversation of the assistant and the booking  *)
(* form its draft goes to, for any categories, messages and requests.      *)
(***************************************************************************)
EXTENDS BookingWizard, TLAPS

-----------------------------------------------------------------------------
(* BookingAssistant.                                                       *)
(* Ranges of weights and questions are few: the first of some is there.    *)
LEMMA FirstOf ==
  ASSUME NEW S, S \subseteq 1..7, S # {}
  PROVE  \E i \in S : \A j \in S : i <= j
<1>1. CASE 1 \in S
  BY <1>1
<1>2. CASE 1 \notin S /\ 2 \in S
  BY <1>2
<1>3. CASE S \cap {1, 2} = {} /\ 3 \in S
  BY <1>3
<1>4. CASE S \cap {1, 2, 3} = {} /\ 4 \in S
  BY <1>4
<1>5. CASE S \cap {1, 2, 3, 4} = {} /\ 5 \in S
  BY <1>5
<1>6. CASE S \cap {1, 2, 3, 4, 5} = {} /\ 6 \in S
  BY <1>6
<1>7. CASE S \cap {1, 2, 3, 4, 5, 6} = {}
  <2>1. \A j \in S : j = 7
    BY <1>7
  <2>2. PICK i \in S : TRUE
    OBVIOUS
  <2>3. \A j \in S : i <= j
    BY <2>1, <2>2
  <2> QED
    BY <2>3
<1> QED
  BY <1>1, <1>2, <1>3, <1>4, <1>5, <1>6, <1>7

LEMMA Ranges ==
  /\ DOMAIN WeightRanges = 1..5
  /\ \A w \in 1..5 : /\ WeightRanges[w].min \in Nat \ {0} /\ WeightRanges[w].max \in Nat
                     /\ WeightRanges[w].min <= WeightRanges[w].max
BY DEF WeightRanges

LEMMA RangeOfIs ==
  ASSUME NEW kg \in Nat
  PROVE  RangeOf(kg) \in 1..5
<1> DEFINE fits == {i \in DOMAIN WeightRanges : WeightRanges[i].min <= kg /\ kg <= WeightRanges[i].max}
<1>1. CASE fits = {}
  BY <1>1 DEF RangeOf
<1>2. CASE fits # {}
  <2>1. fits \subseteq 1..5 /\ fits \subseteq 1..7
    BY Ranges
  <2>2. \E i \in fits : \A j \in fits : i <= j
    <3> HIDE DEF fits
    <3> QED
      BY <1>2, <2>1, FirstOf
  <2>3. RangeOf(kg) = CHOOSE i \in fits : \A j \in fits : i <= j
    BY <1>2 DEF RangeOf
  <2>4. RangeOf(kg) \in fits
    <3> HIDE DEF fits
    <3> QED
      BY <2>2, <2>3
  <2> QED
    BY <2>1, <2>4
<1> QED
  BY <1>1, <1>2

(* What a turn makes of a draft: nothing that was captured goes, a weight  *)
(* and, for paper, a range are always there, and they fit each other but   *)
(* for a range left over.                                                  *)
LEMMA ExtractedIs ==
  ASSUME NEW message \in Messages, NEW awaiting, NEW loaded \in BOOLEAN, NEW was \in DraftValues,
         NEW noted, noted = Extracted(message, awaiting, was, loaded)
  PROVE  /\ noted \in DraftValues /\ noted.kg > 0 /\ (noted.category \in PaperCategories => noted.range # 0)
         /\ Captured(was) \subseteq Captured(noted)
         /\ \/ LabelFits(noted)
            \/ was.range # 0 /\ (was.category \notin PaperCategories \/ ~LabelFits(was))
<1>1. message.category \in Categories \cup {None} /\ message.kg \in Nat /\ message.range \in 0..5
  BY ConversationAssumption
<1>2. RangeIn(message) \in 0..5
  BY <1>1, RangeOfIs DEF RangeIn
<1>3. PICK named : named = [was EXCEPT !.category = CategoryIn(message, was, loaded)]
  OBVIOUS
<1>4. /\ named \in DraftValues /\ named.kg = was.kg /\ named.range = was.range /\ named.filled = was.filled
      /\ was.category # None => named.category # None
  BY <1>1, <1>3 DEF DraftValues, CategoryIn
<1>5. PICK weighed : weighed = WithQuantity(named, message)
  OBVIOUS
<1>6. \A w \in 1..5 : WeightRanges[w].min \in Nat \ {0}
  BY Ranges
<1>7. weighed \in DraftValues /\ weighed.category = named.category /\ weighed.filled = named.filled
  <2>1. CASE IsPaper(named) /\ RangeIn(message) # 0
    <3>1. PICK kg \in Nat : kg = WeightRanges[RangeIn(message)].min
      BY <1>2, <1>6, <2>1
    <3>2. weighed = [named EXCEPT !.range = RangeIn(message), !.kg = kg]
      BY <1>5, <2>1, <3>1 DEF WithQuantity
    <3> QED
      BY <1>2, <1>4, <3>1, <3>2 DEF DraftValues
  <2>2. CASE ~IsPaper(named) /\ message.kg # 0
    <3>1. weighed = [named EXCEPT !.kg = message.kg]
      BY <1>5, <2>2 DEF WithQuantity
    <3> QED
      BY <1>1, <1>4, <3>1 DEF DraftValues
  <2>3. CASE weighed = named
    BY <1>4, <2>3
  <2> QED
    BY <1>5, <2>1, <2>2, <2>3 DEF WithQuantity
<1>8. /\ IsPaper(named) /\ RangeIn(message) # 0 =>
           weighed.range = RangeIn(message) /\ weighed.kg = WeightRanges[RangeIn(message)].min
      /\ IsPaper(named) /\ RangeIn(message) = 0 => weighed = named
  BY <1>4, <1>5 DEF WithQuantity, DraftValues
<1>9. PICK full : full = [weighed EXCEPT !.filled = @ \cup DetailsIn(message, awaiting)]
  OBVIOUS
<1>10. DetailsIn(message, awaiting) \subseteq Details
  BY DEF DetailsIn
<1>11. /\ full \in DraftValues /\ full.category = named.category /\ full.kg = weighed.kg
       /\ full.range = weighed.range /\ was.filled \subseteq full.filled
  BY <1>4, <1>7, <1>9, <1>10 DEF DraftValues
<1>12. noted = WithDefaults(full)
  BY <1>3, <1>5, <1>9 DEF Extracted
<1>13. IsPaper(full) <=> IsPaper(named)
  BY <1>11 DEF IsPaper
<1>14. CASE ~IsPaper(named)
  <2>1. noted = [full EXCEPT !.kg = IF @ = 0 THEN 1 ELSE @]
    BY <1>12, <1>13, <1>14 DEF WithDefaults
  <2>2. /\ noted \in DraftValues /\ noted.kg > 0 /\ noted.category = named.category /\ was.filled \subseteq noted.filled
    BY <1>11, <2>1 DEF DraftValues
  <2>3. noted.category \notin PaperCategories
    BY <1>14, <2>2 DEF IsPaper
  <2> QED
    BY <1>4, <2>2, <2>3 DEF Captured, LabelFits
<1>15. CASE IsPaper(named) /\ full.range # 0
  <2>1. noted = [full EXCEPT !.kg = IF @ = 0 THEN WeightRanges[full.range].min ELSE @]
    BY <1>12, <1>13, <1>15 DEF WithDefaults
  <2>2. full.range \in 1..5
    BY <1>11, <1>15 DEF DraftValues
  <2>3. /\ noted \in DraftValues /\ noted.kg > 0 /\ noted.category = named.category /\ was.filled \subseteq noted.filled
        /\ noted.range = full.range
        /\ noted.kg = IF full.kg = 0 THEN WeightRanges[full.range].min ELSE full.kg
    BY <1>6, <1>11, <2>1, <2>2 DEF DraftValues
  <2>4. RangeIn(message) # 0 => LabelFits(noted)
    BY <1>8, <1>11, <1>15, <2>2, <2>3, Ranges DEF LabelFits
  <2>5. RangeIn(message) = 0 => was.range # 0 /\ full.range = was.range /\ full.kg = was.kg
    BY <1>4, <1>8, <1>11, <1>15
  <2>6. RangeIn(message) = 0 /\ was.category \in PaperCategories /\ LabelFits(was) => LabelFits(noted)
    BY <1>6, <2>2, <2>3, <2>5 DEF LabelFits, DraftValues
  <2> QED
    BY <1>4, <1>15, <2>3, <2>4, <2>5, <2>6 DEF Captured
<1>16. CASE IsPaper(named) /\ full.range = 0
  <2>1. PICK range : range = IF full.kg = 0 THEN 1 ELSE RangeOf(full.kg)
    OBVIOUS
  <2>2. range \in 1..5
    BY <1>11, <2>1, RangeOfIs DEF DraftValues
  <2>3. noted = [full EXCEPT !.range = range, !.kg = WeightRanges[range].min]
    BY <1>12, <1>13, <1>16, <2>1 DEF WithDefaults
  <2>4. PICK kg \in Nat : kg = WeightRanges[range].min
    BY <1>6, <2>2
  <2>5. noted = [full EXCEPT !.range = range, !.kg = kg]
    BY <2>3, <2>4
  <2>6. /\ noted \in DraftValues /\ noted.kg = kg /\ noted.category = named.category
        /\ was.filled \subseteq noted.filled /\ noted.range = range
    <3>1. full \in DraftValues /\ range \in 0..5
      BY <1>11, <2>2
    <3>2. /\ noted \in DraftValues /\ noted.kg = kg /\ noted.category = full.category
          /\ noted.filled = full.filled /\ noted.range = range
      BY <2>5, <3>1 DEF DraftValues
    <3> QED
      BY <1>11, <3>2
  <2>7. noted.kg > 0 /\ noted.range # 0 /\ LabelFits(noted)
    BY <2>2, <2>4, <2>6, Ranges DEF LabelFits
  <2> QED
    BY <1>4, <2>6, <2>7 DEF Captured
<1> QED
  BY <1>14, <1>15, <1>16

(* The first thing missing.                                                *)
Lacks(noted, f) == IF f = "wasteCategory" THEN noted.category = None ELSE f \notin noted.filled

LEMMA FirstMissingIs ==
  ASSUME NEW noted, Missing(noted) # {}
  PROVE  \E i \in 1..7 : /\ FirstMissing(noted) = AskingOrder[i] /\ Lacks(noted, AskingOrder[i])
                         /\ \A j \in 1..(i - 1) : ~Lacks(noted, AskingOrder[j])
<1> DEFINE M == {i \in 1..7 : AskingOrder[i] \in Missing(noted)}
<1>1. \A i \in 1..7 : AskingOrder[i] \in Missing(noted) <=> Lacks(noted, AskingOrder[i])
  BY DEF AskingOrder, Missing, Lacks, Details, AddressFields, TimeFields
<1>2. M \subseteq 1..7 /\ M # {}
  <2>1. \A f \in Details \cup {"wasteCategory"} : \E i \in 1..7 : f = AskingOrder[i]
    BY DEF AskingOrder, Details, AddressFields, TimeFields
  <2> QED
    BY <2>1 DEF Missing
<1>3. PICK i \in M : \A j \in M : i <= j
  <2> HIDE DEF M
  <2> QED
    BY <1>2, FirstOf
<1>4. \A j \in 1..(i - 1) : AskingOrder[j] \notin Missing(noted)
  BY <1>3
<1>5. PICK n \in 1..7 : /\ n = CHOOSE k \in 1..7 : /\ AskingOrder[k] \in Missing(noted)
                                                 /\ \A j \in 1..(k - 1) : AskingOrder[j] \notin Missing(noted)
                        /\ AskingOrder[n] \in Missing(noted)
                        /\ \A j \in 1..(n - 1) : AskingOrder[j] \notin Missing(noted)
  BY <1>3, <1>4
<1>6. FirstMissing(noted) = AskingOrder[n]
  BY <1>5 DEF FirstMissing
<1> QED
  BY <1>1, <1>5, <1>6

(* A flow at rest is empty; one under way waits for the first thing its    *)
(* draft lacks, or, once, for the special instructions.                    *)
FlowOK(flow) ==
  /\ flow \in FlowValues
  /\ ~flow.active => flow = NoFlow
  /\ flow.active /\ flow.awaiting = "specialInstructions" =>
       flow.asked /\ \A i \in 1..7 : ~Lacks(flow.draft, AskingOrder[i])
  /\ flow.active /\ flow.awaiting # "specialInstructions" =>
       /\ ~flow.asked
       /\ \E i \in 1..7 : /\ flow.awaiting = AskingOrder[i] /\ Lacks(flow.draft, AskingOrder[i])
                          /\ \A j \in 1..(i - 1) : ~Lacks(flow.draft, AskingOrder[j])

LEMMA NoFlowOK == FlowOK(NoFlow) /\ EmptyDraft \in DraftValues
<1>1. EmptyDraft \in DraftValues
  BY DEF EmptyDraft, DraftValues
<1>2. NoFlow \in FlowValues /\ NoFlow.active = FALSE
  BY <1>1 DEF NoFlow, FlowValues
<1> QED
  BY <1>1, <1>2 DEF FlowOK

LEMMA TurnIs ==
  ASSUME NEW message \in Messages, NEW loaded \in BOOLEAN, NEW state, FlowOK(state),
         NEW was, was = Working(state, message),
         NEW noted, noted = Extracted(message, was.awaiting, was.draft, loaded),
         NEW answer, answer = Turn(state, message, loaded)
  PROVE  /\ was.draft \in DraftValues
         /\ FlowOK(answer.state) /\ answer.asks \in Questions \cup {None}
         /\ answer.state.awaiting = answer.asks
         /\ Captured(was.draft) \subseteq Captured(noted)
         /\ \/ LabelFits(noted)
            \/ was.draft.range # 0 /\ (was.draft.category \notin PaperCategories \/ ~LabelFits(was.draft))
         /\ \/ answer.state.active /\ answer.state.draft = noted /\ answer.draft = None
            \/ answer.state = NoFlow /\ answer.draft = noted /\ noted \in DraftValues /\ IsComplete(noted)
<1>1. /\ was.draft \in DraftValues /\ was.asked \in BOOLEAN
      /\ \/ was.asked /\ \A i \in 1..7 : ~Lacks(was.draft, AskingOrder[i])
         \/ ~was.asked /\ was.awaiting # "specialInstructions"
  <2>1. CASE ~state.active \/ message.intent = "reset"
    <3>1. was = Empty
      BY <2>1 DEF Working
    <3>2. Empty.draft = EmptyDraft /\ Empty.asked = FALSE /\ Empty.awaiting = None
      BY DEF Empty, NoFlow
    <3>3. None # "specialInstructions"
      BY ConversationAssumption DEF Questions
    <3> QED
      BY <3>1, <3>2, <3>3, NoFlowOK
  <2>2. CASE state.active /\ message.intent # "reset"
    <3>1. was = state
      BY <2>2 DEF Working
    <3> QED
      BY <2>2, <3>1 DEF FlowOK, FlowValues
  <2> QED
    BY <2>1, <2>2
<1>2. /\ noted \in DraftValues /\ noted.kg > 0 /\ (noted.category \in PaperCategories => noted.range # 0)
      /\ Captured(was.draft) \subseteq Captured(noted)
      /\ \/ LabelFits(noted)
         \/ was.draft.range # 0 /\ (was.draft.category \notin PaperCategories \/ ~LabelFits(was.draft))
  <2>1. PICK base \in DraftValues : base = was.draft
    BY <1>1
  <2>2. PICK awaiting : awaiting = was.awaiting
    OBVIOUS
  <2>3. noted = Extracted(message, awaiting, base, loaded)
    BY <2>1, <2>2
  <2> QED
    BY <2>1, <2>3, ExtractedIs
<1>3. \A i \in 1..7 : AskingOrder[i] \in Missing(noted) <=> Lacks(noted, AskingOrder[i])
  BY DEF AskingOrder, Missing, Lacks, Details, AddressFields, TimeFields
<1>4. Missing(noted) = {} => noted.category # None /\ noted.filled = Details
  BY <1>2 DEF Missing, DraftValues
<1>5. (\A i \in 1..7 : ~Lacks(was.draft, AskingOrder[i])) => Missing(noted) = {}
  <2>1. SUFFICES ASSUME \A i \in 1..7 : ~Lacks(was.draft, AskingOrder[i]) PROVE Missing(noted) = {}
    OBVIOUS
  <2>2. Details \cup {"wasteCategory"} \subseteq Captured(was.draft)
    BY <2>1 DEF AskingOrder, Lacks, Details, AddressFields, TimeFields, Captured
  <2>3. "wasteCategory" \notin Details
    BY DEF Details, AddressFields, TimeFields
  <2> QED
    BY <1>2, <2>2, <2>3 DEF Missing, Captured, DraftValues
<1>6. CASE Missing(noted) = {} /\ ~was.asked /\ was.awaiting # "specialInstructions"
  <2>1. PICK next : next = [active |-> TRUE, draft |-> noted, awaiting |-> "specialInstructions", asked |-> TRUE]
    OBVIOUS
  <2>2. answer = [state |-> next, asks |-> "specialInstructions", draft |-> None]
    BY <1>6, <2>1 DEF Turn
  <2>3. next \in FlowValues /\ "specialInstructions" \in Questions
    BY <1>2, <2>1 DEF FlowValues, Questions
  <2>4. FlowOK(next)
    BY <1>3, <1>6, <2>1, <2>3 DEF FlowOK
  <2> QED
    BY <1>1, <1>2, <2>1, <2>2, <2>3, <2>4
<1>7. CASE Missing(noted) # {}
  <2>1. ~was.asked
    BY <1>1, <1>5, <1>7
  <2>2. PICK next : next = [active |-> TRUE, draft |-> noted, awaiting |-> FirstMissing(noted), asked |-> was.asked]
    OBVIOUS
  <2>3. answer = [state |-> next, asks |-> FirstMissing(noted), draft |-> None]
    BY <1>7, <2>2 DEF Turn
  <2>4. PICK i \in 1..7 : /\ FirstMissing(noted) = AskingOrder[i] /\ Lacks(noted, AskingOrder[i])
                         /\ \A j \in 1..(i - 1) : ~Lacks(noted, AskingOrder[j])
    BY <1>7, FirstMissingIs
  <2>5. AskingOrder[i] # "specialInstructions"
    BY DEF AskingOrder
  <2>6. FirstMissing(noted) \in Questions
    BY <2>4 DEF Questions
  <2>7. next \in FlowValues
    BY <1>1, <1>2, <2>2, <2>6 DEF FlowValues
  <2>8. FlowOK(next)
    BY <2>1, <2>2, <2>4, <2>5, <2>7 DEF FlowOK
  <2> QED
    BY <1>1, <1>2, <2>2, <2>3, <2>6, <2>8
<1>8. CASE Missing(noted) = {} /\ ~(~was.asked /\ was.awaiting # "specialInstructions")
  <2>1. answer = [state |-> NoFlow, asks |-> None, draft |-> noted]
    BY <1>8 DEF Turn
  <2>2. IsComplete(noted)
    BY <1>2, <1>4, <1>8 DEF IsComplete
  <2>3. NoFlow.awaiting = None
    BY DEF NoFlow
  <2> QED
    BY <1>1, <1>2, <2>1, <2>2, <2>3, NoFlowOK
<1> QED
  BY <1>6, <1>7, <1>8

RequestValues == [pc : {"free", "sent", "types", "model", "answered"}, key : Keys,
                  message : Messages \cup {None}, state : FlowValues,
                  asks : Questions \cup {None}, draft : DraftValues \cup {None}]

(* Only a customer has a flow under way.                                   *)
FlowsOK == /\ memory \in [Keys -> FlowValues]
           /\ \A k \in Keys : FlowOK(memory[k]) /\ (k # "customer" => memory[k] = NoFlow)

(* What a request carries: the flow it read, or the answer it computed.    *)
RequestsOK ==
  /\ request \in [Requests -> RequestValues]
  /\ \A r \in Requests :
       /\ request[r].pc \in {"sent", "types", "model"} => request[r].message \in Messages
       /\ request[r].pc = "types" => FlowOK(request[r].state) /\ request[r].key = "customer"
       /\ request[r].pc = "model" => request[r].state = NoFlow
       /\ request[r].draft # None => request[r].draft \in DraftValues /\ IsComplete(request[r].draft)

BoxOK ==
  /\ person \in Persons /\ waiting \in Requests \cup {None} /\ shown \in Questions \cup {None}
  /\ prefill # None => prefill \in DraftValues /\ IsComplete(prefill)
  /\ undisturbed \in BOOLEAN /\ alone \in BOOLEAN

(* A request sent alone stays alone while it is waited for, and what its   *)
(* answer asks for is what the flow it leaves waits for.                   *)
AloneOK ==
  waiting # None /\ alone =>
    /\ \A o \in Requests \ {waiting} : request[o].pc = "free"
    /\ request[waiting].pc = "model" => memory[request[waiting].key] = NoFlow
    /\ request[waiting].pc = "answered" => memory[request[waiting].key].awaiting = request[waiting].asks

(* Undisturbed, nothing is under way but the request waited for, which was *)
(* sent alone and for the person; between two of them the question stands. *)
UndisturbedOK ==
  /\ undisturbed /\ waiting = None =>
       (\A o \in Requests : request[o].pc = "free") /\ memory[KeyOf(person)].awaiting = shown
  /\ undisturbed /\ waiting # None => alone /\ request[waiting].key = KeyOf(person)

AssistantIInv == FlowsOK /\ RequestsOK /\ BoxOK /\ AloneOK /\ UndisturbedOK

LEMMA FreeOK == Free \in RequestValues /\ Free.pc = "free" /\ Free.draft = None
<1>1. NoFlow \in FlowValues
  BY NoFlowOK DEF FlowOK
<1> QED
  BY <1>1 DEF Free, RequestValues, Keys

LEMMA AssistantImplied == AssistantIInv => DraftInv
<1> SUFFICES ASSUME AssistantIInv PROVE DraftInv
  OBVIOUS
<1> USE DEF AssistantIInv
<1>1. AssistantTypeOK
  <2>1. \A r \in Requests : /\ request[r].pc \in {"free", "sent", "types", "model", "answered"}
                           /\ request[r].key \in Keys
                           /\ request[r].message \in Messages \cup {None}
                           /\ request[r].state \in FlowValues
                           /\ request[r].asks \in Questions \cup {None}
                           /\ request[r].draft \in DraftValues \cup {None}
    BY DEF RequestsOK, RequestValues
  <2> QED
    BY <2>1 DEF FlowsOK, BoxOK, AssistantTypeOK
<1>2. AwaitedIsMissing
  BY DEF FlowsOK, FlowOK, Lacks, AwaitedIsMissing
<1>3. QuestionStands
  BY DEF UndisturbedOK, QuestionStands
<1>4. DraftIsComplete
  BY DEF BoxOK, DraftIsComplete
<1> QED
  BY <1>1, <1>2, <1>3, <1>4 DEF DraftInv

LEMMA AssistantStart == AssistantInit => AssistantIInv
<1> SUFFICES ASSUME AssistantInit PROVE AssistantIInv
  OBVIOUS
<1>1. memory \in [Keys -> FlowValues] /\ \A k \in Keys : memory[k] = NoFlow
  BY NoFlowOK DEF AssistantInit, FlowOK
<1>2. request \in [Requests -> RequestValues] /\ \A r \in Requests : request[r] = Free
  BY FreeOK DEF AssistantInit
<1>3. FlowsOK
  BY <1>1, NoFlowOK DEF FlowsOK
<1>4. RequestsOK
  BY <1>2, FreeOK DEF RequestsOK
<1>5. BoxOK
  BY ConversationAssumption DEF AssistantInit, BoxOK
<1>6. KeyOf(person) \in Keys /\ NoFlow.awaiting = None
  BY DEF AssistantInit, KeyOf, Persons, Keys, NoFlow
<1>7. AloneOK /\ UndisturbedOK
  BY <1>1, <1>2, <1>6, FreeOK DEF AssistantInit, AloneOK, UndisturbedOK
<1> QED
  BY <1>3, <1>4, <1>5, <1>7 DEF AssistantIInv

(* A request is answered, or dropped because nobody waits for it.          *)
LEMMA ReplyKeeps ==
  ASSUME AssistantIInv, NEW r \in Requests, Under(r), NEW answer, Reply(r, answer), FlowsOK',
         UNCHANGED <<person, waiting, shown, prefill, alone>>,
         undisturbed' \in BOOLEAN, undisturbed' => undisturbed,
         answer.asks \in Questions \cup {None},
         answer.draft # None => answer.draft \in DraftValues /\ IsComplete(answer.draft),
         waiting = r /\ alone => memory'[request[r].key].awaiting = answer.asks
  PROVE  AssistantIInv'
<1> USE DEF AssistantIInv
<1>1. request[r] \in RequestValues
  BY DEF RequestsOK
<1>2. PICK q : q = IF waiting # r THEN Free
                   ELSE [Free EXCEPT !.pc = "answered", !.key = request[r].key, !.asks = answer.asks,
                                     !.draft = answer.draft]
  OBVIOUS
<1>3. waiting = r => /\ q = [Free EXCEPT !.pc = "answered", !.key = request[r].key, !.asks = answer.asks,
                                         !.draft = answer.draft]
                     /\ q \in RequestValues /\ q.pc = "answered" /\ q.key = request[r].key
                     /\ q.asks = answer.asks /\ q.draft = answer.draft
  BY <1>1, <1>2, FreeOK DEF RequestValues
<1>4. q \in RequestValues /\ q.pc \in {"free", "answered"}
      /\ (q.draft # None => q.draft \in DraftValues /\ IsComplete(q.draft))
  BY <1>2, <1>3, FreeOK
<1>5. /\ request' = [request EXCEPT ![r] = q] /\ request' \in [Requests -> RequestValues]
      /\ request'[r] = q /\ \A o \in Requests \ {r} : request'[o] = request[o]
  BY <1>2, <1>4 DEF Reply, RequestsOK
<1>6. RequestsOK'
  BY <1>4, <1>5 DEF RequestsOK
<1>7. BoxOK'
  BY DEF BoxOK
<1>8. AloneOK'
  <2>1. CASE waiting = r
    BY <1>3, <1>5, <2>1 DEF AloneOK
  <2>2. CASE waiting # r
    BY <2>2 DEF AloneOK, Under
  <2> QED
    BY <2>1, <2>2
<1>9. UndisturbedOK'
  <2>1. CASE waiting = r
    BY <1>3, <1>5, <2>1, ConversationAssumption DEF UndisturbedOK, BoxOK, KeyOf
  <2>2. CASE waiting # r
    BY <2>2 DEF UndisturbedOK, AloneOK, Under
  <2> QED
    BY <2>1, <2>2
<1> QED
  BY <1>6, <1>7, <1>8, <1>9

(* A request has read its flow.                                            *)
LEMMA ReadKeeps ==
  ASSUME AssistantIInv, NEW r \in Requests, request[r].pc = "sent", NEW pc \in {"types", "model"},
         NEW state, FlowOK(state), request' = [request EXCEPT ![r] = [@ EXCEPT !.pc = pc, !.state = state]],
         pc = "types" => request[r].key = "customer",
         pc = "model" => state = NoFlow /\ memory'[request[r].key] = NoFlow, FlowsOK',
         UNCHANGED <<person, waiting, shown, prefill, alone>>,
         undisturbed' \in BOOLEAN, undisturbed' => undisturbed
  PROVE  AssistantIInv'
<1> USE DEF AssistantIInv
<1>1. request[r] \in RequestValues /\ request[r].message \in Messages
      /\ (request[r].draft # None => request[r].draft \in DraftValues /\ IsComplete(request[r].draft))
  BY DEF RequestsOK
<1>2. PICK q : q = [request[r] EXCEPT !.pc = pc, !.state = state]
  OBVIOUS
<1>3. /\ q \in RequestValues /\ q.pc = pc /\ q.state = state /\ q.key = request[r].key
      /\ q.message = request[r].message /\ q.draft = request[r].draft
  BY <1>1, <1>2 DEF RequestValues, FlowOK
<1>4. /\ request' = [request EXCEPT ![r] = q] /\ request' \in [Requests -> RequestValues]
      /\ request'[r] = q /\ \A o \in Requests \ {r} : request'[o] = request[o]
  BY <1>2, <1>3 DEF RequestsOK
<1>5. RequestsOK'
  BY <1>1, <1>3, <1>4 DEF RequestsOK
<1>6. BoxOK'
  BY DEF BoxOK
<1>7. AloneOK'
  <2>1. CASE waiting = r
    BY <1>3, <1>4, <2>1 DEF AloneOK
  <2>2. CASE waiting # r
    BY <2>2 DEF AloneOK
  <2> QED
    BY <2>1, <2>2
<1>8. UndisturbedOK'
  <2>1. CASE waiting = r
    BY <1>3, <1>4, <2>1 DEF UndisturbedOK, BoxOK, KeyOf
  <2>2. CASE waiting # r
    BY <2>2 DEF UndisturbedOK, AloneOK
  <2> QED
    BY <2>1, <2>2
<1> QED
  BY <1>5, <1>6, <1>7, <1>8

LEMMA HandleKeeps ==
  ASSUME AssistantIInv, NEW r \in Requests, NEW forgotten \in SUBSET Keys, HandleChat(r, forgotten)
  PROVE  AssistantIInv'
<1> USE DEF AssistantIInv
<1> DEFINE q == request[r]
           kept == [k \in Keys |-> IF k \in forgotten THEN NoFlow ELSE memory[k]]
<1>1. /\ q.pc = "sent" /\ q.key \in Keys /\ q.message \in Messages
      /\ UNCHANGED <<person, waiting, shown, prefill, alone>> /\ undisturbed' = (undisturbed /\ forgotten = {})
  BY DEF HandleChat, RequestsOK, RequestValues
<1>2. undisturbed' \in BOOLEAN /\ (undisturbed' => undisturbed)
  BY <1>1, Zenon
<1>3. /\ kept \in [Keys -> FlowValues]
      /\ \A k \in Keys : FlowOK(kept[k]) /\ (k # "customer" => kept[k] = NoFlow)
  <2>1. \A k \in Keys : kept[k] = NoFlow \/ kept[k] = memory[k]
    OBVIOUS
  <2>2. \A k \in Keys : FlowOK(kept[k]) /\ (k # "customer" => kept[k] = NoFlow)
    BY <2>1, NoFlowOK DEF FlowsOK
  <2> QED
    BY <2>2 DEF FlowOK
<1>4. PICK state : state = kept[q.key] /\ FlowOK(state)
  BY <1>1, <1>3
<1>5. CASE ~state.active /\ q.message.intent # "create"
  <2>1. /\ request' = [request EXCEPT ![r] = [@ EXCEPT !.pc = "model", !.state = state]]
        /\ memory' = kept
    BY <1>4, <1>5 DEF HandleChat
  <2>2. state = NoFlow
    BY <1>4, <1>5 DEF FlowOK
  <2>3. FlowsOK'
    BY <1>3, <2>1 DEF FlowsOK
  <2>4. memory'[q.key] = NoFlow
    BY <1>4, <2>1, <2>2
  <2>5. "model" \in {"types", "model"}
    OBVIOUS
  <2> HIDE DEF kept
  <2> QED
    BY <1>1, <1>2, <1>4, <2>1, <2>2, <2>3, <2>4, <2>5, ReadKeeps
<1>6. CASE /\ ~(~state.active /\ q.message.intent # "create")
           /\ (state.active /\ q.message.intent = "cancel") \/ q.key # "customer"
  <2>1. memory' = [kept EXCEPT ![q.key] = NoFlow] /\ Reply(r, EndFlow)
    BY <1>4, <1>6 DEF HandleChat
  <2>2. /\ memory' \in [Keys -> FlowValues] /\ memory'[q.key] = NoFlow
        /\ \A k \in Keys : memory'[k] = kept[k] \/ memory'[k] = NoFlow
    <3> HIDE DEF kept
    <3> QED
      BY <1>1, <1>3, <2>1, NoFlowOK DEF FlowOK
  <2>3. FlowsOK'
    BY <1>3, <2>2, NoFlowOK DEF FlowsOK
  <2>4. EndFlow.asks = None /\ EndFlow.draft = None /\ NoFlow.awaiting = None
    BY DEF EndFlow, NoFlow
  <2>5. Under(r)
    BY <1>1 DEF Under
  <2> HIDE DEF kept
  <2> QED
    BY <1>1, <1>2, <2>1, <2>2, <2>3, <2>4, <2>5, ReplyKeeps
<1>7. CASE /\ ~(~state.active /\ q.message.intent # "create")
           /\ ~((state.active /\ q.message.intent = "cancel") \/ q.key # "customer")
  <2>1. /\ request' = [request EXCEPT ![r] = [@ EXCEPT !.pc = "types", !.state = state]]
        /\ memory' = kept
    BY <1>4, <1>7 DEF HandleChat
  <2>2. FlowsOK'
    BY <1>3, <2>1 DEF FlowsOK
  <2>3. "types" \in {"types", "model"} /\ q.key = "customer"
    BY <1>7
  <2> HIDE DEF kept
  <2> QED
    BY <1>1, <1>2, <1>4, <2>1, <2>2, <2>3, ReadKeeps
<1> QED
  BY <1>5, <1>6, <1>7

(* A turn of the booking flow, or an answer of the model, is stored.       *)
LEMMA AnswerKeeps ==
  ASSUME AssistantIInv, NEW r \in Requests, Under(r), NEW answer, Answer(r, answer), UNCHANGED boxVars,
         FlowOK(answer.state), request[r].key # "customer" => answer.state = NoFlow,
         answer.asks \in Questions \cup {None}, answer.state.awaiting = answer.asks,
         answer.draft # None => answer.draft \in DraftValues /\ IsComplete(answer.draft)
  PROVE  AssistantIInv'
<1> USE DEF AssistantIInv
<1>1. UNCHANGED <<person, waiting, shown, prefill, undisturbed, alone>> /\ request[r].key \in Keys
  BY DEF boxVars, RequestsOK, RequestValues
<1>2. memory' = [memory EXCEPT ![request[r].key] = answer.state] /\ Reply(r, answer)
  BY DEF Answer
<1>3. /\ memory' \in [Keys -> FlowValues] /\ memory'[request[r].key] = answer.state
      /\ \A k \in Keys \ {request[r].key} : memory'[k] = memory[k]
  BY <1>1, <1>2 DEF FlowsOK, FlowOK
<1>4. FlowsOK'
  BY <1>3 DEF FlowsOK
<1>5. undisturbed' \in BOOLEAN /\ (undisturbed' => undisturbed)
  BY <1>1 DEF BoxOK
<1> QED
  BY <1>1, <1>2, <1>3, <1>4, <1>5, ReplyKeeps

LEMMA ServerKeeps ==
  ASSUME AssistantIInv, NEW r \in Requests, ServerStep(r)
  PROVE  AssistantIInv'
<1> USE DEF AssistantIInv
<1>1. ASSUME NEW forgotten \in SUBSET Keys, HandleChat(r, forgotten) PROVE AssistantIInv'
  BY <1>1, HandleKeeps
<1>2. ASSUME NEW loaded \in BOOLEAN, BookingTurn(r, loaded) PROVE AssistantIInv'
  <2>1. /\ request[r].pc = "types" /\ UNCHANGED boxVars
        /\ Answer(r, Turn(request[r].state, request[r].message, loaded))
    BY <1>2 DEF BookingTurn
  <2>2. FlowOK(request[r].state) /\ request[r].key = "customer" /\ request[r].message \in Messages /\ Under(r)
    BY <2>1 DEF RequestsOK, Under
  <2>3. PICK answer : answer = Turn(request[r].state, request[r].message, loaded)
    OBVIOUS
  <2>4. PICK was : was = Working(request[r].state, request[r].message)
    OBVIOUS
  <2>5. PICK noted : noted = Extracted(request[r].message, was.awaiting, was.draft, loaded)
    OBVIOUS
  <2>6. /\ FlowOK(answer.state) /\ answer.asks \in Questions \cup {None}
        /\ answer.state.awaiting = answer.asks
        /\ answer.draft # None => answer.draft \in DraftValues /\ IsComplete(answer.draft)
    BY <2>2, <2>3, <2>4, <2>5, TurnIs
  <2> QED
    BY <2>1, <2>2, <2>3, <2>6, AnswerKeeps
<1>3. ASSUME GeneralAnswer(r) PROVE AssistantIInv'
  <2>1. /\ request[r].pc = "model" /\ UNCHANGED boxVars
        /\ Answer(r, [EndFlow EXCEPT !.state = request[r].state])
    BY <1>3 DEF GeneralAnswer
  <2>2. request[r].state = NoFlow /\ Under(r)
    BY <2>1 DEF RequestsOK, Under
  <2>3. PICK answer : answer = [EndFlow EXCEPT !.state = request[r].state]
    OBVIOUS
  <2>4. answer.state = NoFlow /\ answer.asks = None /\ answer.draft = None /\ NoFlow.awaiting = None
    BY <2>2, <2>3 DEF EndFlow, NoFlow
  <2> QED
    BY <2>1, <2>2, <2>3, <2>4, NoFlowOK, AnswerKeeps
<1>4. ASSUME GeneralFailure(r) PROVE AssistantIInv'
  <2>1. request[r].pc = "model" /\ Reply(r, EndFlow) /\ memory' = memory
        /\ UNCHANGED <<person, waiting, shown, prefill, undisturbed, alone>>
    BY <1>4 DEF GeneralFailure, boxVars
  <2>2. EndFlow.asks = None /\ EndFlow.draft = None /\ NoFlow.awaiting = None
    BY DEF EndFlow, NoFlow
  <2>3. FlowsOK' /\ undisturbed' \in BOOLEAN /\ (undisturbed' => undisturbed) /\ Under(r)
    BY <2>1 DEF FlowsOK, BoxOK, Under
  <2>4. waiting = r /\ alone => memory'[request[r].key].awaiting = EndFlow.asks
    <3>1. r # None
      BY ConversationAssumption
    <3> QED
      BY <2>1, <2>2, <3>1 DEF AloneOK
  <2> QED
    BY <2>1, <2>2, <2>3, <2>4, ReplyKeeps
<1> QED
  BY <1>1, <1>2, <1>3, <1>4 DEF ServerStep

(* The chat box.                                                           *)
LEMMA SendKeeps ==
  ASSUME AssistantIInv, NEW r \in Requests, NEW key \in Keys, NEW message \in Messages, SendMessage(r, key, message)
  PROVE  AssistantIInv'
<1> USE DEF AssistantIInv
<1>1. /\ waiting = None /\ request[r].pc = "free" /\ waiting' = r /\ r # None
      /\ UNCHANGED <<memory, person, shown, prefill>>
  BY ConversationAssumption DEF SendMessage, Under
<1>2. PICK q : q = [Free EXCEPT !.pc = "sent", !.key = key, !.message = message]
  OBVIOUS
<1>3. q \in RequestValues /\ q.pc = "sent" /\ q.key = key /\ q.message = message /\ q.draft = None
  BY <1>2, FreeOK DEF RequestValues
<1>4. /\ request' = [request EXCEPT ![r] = q] /\ request' \in [Requests -> RequestValues]
      /\ request'[r] = q /\ \A o \in Requests \ {r} : request'[o] = request[o]
  BY <1>2, <1>3 DEF SendMessage, RequestsOK
<1>5. RequestsOK' /\ FlowsOK'
  BY <1>1, <1>3, <1>4 DEF RequestsOK, FlowsOK
<1>6. alone' = (\A o \in Requests : request[o].pc = "free") /\ undisturbed' = (undisturbed /\ key = KeyOf(person))
  BY DEF SendMessage, Under
<1>7. alone' \in BOOLEAN /\ undisturbed' \in BOOLEAN
  BY <1>6, Zenon
<1>8. /\ alone' => \A o \in Requests : request[o].pc = "free"
      /\ (\A o \in Requests : request[o].pc = "free") => alone'
      /\ undisturbed' => undisturbed /\ key = KeyOf(person)
  BY <1>6, Zenon
<1>9. BoxOK'
  BY <1>1, <1>7 DEF BoxOK
<1>10. AloneOK'
  BY <1>1, <1>3, <1>4, <1>8 DEF AloneOK
<1>11. UndisturbedOK'
  BY <1>1, <1>3, <1>4, <1>8 DEF UndisturbedOK, KeyOf
<1> QED
  BY <1>5, <1>9, <1>10, <1>11

(* A request is over, and everything else stays as it is.                  *)
LEMMA Freed ==
  ASSUME RequestsOK, NEW r \in Requests, request' = [request EXCEPT ![r] = Free]
  PROVE  /\ RequestsOK' /\ request'[r].pc = "free"
         /\ \A o \in Requests \ {r} : request'[o] = request[o]
<1>1. /\ request' \in [Requests -> RequestValues] /\ request'[r] = Free
      /\ \A o \in Requests \ {r} : request'[o] = request[o]
  BY FreeOK DEF RequestsOK
<1> QED
  BY <1>1, FreeOK DEF RequestsOK

LEMMA ReceiveKeeps ==
  ASSUME AssistantIInv, NEW r \in Requests, ReceiveAnswer(r)
  PROVE  AssistantIInv'
<1> USE DEF AssistantIInv
<1>1. /\ waiting = r /\ request[r].pc = "answered" /\ waiting' = None /\ shown' = request[r].asks
      /\ request' = [request EXCEPT ![r] = Free] /\ UNCHANGED <<memory, person, alone>>
      /\ prefill' = IF request[r].draft = None THEN prefill ELSE request[r].draft
      /\ undisturbed' = (undisturbed \/ (alone /\ request[r].key = KeyOf(person)))
  BY DEF ReceiveAnswer
<1>2. RequestsOK' /\ request'[r].pc = "free" /\ \A o \in Requests \ {r} : request'[o] = request[o]
  BY <1>1, Freed
<1>3. FlowsOK'
  BY <1>1 DEF FlowsOK
<1>4. request[r].asks \in Questions \cup {None}
  BY DEF RequestsOK, RequestValues
<1>5. undisturbed' \in BOOLEAN
  BY <1>1, Zenon
<1>6. BoxOK'
  BY <1>1, <1>4, <1>5 DEF BoxOK, RequestsOK
<1>7. r # None
  BY ConversationAssumption
<1>8. AloneOK'
  BY <1>1 DEF AloneOK
<1>9. undisturbed' => alone /\ request[r].key = KeyOf(person)
  BY <1>1, <1>7 DEF UndisturbedOK
<1>10. undisturbed' => /\ \A o \in Requests : request'[o].pc = "free"
                       /\ memory[KeyOf(person)].awaiting = shown'
  BY <1>1, <1>2, <1>7, <1>9 DEF AloneOK
<1>11. UndisturbedOK'
  BY <1>1, <1>10 DEF UndisturbedOK, KeyOf
<1> QED
  BY <1>2, <1>3, <1>6, <1>8, <1>11

LEMMA TimeOutKeeps == AssistantIInv /\ TimeOut => AssistantIInv'
<1> SUFFICES ASSUME AssistantIInv, TimeOut PROVE AssistantIInv'
  OBVIOUS
<1> USE DEF AssistantIInv
<1>1. /\ waiting' = None /\ undisturbed' = FALSE /\ UNCHANGED <<memory, person, shown, prefill, alone>>
      /\ waiting \in Requests
      /\ request' = [request EXCEPT ![waiting] = Free] \/ request' = request
  BY DEF TimeOut, BoxOK
<1>2. RequestsOK'
  BY <1>1, Freed DEF RequestsOK
<1>3. FlowsOK'
  BY <1>1 DEF FlowsOK
<1>4. BoxOK'
  BY <1>1 DEF BoxOK
<1>5. AloneOK' /\ UndisturbedOK'
  BY <1>1 DEF AloneOK, UndisturbedOK
<1> QED
  BY <1>2, <1>3, <1>4, <1>5

LEMMA AssistantIdle == AssistantIInv /\ UNCHANGED assistantVars => AssistantIInv'
BY DEF AssistantIInv, assistantVars, memoryVars, boxVars, FlowsOK, RequestsOK, BoxOK, AloneOK, UndisturbedOK, KeyOf

LEMMA AssistantStep == AssistantIInv /\ [AssistantNext]_assistantVars => AssistantIInv'
<1> SUFFICES ASSUME AssistantIInv, AssistantNext PROVE AssistantIInv'
  BY AssistantIdle
<1>1. ASSUME NEW r \in Requests, ServerStep(r) \/ ReceiveAnswer(r) PROVE AssistantIInv'
  BY <1>1, ServerKeeps, ReceiveKeeps
<1>2. ASSUME NEW r \in Requests, NEW key \in Keys, NEW message \in Messages, SendMessage(r, key, message)
      PROVE  AssistantIInv'
  BY <1>2, SendKeeps
<1> QED
  BY <1>1, <1>2, TimeOutKeeps DEF AssistantNext

LEMMA AssistantAlways == AssistantSpec => []AssistantIInv
BY AssistantStart, AssistantStep, PTL DEF AssistantSpec

(* Whatever is said, given up, forgotten or answered late, by any messages *)
(* and in any number of requests: a flow waits for the first thing it      *)
(* lacks, the question shown is the one it waits for unless something was  *)
(* disturbed, and a draft handed out is complete.                          *)
THEOREM DraftsHold == AssistantSpec => []DraftInv
BY AssistantAlways, AssistantImplied, PTL

-----------------------------------------------------------------------------
(* Steps: how a request moves, and what moves one that awaits the types.   *)
LEMMA Replied ==
  ASSUME RequestsOK, NEW r \in Requests, request[r].pc \in {"sent", "types", "model"}, NEW answer, Reply(r, answer)
  PROVE  /\ Moves(r) /\ \A o \in Requests \ {r} : request'[o] = request[o]
         /\ request'[r].draft = IF waiting = r THEN answer.draft ELSE None
<1>1. PICK q : q = IF waiting # r THEN Free
                   ELSE [Free EXCEPT !.pc = "answered", !.key = request[r].key, !.asks = answer.asks,
                                     !.draft = answer.draft]
  OBVIOUS
<1>2. request' = [request EXCEPT ![r] = q]
  BY <1>1 DEF Reply
<1>3. request'[r] = q /\ \A o \in Requests \ {r} : request'[o] = request[o]
  BY <1>2 DEF RequestsOK
<1>4. CASE waiting = r
  <2>1. q = [Free EXCEPT !.pc = "answered", !.key = request[r].key, !.asks = answer.asks, !.draft = answer.draft]
    BY <1>1, <1>4
  <2>2. q.pc = "answered" /\ q.draft = answer.draft
    BY <2>1 DEF Free
  <2> QED
    BY <1>3, <1>4, <2>2 DEF Moves
<1>5. CASE waiting # r
  BY <1>1, <1>3, <1>5, FreeOK DEF Moves
<1> QED
  BY <1>4, <1>5

LEMMA TurnMoves ==
  ASSUME RequestsOK, AssistantNext, NEW r \in Requests, request[r].pc = "types", Moves(r)
  PROVE  \E loaded \in BOOLEAN : BookingTurn(r, loaded)
<1>1. SUFFICES ASSUME ~\E loaded \in BOOLEAN : BookingTurn(r, loaded) PROVE request'[r] = request[r]
  BY DEF Moves
<1>2. ASSUME NEW o \in Requests, ServerStep(o) PROVE request'[r] = request[r]
  <2>1. ASSUME NEW forgotten \in SUBSET Keys, HandleChat(o, forgotten) PROVE request'[r] = request[r]
    <3>1. o # r /\ request[o].pc = "sent"
      BY <2>1 DEF HandleChat
    <3>2. Reply(o, EndFlow) \/ \E q : request' = [request EXCEPT ![o] = q]
      BY <2>1 DEF HandleChat
    <3> QED
      BY <3>1, <3>2, Replied DEF RequestsOK
  <2>2. ASSUME NEW loaded \in BOOLEAN, BookingTurn(o, loaded) PROVE request'[r] = request[r]
    <3>1. o # r
      BY <1>1, <2>2
    <3> QED
      BY <2>2, <3>1, Replied DEF BookingTurn, Answer
  <2>3. ASSUME GeneralAnswer(o) \/ GeneralFailure(o) PROVE request'[r] = request[r]
    <3>1. o # r /\ request[o].pc = "model"
      BY <2>3 DEF GeneralAnswer, GeneralFailure
    <3> QED
      BY <2>3, <3>1, Replied DEF GeneralAnswer, GeneralFailure, Answer
  <2> QED
    BY <1>2, <2>1, <2>2, <2>3 DEF ServerStep
<1>3. ASSUME NEW o \in Requests, ReceiveAnswer(o) PROVE request'[r] = request[r]
  BY <1>3 DEF ReceiveAnswer, RequestsOK
<1>4. ASSUME NEW o \in Requests, NEW key \in Keys, NEW message \in Messages, SendMessage(o, key, message)
      PROVE  request'[r] = request[r]
  BY <1>4 DEF SendMessage, Under, RequestsOK
<1>5. ASSUME TimeOut PROVE request'[r] = request[r]
  BY <1>5 DEF TimeOut, RequestsOK
<1> QED
  BY <1>2, <1>3, <1>4, <1>5 DEF AssistantNext

(* What a turn that has read the flow as it still is makes of it.          *)
LEMMA TurnHolds ==
  ASSUME AssistantIInv, NEW r \in Requests, NEW loaded \in BOOLEAN, BookingTurn(r, loaded)
  PROVE  \E was, noted :
           /\ was = Working(request[r].state, request[r].message)
           /\ Captured(was.draft) \subseteq Captured(noted)
           /\ \/ LabelFits(noted)
              \/ was.draft.range # 0 /\ (was.draft.category \notin PaperCategories \/ ~LabelFits(was.draft))
           /\ Moves(r) /\ boxVars' = boxVars
           /\ \A k \in Keys \ {request[r].key} : memory'[k] = memory[k]
           /\ \/ /\ memory'[request[r].key].active /\ memory'[request[r].key].draft = noted
                 /\ request'[r].draft = None
              \/ /\ memory'[request[r].key] = NoFlow /\ noted # None
                 /\ request'[r].draft = IF waiting = r THEN noted ELSE None
<1> USE DEF AssistantIInv
<1>1. /\ request[r].pc = "types" /\ UNCHANGED boxVars
      /\ Answer(r, Turn(request[r].state, request[r].message, loaded))
  BY DEF BookingTurn
<1>2. /\ FlowOK(request[r].state) /\ request[r].message \in Messages /\ request[r].key \in Keys
  BY <1>1 DEF RequestsOK, RequestValues
<1>3. PICK answer : answer = Turn(request[r].state, request[r].message, loaded)
  OBVIOUS
<1>4. PICK was : was = Working(request[r].state, request[r].message)
  OBVIOUS
<1>5. PICK noted : noted = Extracted(request[r].message, was.awaiting, was.draft, loaded)
  OBVIOUS
<1>6. /\ Captured(was.draft) \subseteq Captured(noted)
      /\ \/ LabelFits(noted)
         \/ was.draft.range # 0 /\ (was.draft.category \notin PaperCategories \/ ~LabelFits(was.draft))
      /\ \/ answer.state.active /\ answer.state.draft = noted /\ answer.draft = None
         \/ answer.state = NoFlow /\ answer.draft = noted /\ noted \in DraftValues
  <2>1. PICK state, message : state = request[r].state /\ message = request[r].message
    OBVIOUS
  <2>2. /\ FlowOK(state) /\ message \in Messages /\ answer = Turn(state, message, loaded)
        /\ was = Working(state, message) /\ noted = Extracted(message, was.awaiting, was.draft, loaded)
    BY <1>2, <1>3, <1>4, <1>5, <2>1
  <2> QED
    BY <2>2, TurnIs
<1>7. memory' = [memory EXCEPT ![request[r].key] = answer.state] /\ Reply(r, answer)
  BY <1>1, <1>3 DEF Answer
<1>8. memory'[request[r].key] = answer.state /\ \A k \in Keys \ {request[r].key} : memory'[k] = memory[k]
  BY <1>2, <1>7 DEF FlowsOK
<1>9. Moves(r) /\ request'[r].draft = IF waiting = r THEN answer.draft ELSE None
  BY <1>1, <1>7, Replied
<1>10. None \notin DraftValues
  BY ConversationAssumption
<1> QED
  BY <1>1, <1>4, <1>6, <1>8, <1>9, <1>10

RangeFits(r) ==
  LET was == request[r].state.draft
      now == IF request'[r].draft = None THEN memory'[request[r].key].draft ELSE request'[r].draft
  IN \/ LabelFits(now)
     \/ was.range # 0 /\ (was.category \notin PaperCategories \/ ~LabelFits(was))

LEMMA FitsStep ==
  ASSUME AssistantIInv, AssistantNext, NEW r \in Requests, request[r].pc = "types", Moves(r)
  PROVE  RangeFits(r)
<1> USE DEF AssistantIInv
<1>1. PICK loaded \in BOOLEAN : BookingTurn(r, loaded)
  BY TurnMoves
<1>2. PICK was, noted :
           /\ was = Working(request[r].state, request[r].message)
           /\ \/ LabelFits(noted)
              \/ was.draft.range # 0 /\ (was.draft.category \notin PaperCategories \/ ~LabelFits(was.draft))
           /\ \/ /\ memory'[request[r].key].active /\ memory'[request[r].key].draft = noted
                 /\ request'[r].draft = None
              \/ /\ memory'[request[r].key] = NoFlow /\ noted # None
                 /\ request'[r].draft = IF waiting = r THEN noted ELSE None
  BY <1>1, TurnHolds
<1>3. PICK now : now = IF request'[r].draft = None THEN memory'[request[r].key].draft ELSE request'[r].draft
  OBVIOUS
<1>4. now = noted \/ now = EmptyDraft
  BY <1>2, <1>3 DEF NoFlow
<1>5. EmptyDraft.category = None /\ EmptyDraft.range = 0 /\ None \notin PaperCategories
  BY AssistantAssumption DEF EmptyDraft
<1>6. LabelFits(EmptyDraft)
  BY <1>5 DEF LabelFits
<1>7. was.draft = EmptyDraft \/ was = request[r].state
  BY <1>2 DEF Working, Empty, NoFlow
<1>8. LabelFits(now) \/ (LET d == request[r].state.draft
                         IN d.range # 0 /\ (d.category \notin PaperCategories \/ ~LabelFits(d)))
  BY <1>2, <1>4, <1>5, <1>6, <1>7
<1> QED
  BY <1>3, <1>8 DEF RangeFits

(* A flow under way goes on with all it has captured, or for a cause.      *)
FlowKept(k) == memory'[k].active /\ Captured(memory[k].draft) \subseteq Captured(memory'[k].draft)

LostForCause(k) ==
  \/ ~undisturbed'
  \/ \E r \in Requests :
       /\ Moves(r) /\ request[r].key = k
       /\ \/ request[r].message.intent \in {"cancel", "reset"}
          \/ request[r].pc # "sent" /\ request[r].state # memory[k]
          \/ /\ request'[r].draft # None
             /\ Captured(memory[k].draft) \subseteq Captured(request'[r].draft)

LEMMA KeptByHandle ==
  ASSUME AssistantIInv, NEW r \in Requests, NEW forgotten \in SUBSET Keys, HandleChat(r, forgotten),
         NEW k \in Keys, memory[k].active
  PROVE  FlowKept(k) \/ LostForCause(k)
<1> USE DEF AssistantIInv
<1> DEFINE q == request[r]
           kept == [n \in Keys |-> IF n \in forgotten THEN NoFlow ELSE memory[n]]
<1>1. CASE forgotten # {}
  <2>1. undisturbed' = (undisturbed /\ forgotten = {})
    BY DEF HandleChat
  <2>2. ~undisturbed'
    BY <1>1, <2>1
  <2> QED
    BY <2>2 DEF LostForCause
<1>2. CASE forgotten = {}
  <2>1. \A n \in Keys : kept[n] = memory[n]
    BY <1>2
  <2>2. q.pc = "sent" /\ q.key \in Keys
    BY DEF HandleChat, RequestsOK, RequestValues
  <2>3. PICK state : state = kept[q.key]
    OBVIOUS
  <2>4. \/ memory' = kept
        \/ /\ memory' = [kept EXCEPT ![q.key] = NoFlow] /\ Reply(r, EndFlow)
           /\ (state.active /\ q.message.intent = "cancel") \/ q.key # "customer"
    BY <2>3 DEF HandleChat
  <2>5. CASE memory' = kept
    BY <2>1, <2>5 DEF FlowKept
  <2>6. CASE /\ memory' = [kept EXCEPT ![q.key] = NoFlow] /\ Reply(r, EndFlow)
             /\ (state.active /\ q.message.intent = "cancel") \/ q.key # "customer"
    <3>1. k # q.key => memory'[k] = memory[k]
      BY <2>1, <2>6
    <3>2. k = q.key => q.message.intent = "cancel"
      BY <2>6 DEF FlowsOK, NoFlow
    <3>3. Moves(r)
      BY <2>2, <2>6, Replied
    <3> QED
      BY <3>1, <3>2, <3>3 DEF FlowKept, LostForCause
  <2> QED
    BY <2>4, <2>5, <2>6
<1> QED
  BY <1>1, <1>2

LEMMA KeptByTurn ==
  ASSUME AssistantIInv, NEW r \in Requests, NEW loaded \in BOOLEAN, BookingTurn(r, loaded),
         NEW k \in Keys, memory[k].active
  PROVE  FlowKept(k) \/ LostForCause(k)
<1> USE DEF AssistantIInv
<1>1. PICK was, noted :
           /\ was = Working(request[r].state, request[r].message)
           /\ Captured(was.draft) \subseteq Captured(noted)
           /\ Moves(r) /\ boxVars' = boxVars
           /\ \A n \in Keys \ {request[r].key} : memory'[n] = memory[n]
           /\ \/ /\ memory'[request[r].key].active /\ memory'[request[r].key].draft = noted
                 /\ request'[r].draft = None
              \/ /\ memory'[request[r].key] = NoFlow /\ noted # None
                 /\ request'[r].draft = IF waiting = r THEN noted ELSE None
  BY TurnHolds
<1>2. request[r].pc = "types" /\ request[r].pc # "sent"
  BY DEF BookingTurn
<1>3. CASE k # request[r].key
  BY <1>1, <1>3 DEF FlowKept
<1>4. CASE request[r].key = k /\ request[r].state # memory[k]
  BY <1>1, <1>2, <1>4 DEF LostForCause
<1>5. CASE request[r].key = k /\ request[r].message.intent = "reset"
  BY <1>1, <1>5 DEF LostForCause
<1>6. CASE request[r].key = k /\ request[r].state = memory[k] /\ request[r].message.intent # "reset"
  <2>1. was = memory[k]
    BY <1>1, <1>6 DEF Working
  <2>2. CASE memory'[k].active /\ memory'[k].draft = noted
    BY <1>1, <2>1, <2>2 DEF FlowKept
  <2>3. CASE request'[r].draft = noted /\ noted # None
    BY <1>1, <1>6, <2>1, <2>3 DEF LostForCause
  <2>4. CASE waiting # r
    <3>1. ~undisturbed
      BY <1>2, <2>4 DEF UndisturbedOK, AloneOK
    <3>2. undisturbed' = undisturbed
      BY <1>1 DEF boxVars
    <3> QED
      BY <3>1, <3>2 DEF LostForCause
  <2> QED
    BY <1>1, <1>6, <2>2, <2>3, <2>4
<1> QED
  BY <1>3, <1>4, <1>5, <1>6

LEMMA KeptStep ==
  ASSUME AssistantIInv, AssistantNext, NEW k \in Keys, memory[k].active
  PROVE  FlowKept(k) \/ LostForCause(k)
<1> USE DEF AssistantIInv
<1>1. memory' = memory => FlowKept(k)
  BY DEF FlowKept
<1>2. ASSUME NEW r \in Requests, GeneralAnswer(r) PROVE FlowKept(k) \/ LostForCause(k)
  <2>1. /\ request[r].pc = "model" /\ request[r].state = NoFlow /\ request[r].key \in Keys
        /\ Answer(r, [EndFlow EXCEPT !.state = request[r].state])
    BY <1>2 DEF GeneralAnswer, RequestsOK, RequestValues
  <2>2. Moves(r)
    BY <2>1, Replied DEF Answer
  <2>3. k # request[r].key => memory'[k] = memory[k]
    BY <2>1 DEF Answer, FlowsOK
  <2>4. request[r].state # memory[k]
    BY <2>1 DEF NoFlow
  <2> QED
    BY <2>1, <2>2, <2>3, <2>4 DEF FlowKept, LostForCause
<1>3. ASSUME NEW r \in Requests, GeneralFailure(r) \/ ReceiveAnswer(r) PROVE memory' = memory
  BY <1>3 DEF GeneralFailure, ReceiveAnswer
<1>4. ASSUME NEW r \in Requests, NEW key \in Keys, NEW message \in Messages, SendMessage(r, key, message)
      PROVE  memory' = memory
  BY <1>4 DEF SendMessage
<1>5. TimeOut => memory' = memory
  BY DEF TimeOut
<1> QED
  BY <1>1, <1>2, <1>3, <1>4, <1>5, KeptByHandle, KeptByTurn DEF AssistantNext, ServerStep

(* What the person has said stands, for any messages and any number of     *)
(* requests: what a flow has captured goes only for a cause, and the range *)
(* and the weight of a paper draft agree but for a range left over.        *)
THEOREM AnswersHold == AssistantSpec => AnswersStand
<1> DEFINE Keeps ==
             \A k \in Keys : memory[k].active =>
               \/ memory'[k].active /\ Captured(memory[k].draft) \subseteq Captured(memory'[k].draft)
               \/ ~undisturbed'
               \/ \E r \in Requests :
                    /\ Moves(r) /\ request[r].key = k
                    /\ \/ request[r].message.intent \in {"cancel", "reset"}
                       \/ request[r].pc # "sent" /\ request[r].state # memory[k]
                       \/ /\ request'[r].draft # None
                          /\ Captured(memory[k].draft) \subseteq Captured(request'[r].draft)
           Fits == \A r \in Requests : request[r].pc = "types" /\ Moves(r) => RangeFits(r)
<1>1. AssistantIInv /\ [AssistantNext]_assistantVars => [Keeps]_assistantVars
  BY KeptStep DEF FlowKept, LostForCause
<1>2. AssistantIInv /\ [AssistantNext]_assistantVars => [Fits]_assistantVars
  BY FitsStep
<1>3. AssistantSpec => [][Keeps]_assistantVars
  BY <1>1, AssistantAlways, PTL DEF AssistantSpec
<1>4. AssistantSpec => [][Fits]_assistantVars
  BY <1>2, AssistantAlways, PTL DEF AssistantSpec
<1>5. [][Keeps]_assistantVars => AnswersAreKept
  BY DEF AnswersAreKept
<1>6. [][Fits]_assistantVars => RangeAndWeightAgree
  BY DEF RangeAndWeightAgree, RangeFits
<1> QED
  BY <1>3, <1>4, <1>5, <1>6 DEF AnswersStand

-----------------------------------------------------------------------------
(* BookingWizard.  The step of the details depends on the selection, since *)
(* only paper has a step for its weight.                                   *)
DetailsAt == IF IsPaperCategory THEN 3 ELSE 2

StepsOK ==
  /\ step > 1 => items # {}
  /\ IsPaperCategory /\ step > 2 => weight # 0
  /\ step > DetailsAt => AddressFields \cup {"phone"} \subseteq details /\ located
  /\ step > DetailsAt + 1 => TimeFields \subseteq details

(* An item carries the id its category is listed with now, unless prices   *)
(* came late; nothing is selected while a draft waits to be applied.       *)
IdOf(c) == IF pricing = "loaded" /\ c \in Priced THEN "priced" ELSE "new"

ItemsOK ==
  /\ draft # None => items = {}
  /\ ~late => \A i \in items : i.id = IdOf(i.category)
  /\ \A i, j \in items : i.category = j.category /\ i.id = j.id => i = j

OrderOK == OrderIsComplete /\ (located /\ pin = "default" => ticked)

BookedOK ==
  ~again => \/ made = 0 /\ unanswered = 0 /\ ~leaving /\ ~gaveUp /\ submit # "booked"
            \/ made = 1 /\ unanswered = 0 /\ submit = "booked" /\ ~leaving /\ ~gaveUp
            \/ made = 1 /\ unanswered = 0 /\ submit = "idle" /\ leaving
            \/ made + unanswered = 1 /\ submit = "idle" /\ gaveUp

FormTypes ==
  /\ pricing \in {"loading", "failed", "loaded"} /\ asked \subseteq {"latest", "geocode", "position"}
  /\ draft # None => draft \in DraftValues /\ IsComplete(draft)
  /\ items \subseteq ItemValues /\ weight \in 0..5 /\ details \subseteq Details
  /\ {listing, phoneOk, located, terms, leaving, ticked, late, gaveUp, again} \subseteq BOOLEAN
  /\ pin \in {"default", "geocode", "position"} /\ step \in 1..(DetailsAt + 2)
  /\ submit \in {"idle", "uploading", "posting", "booked"}
  /\ order.items \subseteq ItemValues /\ made \in 0..MaxBookings
  /\ unanswered \in 0..MaxBookings /\ made + unanswered <= MaxBookings

FormIInv == FormTypes /\ StepsOK /\ ItemsOK /\ OrderOK /\ BookedOK

(* Where the steps are.                                                    *)
LEMMA StepsAt ==
  /\ Len(Steps) = DetailsAt + 2 /\ DOMAIN Steps = 1..(DetailsAt + 2)
  /\ StepOf("details") = DetailsAt /\ StepOf("time") = DetailsAt + 1
  /\ IsPaperCategory => StepOf("weight") = 2
<1>1. CASE IsPaperCategory
  <2>1. Steps = PaperSteps /\ DetailsAt = 3
    BY <1>1 DEF Steps, DetailsAt
  <2>2. Len(PaperSteps) = 5 /\ DOMAIN PaperSteps = 1..5
    BY DEF PaperSteps
  <2>3. \A n \in 1..5 : /\ PaperSteps[n] = "details" <=> n = 3
                        /\ PaperSteps[n] = "time" <=> n = 4
                        /\ PaperSteps[n] = "weight" <=> n = 2
    BY DEF PaperSteps
  <2> QED
    BY <2>1, <2>2, <2>3 DEF StepOf
<1>2. CASE ~IsPaperCategory
  <2>1. Steps = OtherSteps /\ DetailsAt = 2
    BY <1>2 DEF Steps, DetailsAt
  <2>2. Len(OtherSteps) = 4 /\ DOMAIN OtherSteps = 1..4
    BY DEF OtherSteps
  <2>3. \A n \in 1..4 : /\ OtherSteps[n] = "details" <=> n = 2
                        /\ OtherSteps[n] = "time" <=> n = 3
    BY DEF OtherSteps
  <2> QED
    BY <1>2, <2>1, <2>2, <2>3 DEF StepOf
<1> QED
  BY <1>1, <1>2

LEMMA WhereAt ==
  /\ At("category") => step = 1
  /\ At("weight") <=> IsPaperCategory /\ step = 2
  /\ At("details") <=> step = DetailsAt
  /\ At("time") <=> step = DetailsAt + 1
  /\ At("confirm") <=> step = DetailsAt + 2
<1>1. CASE IsPaperCategory
  <2>1. DetailsAt = 3 /\ Steps = <<"category", "weight", "details", "time", "confirm">>
    BY <1>1 DEF Steps, DetailsAt, PaperSteps
  <2> QED
    BY <1>1, <2>1 DEF At
<1>2. CASE ~IsPaperCategory
  <2>1. DetailsAt = 2 /\ Steps = <<"category", "details", "time", "confirm">>
    BY <1>2 DEF Steps, DetailsAt, OtherSteps
  <2> QED
    BY <1>2, <2>1 DEF At
<1> QED
  BY <1>1, <1>2

LEMMA FormImplied == FormIInv => FormInv /\ (draft \in DraftValues \cup {None})
<1> SUFFICES ASSUME FormIInv PROVE FormInv
  BY DEF FormIInv, FormTypes
<1> USE DEF FormIInv
<1>1. FormTypeOK
  BY StepsAt DEF FormTypes, FormTypeOK
<1>2. ReachedInOrder
  BY StepsAt DEF StepsOK, ReachedInOrder
<1>3. OneItemPerCategory
  BY DEF ItemsOK, OneItemPerCategory
<1>4. BookedOnce
  BY DEF BookedOK, BookedOnce
<1> QED
  BY <1>1, <1>2, <1>3, <1>4 DEF OrderOK, FormInv

LEMMA FormStart == FormInit /\ prefill \in {None} \cup Kept => FormIInv
<1> SUFFICES ASSUME FormInit, prefill \in {None} \cup Kept PROVE FormIInv
  OBVIOUS
<1>1. draft # None => draft \in DraftValues /\ IsComplete(draft)
  BY ConversationAssumption DEF FormInit
<1>2. items = {} /\ ~IsPaperCategory
  BY DEF FormInit, IsPaperCategory
<1>3. DetailsAt = 2 /\ order = NoOrder /\ NoOrder.items = {}
  BY <1>2 DEF FormInit, DetailsAt, NoOrder
<1>4. details \subseteq Details
  BY DEF FormInit, Details, TimeFields
<1>5. /\ made \in 0..MaxBookings /\ step \in 1..(DetailsAt + 2)
      /\ unanswered \in 0..MaxBookings /\ made + unanswered <= MaxBookings
  BY <1>3, WizardAssumption DEF FormInit
<1>6. /\ pricing \in {"loading", "failed", "loaded"} /\ asked \subseteq {"latest", "geocode", "position"}
      /\ items \subseteq ItemValues /\ weight \in 0..5 /\ order.items \subseteq ItemValues
      /\ pin \in {"default", "geocode", "position"} /\ submit \in {"idle", "uploading", "posting", "booked"}
  BY <1>3 DEF FormInit
<1>8. {listing, phoneOk, located, terms, leaving, ticked, late, gaveUp, again} \subseteq BOOLEAN
  <2>1. \A b \in {listing, phoneOk, located, terms, leaving, ticked, late, gaveUp, again} : b = TRUE \/ b = FALSE
    BY Zenon DEF FormInit
  <2> QED
    BY <2>1
<1>7. FormTypes
  BY <1>1, <1>4, <1>5, <1>6, <1>8 DEF FormTypes
<1> QED
  BY <1>2, <1>7 DEF FormInit, FormIInv, StepsOK, DetailsAt, ItemsOK, OrderOK, OrderIsComplete, BookedOK

(* The list has one id for a category, the one its item would carry.       *)
LEMMA ListedOnce ==
  ASSUME NEW p \in CombinedPricing
  PROVE  p.category \in Categories /\ p.id = IdOf(p.category) /\ p.id \in {"priced", "new"}
BY WizardAssumption DEF CombinedPricing, IdOf

(* Answers. *)
LEMMA ListKeeps ==
  ASSUME FormIInv, CategoriesAnswered \/ \E result \in {"failed", "loaded"} : PricingAnswered(result)
  PROVE  FormIInv'
<1> USE DEF FormIInv
<1>1. UNCHANGED <<asked, draft, itemVars, detailVars, step, submitVars, prefill>>
  BY DEF CategoriesAnswered, PricingAnswered
<1>2. DetailsAt' = DetailsAt /\ IsPaperCategory' = IsPaperCategory
  BY <1>1 DEF DetailsAt, IsPaperCategory, itemVars
<1>3. ASSUME CategoriesAnswered
      PROVE  /\ pricing' \in {"loading", "failed", "loaded"} /\ {listing', late'} \subseteq BOOLEAN
             /\ ~late' => ~late /\ (items = {} \/ \A c : IdOf(c)' = IdOf(c))
  BY <1>3 DEF CategoriesAnswered, FormTypes, IdOf
<1>4. ASSUME NEW result \in {"failed", "loaded"}, PricingAnswered(result)
      PROVE  /\ pricing' \in {"loading", "failed", "loaded"} /\ {listing', late'} \subseteq BOOLEAN
             /\ ~late' => ~late /\ (items = {} \/ \A c : IdOf(c)' = IdOf(c))
  <2>1. pricing # "loaded" /\ pricing' = result /\ listing' = listing
    BY <1>4 DEF PricingAnswered
  <2>2. late' = (late \/ (result = "loaded" /\ items # {}))
    BY <1>4 DEF PricingAnswered
  <2>3. late' \in BOOLEAN /\ (~late' => ~late)
    BY <2>2, Zenon DEF FormTypes
  <2>4. ~late' => result # "loaded" \/ items = {}
    BY <2>2
  <2>5. result # "loaded" => \A c : IdOf(c)' = IdOf(c)
    BY <2>1 DEF IdOf
  <2>6. {listing', late'} \subseteq BOOLEAN
    BY <2>1, <2>3 DEF FormTypes
  <2> QED
    BY <2>1, <2>3, <2>4, <2>5, <2>6
<1>5. /\ pricing' \in {"loading", "failed", "loaded"} /\ {listing', late'} \subseteq BOOLEAN
      /\ ~late' => ~late /\ (items = {} \/ \A c : IdOf(c)' = IdOf(c))
  BY <1>3, <1>4
<1>6. FormTypes'
  BY <1>1, <1>2, <1>5 DEF FormTypes, itemVars, detailVars, submitVars
<1>7. StepsOK' /\ OrderOK' /\ BookedOK'
  BY <1>1, <1>2 DEF StepsOK, OrderOK, OrderIsComplete, BookedOK, itemVars, detailVars, submitVars
<1>8. ItemsOK'
  BY <1>1, <1>5 DEF ItemsOK, itemVars
<1> QED
  BY <1>6, <1>7, <1>8

(* Nothing but the details changes, and they stay enough for the step.     *)
LEMMA DetailsChange ==
  ASSUME FormIInv, UNCHANGED <<pricing, listing, draft, itemVars, step, submitVars, late>>,
         asked' \subseteq {"latest", "geocode", "position"}, details' \subseteq Details,
         {phoneOk', located', terms', ticked'} \subseteq BOOLEAN, pin' \in {"default", "geocode", "position"},
         located' /\ pin' = "default" => ticked',
         step > DetailsAt => (AddressFields \cup {"phone"}) \cap details \subseteq details' /\ (located => located'),
         step > DetailsAt + 1 => TimeFields \cap details \subseteq details'
  PROVE  FormIInv'
<1> USE DEF FormIInv
<1>1. DetailsAt' = DetailsAt /\ IsPaperCategory' = IsPaperCategory
  BY DEF DetailsAt, IsPaperCategory, itemVars
<1>2. FormTypes'
  BY <1>1 DEF FormTypes, itemVars, submitVars
<1>3. StepsOK'
  BY <1>1 DEF StepsOK, itemVars
<1>4. ItemsOK' /\ BookedOK'
  BY DEF ItemsOK, BookedOK, IdOf, itemVars, submitVars
<1>5. OrderOK'
  BY DEF OrderOK, OrderIsComplete, submitVars
<1> QED
  BY <1>2, <1>3, <1>4, <1>5

LEMMA AnswersKeep ==
  ASSUME FormIInv,
         LatestAnswered \/ \E what \in {"geocode", "position"}, found \in BOOLEAN : LocationAnswered(what, found)
  PROVE  FormIInv'
<1> USE DEF FormIInv
<1>1. ASSUME LatestAnswered PROVE FormIInv'
  <2>1. /\ UNCHANGED <<pricing, listing, draft, itemVars, step, submitVars, late, phoneOk, located, pin, terms, ticked>>
        /\ asked' = asked \ {"latest"} /\ details' = details \cup AddressFields
    BY <1>1 DEF LatestAnswered
  <2>2. details' \subseteq Details /\ {phoneOk', located', terms', ticked'} \subseteq BOOLEAN
    BY <2>1 DEF FormTypes, Details
  <2>3. asked' \subseteq {"latest", "geocode", "position"} /\ pin' \in {"default", "geocode", "position"}
    BY <2>1 DEF FormTypes
  <2>4. located' /\ pin' = "default" => ticked'
    BY <2>1 DEF OrderOK
  <2> QED
    BY <2>1, <2>2, <2>3, <2>4, DetailsChange
<1>2. ASSUME NEW what \in {"geocode", "position"}, NEW found \in BOOLEAN, LocationAnswered(what, found)
      PROVE  FormIInv'
  <2>1. /\ UNCHANGED <<pricing, listing, draft, itemVars, step, submitVars, late, details, phoneOk, terms>>
        /\ asked' = asked \ {what}
    BY <1>2 DEF LocationAnswered
  <2>7. {phoneOk, located, terms, ticked} \subseteq BOOLEAN
    BY DEF FormTypes
  <2>2. \/ found /\ pin' = what /\ located' = TRUE /\ ticked' = FALSE
        \/ ~found /\ UNCHANGED <<pin, located, ticked>>
    BY <1>2 DEF LocationAnswered
  <2>3. asked' \subseteq {"latest", "geocode", "position"} /\ pin' \in {"default", "geocode", "position"}
    BY <2>1, <2>2 DEF FormTypes
  <2>4. {phoneOk', located', terms', ticked'} \subseteq BOOLEAN /\ (located => located')
    <3>1. /\ phoneOk' = phoneOk /\ terms' = terms
          /\ located' = TRUE \/ located' = located
          /\ ticked' = FALSE \/ ticked' = ticked
      BY <2>1, <2>2
    <3>2. \A b \in {phoneOk', located', terms', ticked'} : b \in BOOLEAN
      BY <2>7, <3>1
    <3>3. located => located'
      BY <2>2
    <3> QED
      BY <3>2, <3>3
  <2>5. located' /\ pin' = "default" => ticked'
    BY <2>2 DEF OrderOK
  <2>6. details' \subseteq Details
    BY <2>1 DEF FormTypes
  <2> QED
    BY <2>1, <2>3, <2>4, <2>5, <2>6, DetailsChange
<1> QED
  BY <1>1, <1>2

(* A draft is applied where nothing is selected, and the step it turns to  *)
(* is the details at most.                                                 *)
LEMMA Applied ==
  ASSUME FormIInv, NEW valid \in BOOLEAN, ApplyDraft(valid)
  PROVE  /\ \A i \in items' : /\ i = [category |-> draft.category, id |-> IdOf(draft.category), kg |-> draft.kg]
                              /\ i \in ItemValues
                              /\ i.category \in PaperCategories => weight' # 0
         /\ items' = {} => \A p \in CombinedPricing : p.category # draft.category
         /\ weight' \in 0..5 /\ details' \subseteq Details /\ draft.filled \subseteq details'
         /\ step' \in {1, 2, 3} /\ step' <= DetailsAt' /\ (step' > 1 => items' # {})
<1> USE DEF FormIInv
<1> DEFINE matched == {p \in CombinedPricing : p.category = draft.category}
           byRange == draft.category \in PaperCategories
<1>1. items = {} /\ draft \in DraftValues /\ IsComplete(draft)
  BY DEF ApplyDraft, DraftDue, ItemsOK, FormTypes
<1>2. draft.kg \in Nat \ {0} /\ draft.category \in Categories /\ draft.range \in 0..5 /\ draft.filled \subseteq Details
  BY <1>1 DEF DraftValues, IsComplete
<1>3. byRange => draft.range # 0
  BY <1>1 DEF IsComplete
<1>4. /\ items' = IF matched = {} THEN items ELSE {ItemFor(p, draft.kg) : p \in matched}
      /\ weight' = (IF byRange /\ draft.range # 0 THEN draft.range ELSE weight)
      /\ details' = details \cup draft.filled
      /\ step' = (IF matched = {} THEN 1 ELSE IF byRange /\ draft.range # 0 THEN 3 ELSE 2)
  BY DEF ApplyDraft
<1>5. \A p \in matched : ItemFor(p, draft.kg) = [category |-> draft.category, id |-> IdOf(draft.category), kg |-> draft.kg]
  BY ListedOnce DEF ItemFor
<1>6. \A i \in items' : i = [category |-> draft.category, id |-> IdOf(draft.category), kg |-> draft.kg]
  BY <1>1, <1>4, <1>5
<1>7. IdOf(draft.category) \in {"priced", "new"}
  BY DEF IdOf
<1>8. \A i \in items' : i \in ItemValues /\ i.category = draft.category
  BY <1>2, <1>6, <1>7 DEF ItemValues
<1>9. byRange => weight' # 0
  BY <1>3, <1>4
<1>10. weight' \in 0..5 /\ details' \subseteq Details /\ draft.filled \subseteq details'
  BY <1>2, <1>4 DEF FormTypes
<1>11. items' = {} <=> matched = {}
  <2>1. matched = {} => items' = {}
    BY <1>1, <1>4
  <2>2. ASSUME NEW p \in matched PROVE ItemFor(p, draft.kg) \in items'
    BY <2>2, <1>4
  <2> QED
    BY <2>1, <2>2
<1>12. step' \in {1, 2, 3} /\ step' <= DetailsAt' /\ (step' > 1 => items' # {})
  <2>1. matched # {} /\ byRange => IsPaperCategory'
    BY <1>8, <1>11 DEF IsPaperCategory
  <2>2. DetailsAt' \in {2, 3} /\ (IsPaperCategory' => DetailsAt' = 3)
    BY DEF DetailsAt
  <2>3. step' \in {1, 2, 3} /\ (step' = 3 => matched # {} /\ byRange) /\ (step' > 1 => matched # {})
    BY <1>4
  <2> QED
    BY <1>11, <2>1, <2>2, <2>3
<1> QED
  BY <1>6, <1>8, <1>9, <1>10, <1>11, <1>12

LEMMA DraftKeeps ==
  ASSUME FormIInv, NEW valid \in BOOLEAN, ApplyDraft(valid)
  PROVE  FormIInv'
<1> USE DEF FormIInv
<1>1. /\ draft' = None /\ phoneOk' = valid /\ located' = FALSE /\ asked' = asked \cup {"geocode"}
      /\ UNCHANGED <<pricing, listing, pin, terms, ticked, submit, order, made, unanswered, leaving, gaveUp, again,
                      late>>
  BY DEF ApplyDraft, submitVars
<1>2. /\ items' \subseteq ItemValues /\ weight' \in 0..5 /\ details' \subseteq Details
      /\ step' \in {1, 2, 3} /\ step' <= DetailsAt' /\ (step' > 1 => items' # {})
      /\ IsPaperCategory' => weight' # 0
  BY Applied DEF IsPaperCategory
<1>3. DetailsAt' \in {2, 3}
  BY DEF DetailsAt
<1>4. {listing', phoneOk', located', terms', leaving', ticked', late', gaveUp', again'} \subseteq BOOLEAN
  BY <1>1 DEF FormTypes
<1>5. step' \in 1..(DetailsAt' + 2) /\ ~(step' > DetailsAt') /\ ~(step' > DetailsAt' + 1)
  <2>1. step' \in {1, 2, 3} /\ step' <= DetailsAt'
    BY Applied
  <2>2. CASE DetailsAt' = 2
    BY <2>1, <2>2
  <2>3. CASE DetailsAt' = 3
    BY <2>1, <2>3
  <2> QED
    BY <1>3, <2>2, <2>3
<1>6. FormTypes'
  BY <1>1, <1>2, <1>4, <1>5 DEF FormTypes
<1>7. StepsOK'
  BY <1>2, <1>5, Zenon DEF StepsOK
<1>8. \A c : IdOf(c)' = IdOf(c)
  BY <1>1 DEF IdOf
<1>9. ItemsOK'
  <2>1. \A i \in items' : i.category = draft.category /\ i.id = IdOf(draft.category)
    BY Applied
  <2>2. \A i, j \in items' : i = j
    BY Applied
  <2>3. \A i \in items' : i.id = IdOf(i.category)'
    BY <1>8, <2>1
  <2> QED
    BY <1>1, <2>2, <2>3 DEF ItemsOK
<1>10. OrderOK' /\ BookedOK'
  BY <1>1 DEF OrderOK, OrderIsComplete, BookedOK
<1> QED
  BY <1>6, <1>7, <1>9, <1>10

(* The person.  Selecting happens on the first step, where nothing has to  *)
(* be complete yet.                                                        *)
LEMMA SelectionKeeps ==
  ASSUME FormIInv, NEW p \in CombinedPricing, ToggleSelection(p) \/ AddImages(p)
  PROVE  FormIInv'
<1> USE DEF FormIInv
<1>1. /\ UNCHANGED <<pricing, listing, asked, draft, weight, detailVars, step, submitVars, late>>
      /\ step = 1 /\ Ready
  BY WhereAt DEF ToggleSelection, AddImages, queryVars
<1>2. draft = None
  BY <1>1 DEF Ready, DraftDue
<1>3. \/ items' = {i \in items : ~(i.category = p.category /\ i.id = p.id)}
      \/ ~Chosen(p) /\ items' = items \cup {ItemFor(p, 1)}
  BY DEF ToggleSelection, AddImages
<1>4. ItemFor(p, 1) = [category |-> p.category, id |-> p.id, kg |-> 1] /\ p.id = IdOf(p.category)
  BY ListedOnce DEF ItemFor
<1>5. ItemFor(p, 1) \in ItemValues
  BY <1>4, ListedOnce DEF ItemValues
<1>6. items' \subseteq ItemValues
  BY <1>3, <1>5 DEF FormTypes
<1>7. \A c : IdOf(c)' = IdOf(c)
  BY <1>1 DEF IdOf
<1>8. DetailsAt' \in {2, 3}
  BY DEF DetailsAt
<1>9. step' \in 1..(DetailsAt' + 2) /\ ~(step' > 1) /\ ~(step' > 2) /\ ~(step' > DetailsAt') /\ ~(step' > DetailsAt' + 1)
  <2>1. CASE DetailsAt' = 2
    BY <1>1, <2>1
  <2>2. CASE DetailsAt' = 3
    BY <1>1, <2>2
  <2> QED
    BY <1>8, <2>1, <2>2
<1>10. FormTypes'
  BY <1>1, <1>2, <1>6, <1>9 DEF FormTypes, detailVars, submitVars
<1>11. StepsOK'
  BY <1>9, Zenon DEF StepsOK
<1>12. ItemsOK'
  <2>1. \A i, j \in items' : i.category = j.category /\ i.id = j.id => i = j
    BY <1>3, <1>4 DEF ItemsOK, Chosen
  <2>2. ~late => \A i \in items' : i.id = IdOf(i.category)
    BY <1>3, <1>4 DEF ItemsOK
  <2> QED
    BY <1>1, <1>2, <1>7, <2>1, <2>2 DEF ItemsOK
<1>13. OrderOK' /\ BookedOK'
  BY <1>1 DEF OrderOK, OrderIsComplete, BookedOK, detailVars, submitVars
<1> QED
  BY <1>10, <1>11, <1>12, <1>13

LEMMA WeightKeeps ==
  ASSUME FormIInv, NEW range \in Offered, ChooseWeight(range)
  PROVE  FormIInv'
<1> USE DEF FormIInv
<1>1. /\ UNCHANGED <<pricing, listing, asked, draft, items, detailVars, step, submitVars, late>>
      /\ weight' = range
  BY DEF ChooseWeight, queryVars
<1>2. range \in 1..5
  BY WizardAssumption
<1>3. DetailsAt' = DetailsAt /\ IsPaperCategory' = IsPaperCategory
  BY <1>1 DEF DetailsAt, IsPaperCategory
<1>4. FormTypes'
  BY <1>1, <1>2, <1>3 DEF FormTypes, detailVars, submitVars
<1>5. StepsOK'
  BY <1>1, <1>2, <1>3 DEF StepsOK, detailVars
<1>6. ItemsOK' /\ OrderOK' /\ BookedOK'
  BY <1>1 DEF ItemsOK, IdOf, OrderOK, OrderIsComplete, BookedOK, detailVars, submitVars
<1> QED
  BY <1>4, <1>5, <1>6

(* The fields of a step are edited on that step alone.                     *)
LEMMA EditKeeps ==
  ASSUME FormIInv, NEW f \in Edited, NEW valid \in BOOLEAN, EditDetail(f, valid)
  PROVE  FormIInv'
<1> USE DEF FormIInv
<1>1. /\ UNCHANGED <<pricing, listing, asked, draft, itemVars, step, submitVars, late, located, pin, terms, ticked>>
      /\ f \in Editable
  BY DEF EditDetail, queryVars
<1>2. details' = details \cup {f} \/ details' = details \/ details' = details \ {f}
  BY DEF EditDetail
<1>3. phoneOk' = valid \/ phoneOk' = phoneOk
  BY DEF EditDetail
<1>4. f \in Details /\ details \subseteq Details /\ {phoneOk, located, terms, ticked} \subseteq BOOLEAN
  BY WizardAssumption DEF FormTypes
<1>5. {phoneOk', located', terms', ticked'} \subseteq BOOLEAN
  <2>1. \A b \in {phoneOk', located', terms', ticked'} : b \in BOOLEAN
    BY <1>1, <1>3, <1>4
  <2> QED
    BY <2>1
<1>6. DetailsAt \in {2, 3}
  BY DEF DetailsAt
<1>7. /\ step > DetailsAt => f \in TimeFields
      /\ ~(step > DetailsAt + 1)
  <2>1. (step = DetailsAt /\ f \in AddressFields \cup {"phone"}) \/ (step = DetailsAt + 1 /\ f \in TimeFields)
    BY <1>1, WhereAt DEF Editable
  <2> QED
    BY <1>6, <2>1
<1>8. step > DetailsAt => (AddressFields \cup {"phone"}) \cap details \subseteq details'
  BY <1>2, <1>7 DEF AddressFields, TimeFields
<1>9. asked' \subseteq {"latest", "geocode", "position"} /\ pin' \in {"default", "geocode", "position"}
  BY <1>1 DEF FormTypes
<1>10. located' /\ pin' = "default" => ticked'
  BY <1>1 DEF OrderOK
<1>11. details' \subseteq Details
  BY <1>2, <1>4
<1> QED
  BY <1>1, <1>5, <1>7, <1>8, <1>9, <1>10, <1>11, DetailsChange

LEMMA TicksKeep == FormIInv /\ (AskForPosition \/ TickLocated \/ TickTerms) => FormIInv'
<1> SUFFICES ASSUME FormIInv, AskForPosition \/ TickLocated \/ TickTerms PROVE FormIInv'
  OBVIOUS
<1> USE DEF FormIInv
<1>1. {phoneOk, located, terms, ticked} \subseteq BOOLEAN /\ asked \subseteq {"latest", "geocode", "position"}
      /\ pin \in {"default", "geocode", "position"} /\ details \subseteq Details
  BY DEF FormTypes
<1>2. ASSUME AskForPosition PROVE FormIInv'
  <2>1. /\ UNCHANGED <<pricing, listing, draft, itemVars, details, phoneOk, located, pin, terms, ticked, step, submitVars, late>>
        /\ asked' = asked \cup {"position"}
    BY <1>2 DEF AskForPosition, detailVars
  <2>2. {phoneOk', located', terms', ticked'} \subseteq BOOLEAN /\ asked' \subseteq {"latest", "geocode", "position"}
    BY <1>1, <2>1
  <2>3. located' /\ pin' = "default" => ticked'
    BY <2>1 DEF OrderOK
  <2> QED
    BY <1>1, <2>1, <2>2, <2>3, DetailsChange
<1>3. ASSUME TickLocated PROVE FormIInv'
  <2>1. /\ UNCHANGED <<pricing, listing, asked, draft, itemVars, details, phoneOk, pin, terms, step, submitVars, late>>
        /\ step = DetailsAt
    BY <1>3, WhereAt DEF TickLocated, queryVars
  <2>2. located' = ~located /\ ticked' = (ticked \/ (~located /\ pin = "default"))
    BY <1>3 DEF TickLocated
  <2>3. located' \in BOOLEAN /\ ticked' \in BOOLEAN
    BY <2>2, Zenon
  <2>4. \A b \in {phoneOk', located', terms', ticked'} : b \in BOOLEAN
    BY <1>1, <2>1, <2>3
  <2>5. located' /\ pin' = "default" => ticked'
    BY <2>1, <2>2
  <2>6. ~(step > DetailsAt) /\ ~(step > DetailsAt + 1)
    <3>1. DetailsAt \in {2, 3}
      BY DEF DetailsAt
    <3> QED
      BY <2>1, <3>1
  <2>7. {phoneOk', located', terms', ticked'} \subseteq BOOLEAN
    BY <2>4
  <2>8. asked' \subseteq {"latest", "geocode", "position"} /\ pin' \in {"default", "geocode", "position"} /\ details' \subseteq Details
    BY <1>1, <2>1
  <2> QED
    BY <2>1, <2>5, <2>6, <2>7, <2>8, DetailsChange
<1>4. ASSUME TickTerms PROVE FormIInv'
  <2>1. /\ UNCHANGED <<pricing, listing, asked, draft, itemVars, details, phoneOk, located, pin, ticked, step, submitVars, late>>
        /\ terms' = ~terms
    BY <1>4 DEF TickTerms, queryVars
  <2>2. terms' \in BOOLEAN
    BY <2>1, Zenon
  <2>3. \A b \in {phoneOk', located', terms', ticked'} : b \in BOOLEAN
    BY <1>1, <2>1, <2>2
  <2>4. {phoneOk', located', terms', ticked'} \subseteq BOOLEAN
    BY <2>3
  <2>5. located' /\ pin' = "default" => ticked'
    BY <2>1 DEF OrderOK
  <2>6. asked' \subseteq {"latest", "geocode", "position"} /\ pin' \in {"default", "geocode", "position"} /\ details' \subseteq Details
    BY <1>1, <2>1
  <2> QED
    BY <2>1, <2>4, <2>5, <2>6, DetailsChange
<1> QED
  BY <1>2, <1>3, <1>4

(* Next leaves a step when what it asks for is there; Back leaves one that *)
(* was reached.                                                            *)
LEMMA TurnsKeep == FormIInv /\ (NextStep \/ Back) => FormIInv'
<1> SUFFICES ASSUME FormIInv, NextStep \/ Back PROVE FormIInv'
  OBVIOUS
<1> USE DEF FormIInv
<1>1. UNCHANGED <<pricing, listing, asked, draft, itemVars, detailVars, submitVars, late>>
  BY DEF NextStep, Back, queryVars
<1>2. DetailsAt' = DetailsAt /\ IsPaperCategory' = IsPaperCategory
  BY <1>1 DEF DetailsAt, IsPaperCategory, itemVars
<1>3. DetailsAt \in {2, 3} /\ (IsPaperCategory <=> DetailsAt = 3) /\ step \in 1..(DetailsAt + 2)
  BY DEF DetailsAt, FormTypes
<1>4. ASSUME NextStep PROVE step' \in 1..(DetailsAt + 2) /\ StepsOK'
  <2>1. step < DetailsAt + 2 /\ step' = step + 1
    BY <1>4, StepsAt DEF NextStep
  <2>2. /\ step = 1 => items # {}
        /\ IsPaperCategory /\ step = 2 => weight # 0
        /\ step = DetailsAt => AddressFields \cup {"phone"} \subseteq details /\ located
        /\ step = DetailsAt + 1 => TimeFields \subseteq details
    BY <1>4, WhereAt DEF NextStep, StepDone
  <2>3. step' \in 1..(DetailsAt + 2)
    BY <1>3, <2>1
  <2>4. /\ step' > 1 => step = 1 \/ step > 1
        /\ step' > 2 => step = 2 \/ step > 2
        /\ step' > DetailsAt => step = DetailsAt \/ step > DetailsAt
        /\ step' > DetailsAt + 1 => step = DetailsAt + 1 \/ step > DetailsAt + 1
    BY <1>3, <2>1
  <2>5. UNCHANGED <<items, weight, details, located>>
    BY <1>1 DEF itemVars, detailVars
  <2>6. StepsOK'
    BY <1>2, <2>2, <2>4, <2>5 DEF StepsOK
  <2> QED
    BY <2>3, <2>6
<1>5. ASSUME Back PROVE step' \in 1..(DetailsAt + 2) /\ StepsOK'
  <2>1. step > 1 /\ step' = step - 1
    BY <1>5 DEF Back
  <2>2. step' \in 1..(DetailsAt + 2)
    BY <1>3, <2>1
  <2>3. /\ step' > 1 => step > 1
        /\ step' > 2 => step > 2
        /\ step' > DetailsAt => step > DetailsAt
        /\ step' > DetailsAt + 1 => step > DetailsAt + 1
    BY <1>3, <2>1
  <2>4. UNCHANGED <<items, weight, details, located>>
    BY <1>1 DEF itemVars, detailVars
  <2>5. StepsOK'
    BY <1>2, <2>3, <2>4 DEF StepsOK
  <2> QED
    BY <2>2, <2>5
<1>6. FormTypes'
  BY <1>1, <1>2, <1>4, <1>5 DEF FormTypes, itemVars, detailVars, submitVars
<1>7. ItemsOK' /\ OrderOK' /\ BookedOK'
  BY <1>1 DEF ItemsOK, IdOf, OrderOK, OrderIsComplete, BookedOK, itemVars, detailVars, submitVars
<1> QED
  BY <1>4, <1>5, <1>6, <1>7

(* The submission.  Confirm reads a form of which every step is complete.  *)
LEMMA ConfirmKeeps == FormIInv /\ Confirm => FormIInv'
<1> SUFFICES ASSUME FormIInv, Confirm PROVE FormIInv'
  OBVIOUS
<1> USE DEF FormIInv
<1>1. /\ UNCHANGED <<pricing, listing, asked, draft, itemVars, detailVars, step, made, unanswered, leaving, gaveUp, late>>
      /\ submit = "idle" /\ submit' = "uploading" /\ again' = (again \/ leaving \/ gaveUp)
      /\ items # {} /\ (IsPaperCategory => weight # 0)
      /\ Details \subseteq details /\ phoneOk /\ located /\ terms
      /\ order' = [items |-> OrderedItems, details |-> details, phoneOk |-> phoneOk,
                   located |-> located, pin |-> pin, ticked |-> ticked, terms |-> terms]
  BY DEF Confirm, queryVars
<1>2. DetailsAt' = DetailsAt /\ IsPaperCategory' = IsPaperCategory
  BY <1>1 DEF DetailsAt, IsPaperCategory, itemVars
<1>3. IsPaperCategory => WeightRanges[weight].min \in Nat \ {0}
  <2>1. IsPaperCategory => weight \in 1..5
    BY <1>1 DEF FormTypes
  <2>2. \A w \in 1..5 : WeightRanges[w].min \in Nat \ {0}
    BY DEF WeightRanges
  <2> QED
    BY <2>1, <2>2
<1>4. \A i \in OrderedItems : i \in ItemValues /\ i.kg > 0
  <2>1. ASSUME NEW i \in items
        PROVE  /\ i.category \in Categories /\ i.id \in {"priced", "new"}
               /\ (IF IsPaperCategory THEN WeightRanges[weight].min ELSE i.kg) \in Nat \ {0}
    <3>1. i \in ItemValues
      BY DEF FormTypes
    <3> QED
      BY <1>3, <3>1 DEF ItemValues
  <2> QED
    BY <2>1 DEF OrderedItems, ItemValues
<1>5. OrderedItems # {}
  BY <1>1 DEF OrderedItems
<1>6. details = Details
  BY <1>1 DEF FormTypes
<1>7. again' \in BOOLEAN /\ (~again' => ~again /\ ~leaving /\ ~gaveUp)
  BY <1>1, Zenon
<1>8. \A b \in {listing', phoneOk', located', terms', leaving', ticked', late', gaveUp', again'} : b \in BOOLEAN
  BY <1>1, <1>7 DEF FormTypes, detailVars
<1>9. order'.items = OrderedItems
  BY <1>1
<1>10. /\ {listing', phoneOk', located', terms', leaving', ticked', late', gaveUp', again'} \subseteq BOOLEAN
       /\ order'.items \subseteq ItemValues
  BY <1>4, <1>8, <1>9
<1>11. FormTypes'
  BY <1>1, <1>2, <1>10 DEF FormTypes, itemVars, detailVars
<1>12. StepsOK' /\ ItemsOK'
  BY <1>1, <1>2 DEF StepsOK, ItemsOK, IdOf, itemVars, detailVars
<1>13. OrderOK'
  BY <1>1, <1>4, <1>5, <1>6 DEF OrderOK, OrderIsComplete, detailVars
<1>14. BookedOK'
  BY <1>1, <1>7 DEF BookedOK
<1> QED
  BY <1>11, <1>12, <1>13, <1>14

LEMMA SubmitKeeps ==
  ASSUME FormIInv,
         \/ Booked \/ BookedLate \/ PostAnswered \/ PostRefused \/ PostFailed
         \/ \E ok \in BOOLEAN : UploadEnded(ok)
  PROVE  FormIInv'
<1> USE DEF FormIInv
<1>1. UNCHANGED <<pricing, listing, asked, draft, itemVars, detailVars, step, late>>
  BY DEF Booked, BookedLate, PostAnswered, PostRefused, PostFailed, UploadEnded, queryVars
<1>2. DetailsAt' = DetailsAt /\ IsPaperCategory' = IsPaperCategory
  BY <1>1 DEF DetailsAt, IsPaperCategory, itemVars
<1>3. NoOrder.items = {}
  BY DEF NoOrder
<1>4. /\ \/ submit' = "idle" /\ order' = NoOrder
         \/ (submit' # "idle" => submit # "idle") /\ order' = order
      /\ submit' \in {"idle", "uploading", "posting", "booked"}
  BY DEF Booked, BookedLate, PostAnswered, PostRefused, PostFailed, UploadEnded, EndSubmit, FormTypes
<1>5. /\ made' \in 0..MaxBookings /\ unanswered' \in 0..MaxBookings /\ made' + unanswered' <= MaxBookings
      /\ leaving' \in BOOLEAN /\ gaveUp' \in BOOLEAN
      /\ again' = again
      /\ BookedOK'
  <2>1. /\ made \in 0..MaxBookings /\ unanswered \in 0..MaxBookings /\ made + unanswered <= MaxBookings
        /\ leaving \in BOOLEAN /\ gaveUp \in BOOLEAN /\ again \in BOOLEAN /\ MaxBookings \in Nat
    BY WizardAssumption DEF FormTypes
  <2>2. ASSUME Booked PROVE <1>5!1 /\ <1>5!2 /\ <1>5!3 /\ <1>5!4
    BY <2>1, <2>2 DEF Booked, BookedOK
  <2>3. ASSUME BookedLate PROVE <1>5!1 /\ <1>5!2 /\ <1>5!3 /\ <1>5!4
    BY <2>1, <2>3 DEF BookedLate, BookedOK
  <2>4. ASSUME PostAnswered PROVE <1>5!1 /\ <1>5!2 /\ <1>5!3 /\ <1>5!4
    BY <2>1, <2>4 DEF PostAnswered, EndSubmit, BookedOK
  <2>5. ASSUME PostRefused PROVE <1>5!1 /\ <1>5!2 /\ <1>5!3 /\ <1>5!4
    BY <2>1, <2>5 DEF PostRefused, EndSubmit, BookedOK
  <2>6. ASSUME PostFailed PROVE <1>5!1 /\ <1>5!2 /\ <1>5!3 /\ <1>5!4
    BY <2>1, <2>6 DEF PostFailed, EndSubmit, BookedOK
  <2>7. ASSUME NEW ok \in BOOLEAN, UploadEnded(ok) PROVE <1>5!1 /\ <1>5!2 /\ <1>5!3 /\ <1>5!4
    BY <2>1, <2>7 DEF UploadEnded, EndSubmit, BookedOK
  <2> QED
    BY <2>2, <2>3, <2>4, <2>5, <2>6, <2>7
<1>6. \A b \in {listing', phoneOk', located', terms', leaving', ticked', late', gaveUp', again'} : b \in BOOLEAN
  BY <1>1, <1>5 DEF FormTypes, detailVars
<1>7. /\ {listing', phoneOk', located', terms', leaving', ticked', late', gaveUp', again'} \subseteq BOOLEAN
      /\ order'.items \subseteq ItemValues
  BY <1>3, <1>4, <1>6 DEF FormTypes
<1>8. FormTypes'
  BY <1>1, <1>2, <1>4, <1>5, <1>7 DEF FormTypes, itemVars, detailVars
<1>9. StepsOK' /\ ItemsOK'
  BY <1>1, <1>2 DEF StepsOK, ItemsOK, IdOf, itemVars, detailVars
<1>10. OrderOK'
  BY <1>1, <1>4 DEF OrderOK, OrderIsComplete, detailVars
<1> QED
  BY <1>5, <1>8, <1>9, <1>10

LEMMA FormIdle == FormIInv /\ UNCHANGED <<formVars, prefill>> => FormIInv'
<1> SUFFICES ASSUME FormIInv, UNCHANGED <<formVars, prefill>> PROVE FormIInv'
  OBVIOUS
<1>1. UNCHANGED <<pricing, listing, asked, draft, items, weight, details, phoneOk, located, pin, terms, ticked,
                  step, submit, order, made, unanswered, leaving, gaveUp, again, late>>
  BY DEF formVars, itemVars, detailVars, submitVars
<1>2. DetailsAt' = DetailsAt /\ IsPaperCategory' = IsPaperCategory
  BY <1>1 DEF DetailsAt, IsPaperCategory
<1> QED
  BY <1>1, <1>2 DEF FormIInv, FormTypes, StepsOK, ItemsOK, IdOf, OrderOK, OrderIsComplete, BookedOK

LEMMA FormStep == FormIInv /\ [FormNext]_<<formVars, prefill>> => FormIInv'
<1> SUFFICES ASSUME FormIInv, FormNext PROVE FormIInv'
  BY FormIdle
<1>1. CASE Answered
  BY <1>1, ListKeeps, AnswersKeep, DraftKeeps DEF Answered
<1>2. CASE Filled
  BY <1>2, SelectionKeeps, WeightKeeps, EditKeeps, TicksKeep, TurnsKeep DEF Filled
<1>3. CASE Submitted
  BY <1>3, ConfirmKeeps, SubmitKeeps DEF Submitted
<1> QED
  BY <1>1, <1>2, <1>3 DEF FormNext

(* Whatever answers come while the form is filled in and whatever the      *)
(* person does, no step is shown before the ones on the way to it are      *)
(* complete, what is submitted has a weight for each item and every field, *)
(* no category is selected twice unless prices came late, and one form     *)
(* books once, counting what the server is still at after the page has     *)
(* given up, unless Confirm was pressed again after such a failure or      *)
(* while the browser was leaving.                                          *)
THEOREM FormHolds == FormSpec => []FormInv
<1>1. FormSpec => []FormIInv
  BY FormStart, FormStep, PTL DEF FormSpec
<1>2. FormIInv => FormInv
  BY FormImplied
<1> QED
  BY <1>1, <1>2, PTL

(* The draft leaves sessionStorage only when it is in the form: what it    *)
(* holds is filled in, its category is selected with its weight unless the *)
(* list has come without it, and paper has a range of weights.             *)
THEOREM DraftsReachForm == FormSpec => DraftReachesForm
<1> DEFINE Reaches ==
      draft # None /\ prefill # None /\ prefill' = None =>
        /\ draft.filled \subseteq details'
        /\ \/ \E i \in items' : i.category = draft.category /\ i.kg = draft.kg
           \/ /\ pricing = "loaded" \/ listing
              /\ \A p \in CombinedPricing : p.category # draft.category
        /\ \A i \in items' : i.category \in PaperCategories => weight' # 0
<1>1. ASSUME NEW valid \in BOOLEAN, FormIInv, ApplyDraft(valid) PROVE Reaches
  <2>1. draft.filled \subseteq details' /\ \A i \in items' : i.category \in PaperCategories => weight' # 0
    BY <1>1, Applied
  <2>2. \A i \in items' : i.category = draft.category /\ i.kg = draft.kg
    BY <1>1, Applied
  <2>3. items' = {} => \A p \in CombinedPricing : p.category # draft.category
    BY <1>1, Applied
  <2>4. pricing = "loaded" \/ listing
    BY <1>1 DEF ApplyDraft, DraftDue, CombinedPricing
  <2> QED
    BY <2>1, <2>2, <2>3, <2>4
<1>2. ASSUME FormNext, ~\E valid \in BOOLEAN : ApplyDraft(valid) PROVE prefill' = prefill
  BY <1>2 DEF FormNext, Answered, Filled, Submitted, BookedLate, PostRefused, PricingAnswered, CategoriesAnswered, LatestAnswered,
     LocationAnswered, ToggleSelection, AddImages, ChooseWeight, EditDetail, AskForPosition, TickLocated,
     TickTerms, NextStep, Back, Confirm, Booked, PostAnswered, PostFailed, UploadEnded, queryVars
<1>3. FormIInv /\ [FormNext]_<<formVars, prefill>> => [Reaches]_<<formVars, prefill>>
  BY <1>1, <1>2
<1>4. FormSpec => []FormIInv
  BY FormStart, FormStep, PTL DEF FormSpec
<1> QED
  BY <1>3, <1>4, PTL DEF FormSpec, DraftReachesForm

===============================================================================
