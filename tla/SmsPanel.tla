------------------------------- MODULE SmsPanel -------------------------------
(***************************************************************************)
(* The administrator's page of text messages (admin/sms/page.tsx): numbers *)
(* are chosen from the bookings listed, over several filters, and a text   *)
(* is sent to all of them by one call of the SMS service.                  *)
(***************************************************************************)
EXTENDS Naturals, FiniteSets

CONSTANTS Phones,   \* numbers as customers wrote them
          Dialled,  \* Dialled[p]: the number to call, 0 when it is not one of Sri Lanka
          MaxTexts  \* messages written, bound of the model

(* A number to call is written as it is called. *)
ASSUME PhonesAssumption ==
  /\ MaxTexts \in Nat /\ 0 \notin Phones
  /\ \A p \in Phones : Dialled[p] \in Phones => Dialled[Dialled[p]] = Dialled[p]

VARIABLES listed,    \* phones of the bookings listed under the filter
          selected,  \* selectedPhones
          message,   \* the message written: its number, 0 when there is none
          written,   \* messages written so far
          texting,   \* the call under way
          received,  \* received[p][m]: times the phone p was sent message m, counted up to two
          undecided  \* messages whose call failed, or was given up

smsVars == <<listed, selected, message, written, texting, received, undecided>>

NoText == [stage |-> "none"]

SmsInit ==
  /\ listed = {} /\ selected = {} /\ message = 0 /\ written = 0
  /\ texting = NoText
  /\ received = [p \in Phones |-> [m \in 1 .. MaxTexts |-> 0]]
  /\ undecided = {}

(* normalizeSriLankaPhone, or what was written.                            *)
Normalized(p) == IF Dialled[p] = 0 THEN p ELSE Dialled[p]

ListBookings(found) ==
  /\ listed' = found
  /\ UNCHANGED <<selected, message, written, texting, received, undecided>>

AllPhoneNumbers == {Normalized(p) : p \in listed}

(* The two are compared by their sizes.                                    *)
SelectAll ==
  /\ selected' = IF Cardinality(selected) = Cardinality(AllPhoneNumbers) THEN {} ELSE AllPhoneNumbers
  /\ UNCHANGED <<listed, message, written, texting, received, undecided>>

TogglePhone(n) ==
  /\ n \in AllPhoneNumbers \cup selected
  /\ selected' = IF n \in selected THEN selected \ {n} ELSE selected \cup {n}
  /\ UNCHANGED <<listed, message, written, texting, received, undecided>>

WriteMessage ==
  /\ written < MaxTexts /\ written' = written + 1 /\ message' = written + 1
  /\ UNCHANGED <<listed, selected, texting, received, undecided>>

(* Mutant: the button is not disabled while a call is under way.           *)
SendAgain ==
  /\ selected # {} /\ message # 0
  /\ texting' = [stage |-> "sent", to |-> selected, m |-> message]
  /\ UNCHANGED <<listed, selected, message, written, received, undecided>>

SendSms ==
  /\ texting = NoText /\ selected # {} /\ message # 0
  /\ texting' = [stage |-> "sent", to |-> selected, m |-> message]
  /\ UNCHANGED <<listed, selected, message, written, received, undecided>>

(* The service sends one text for each number in the list it is given.     *)
Texts(p, to) == Cardinality({n \in to : n = p \/ n = Dialled[p]})

ServiceSends(stage) ==
  /\ texting.stage = "sent" /\ texting' = [texting EXCEPT !.stage = stage]
  /\ received' = [p \in Phones |->
       [received[p] EXCEPT ![texting.m] = IF @ + Texts(p, texting.to) < 2 THEN @ + Texts(p, texting.to) ELSE 2]]
  /\ UNCHANGED <<listed, selected, message, written, undecided>>

ServiceFails ==
  /\ texting.stage = "sent" /\ texting' = [texting EXCEPT !.stage = "error"]
  /\ UNCHANGED <<listed, selected, message, written, received, undecided>>

(* A success also clears what was chosen and written meanwhile.            *)
SmsAnswered ==
  /\ texting.stage \in {"success", "error"} /\ texting' = NoText
  /\ IF texting.stage = "success"
     THEN selected' = {} /\ message' = 0 /\ UNCHANGED undecided
     ELSE undecided' = undecided \cup {texting.m} /\ UNCHANGED <<selected, message>>
  /\ UNCHANGED <<listed, written, received>>

SmsNext ==
  \/ \E found \in SUBSET Phones : ListBookings(found)
  \/ SelectAll \/ \E p \in Phones : TogglePhone(Normalized(p))
  \/ WriteMessage \/ SendSms \/ ServiceFails \/ SmsAnswered
  \/ \E stage \in {"success", "error"} : ServiceSends(stage)

SmsSpec == SmsInit /\ [][SmsNext]_smsVars

(* A message reaches a person once, however often and in whatever form his *)
(* number is listed and selected, and whatever is pressed while it is on   *)
(* its way; a second time only after an answer that it had not been sent.  *)
TextedOnce ==
  \A p \in Phones, m \in 1 .. MaxTexts : received[p][m] > 1 => m \in undecided
=============================================================================
