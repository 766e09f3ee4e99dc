------------------------------- MODULE MCClient -------------------------------
(***************************************************************************)
(* The conversation with the assistant, and the booking form its draft     *)
(* goes to.  A behaviour is a conversation, followed until it has left a   *)
(* draft, or a form that is opened with a draft or without one, by someone *)
(* with an earlier booking and a phone number or with neither.             *)
(***************************************************************************)
EXTENDS BookingWizard, TLC

CONSTANTS r1, r2, paper, metal

VARIABLE focus

vars == <<assistantVars, formVars, focus>>

Nothing == [intent |-> "none", category |-> None, kg |-> 0, range |-> 0, finds |-> {},
            text |-> "text"]

Said == {
  [Nothing EXCEPT !.intent = "create", !.category = paper, !.kg = 5, !.range = 1,
                  !.finds = {"phone", "scheduledTimeSlot"}],
  [Nothing EXCEPT !.intent = "cancel"],
  [Nothing EXCEPT !.intent = "reset"],
  [Nothing EXCEPT !.finds = {"digits"}],
  [Nothing EXCEPT !.category = metal, !.kg = 20] }

Drafts == {[category |-> paper, kg |-> 5, range |-> 2, filled |-> Details],
           [category |-> metal, kg |-> 20, range |-> 0, filled |-> Details]}

Init ==
  /\ focus \in {"chat", "form"}
  /\ AssistantInit /\ FormInit
  /\ focus = "chat" => prefill = None /\ asked = {} /\ details = {"scheduledDate"}
  /\ focus = "form" => person = "customer" /\ ("latest" \in asked <=> "phone" \in details)

(* A conversation is followed up to its draft.  A bound: a guest's message *)
(* overlaps no other.                                                      *)
GuestsAlone ==
  \A r \in Requests : request'[r].pc # "free" /\ request'[r].key = "guest" =>
    \A o \in Requests \ {r} : request'[o].pc = "free"

Chat == prefill = None /\ AssistantNext /\ GuestsAlone /\ UNCHANGED formVars

(* A form is filled in until it has been booked or may still be; Confirm   *)
(* may be pressed again after that.  A bound: the position is asked for    *)
(* while no other answer but those for the list is awaited.                *)
Form ==
  /\ Answered \/ Submitted \/ (made + unanswered = 0 /\ Filled)
  /\ "position" \in asked' \ asked => asked = {}
  /\ UNCHANGED <<memoryVars, person, waiting, shown, undisturbed, alone>>

Next ==
  /\ UNCHANGED focus
  /\ \/ focus = "chat" /\ Chat
     \/ focus = "form" /\ Form

Spec == Init /\ [][Next]_vars

Alike == Permutations(Requests)
=============================================================================
