------------------------------ MODULE UsersPanel ------------------------------
(***************************************************************************)
(* The administrator's page of users (admin/users/page.tsx): one dialog    *)
(* for adding and editing, which can be closed and opened for another user *)
(* while a save is under way, and a question before a user is deleted.  A  *)
(* save pressed without a network waits for one, and takes the user to be  *)
(* edited from the page as it is by then.                                  *)
(***************************************************************************)
CONSTANTS People, NoPerson

VARIABLES online,   \* the browser has a network
          dialog,   \* showModal
          editing,  \* editingUser
          form,     \* formData: whose it is, and whether it is complete
          saving,   \* the save under way: at most one
          confirm,  \* confirmDeleteUser
          deleting, \* deletingUserId
          removals  \* deletions under way; the page follows the latest

panelVars == <<online, dialog, editing, form, saving, confirm, deleting, removals>>
dialogVars == <<online, dialog, editing, form, saving>>
removalVars == <<confirm, deleting, removals>>

NoSave == [op |-> "none", stage |-> "none"]
Blank == [of |-> NoPerson, full |-> FALSE]

UsersPanelInit ==
  /\ online = TRUE
  /\ dialog = FALSE /\ editing = NoPerson /\ form = Blank /\ saving = NoSave
  /\ confirm = NoPerson /\ deleting = NoPerson /\ removals = {}

ResetForm == form' = Blank /\ editing' = NoPerson

AddUser ==
  /\ ~dialog /\ dialog' = TRUE /\ ResetForm
  /\ UNCHANGED <<online, saving, removalVars>>

EditUser(p) ==
  /\ ~dialog /\ dialog' = TRUE
  /\ editing' = p /\ form' = [of |-> p, full |-> TRUE]
  /\ UNCHANGED <<online, saving, removalVars>>

TypeUser ==
  /\ dialog /\ form' = [form EXCEPT !.full = ~@]
  /\ UNCHANGED <<online, dialog, editing, saving, removalVars>>

CloseUser ==
  /\ dialog /\ dialog' = FALSE
  /\ UNCHANGED <<online, editing, form, saving, removalVars>>

SaveUser ==
  /\ dialog /\ form.full /\ saving = NoSave
  /\ saving' = [op |-> IF editing = NoPerson THEN "create" ELSE "update",
                of |-> form.of, user |-> editing,
                stage |-> IF online THEN "sent" ELSE "paused", waited |-> ~online]
  /\ UNCHANGED <<online, dialog, editing, form, removalVars>>

LoseNetwork ==
  /\ online /\ online' = FALSE
  /\ UNCHANGED <<dialog, editing, form, saving, removalVars>>

(* mutationFn runs now: its path names the user being edited now.          *)
Reconnect ==
  /\ ~online /\ online' = TRUE
  /\ saving' = IF saving.stage # "paused" THEN saving
               ELSE [saving EXCEPT !.stage = "sent", !.user = IF saving.op = "update" THEN editing ELSE @]
  /\ UNCHANGED <<dialog, editing, form, removalVars>>

UserSaved ==
  /\ saving.stage = "sent"
  /\ saving.op = "update" => saving.user # NoPerson
  /\ saving' = NoSave /\ dialog' = FALSE /\ ResetForm
  /\ UNCHANGED <<online, removalVars>>

UserNotSaved ==
  /\ saving.stage = "sent" /\ saving' = NoSave
  /\ UNCHANGED <<online, dialog, editing, form, removalVars>>

AskRemoval(p) ==
  /\ confirm = NoPerson /\ deleting # p
  /\ confirm' = p
  /\ UNCHANGED <<dialogVars, deleting, removals>>

CancelRemoval ==
  /\ confirm # NoPerson /\ confirm' = NoPerson
  /\ UNCHANGED <<dialogVars, deleting, removals>>

ConfirmRemoval ==
  /\ confirm # NoPerson /\ deleting # confirm
  /\ deleting' = confirm
  /\ removals' = {[k EXCEPT !.latest = FALSE] : k \in removals} \cup {[user |-> confirm, latest |-> TRUE]}
  /\ UNCHANGED <<dialogVars, confirm>>

(* Mutant: the button is freed by a success only.                          *)
RemovalAnsweredOk(k, ok) ==
  /\ removals' = removals \ {k}
  /\ IF k.latest /\ ok THEN deleting' = NoPerson /\ confirm' = NoPerson
     ELSE UNCHANGED <<deleting, confirm>>
  /\ UNCHANGED dialogVars

RemovalAnswered(k, ok) ==
  /\ removals' = removals \ {k}
  /\ IF k.latest
     THEN deleting' = NoPerson /\ confirm' = IF ok THEN NoPerson ELSE confirm
     ELSE UNCHANGED <<deleting, confirm>>
  /\ UNCHANGED dialogVars

UsersPanelNext ==
  \/ AddUser \/ TypeUser \/ CloseUser \/ SaveUser \/ UserSaved \/ UserNotSaved
  \/ LoseNetwork \/ Reconnect \/ CancelRemoval \/ ConfirmRemoval
  \/ \E p \in People : EditUser(p) \/ AskRemoval(p)
  \/ \E k \in removals, ok \in BOOLEAN : RemovalAnswered(k, ok)

UsersPanelSpec == UsersPanelInit /\ [][UsersPanelNext]_panelVars

(* Whatever is closed, opened for another and answered late: the dialog    *)
(* shows the data of the user it names; a user is updated with his own     *)
(* data, unless the save had to wait for a network; the button that is     *)
(* locked by a deletion is freed by its answer.                            *)
UsersPanelInv ==
  /\ dialog => form.of = editing
  /\ saving.stage = "sent" => saving.user = saving.of \/ saving.waited
  /\ deleting # NoPerson => [user |-> deleting, latest |-> TRUE] \in removals
=============================================================================
