---------------------------- MODULE SettingsPages ----------------------------
(***************************************************************************)
(* The profile page of a customer and the settings pages of administrators *)
(* and drivers: the form filled from the user of AuthProvider, the calls   *)
(* that change the account while it is open, the photo that is cropped,    *)
(* drawn and sent, the list of passkeys, and what the browser keeps.       *)
(***************************************************************************)
EXTENDS Naturals, Sequences, FiniteSets

CONSTANTS FullNames,  \* full names, as sequences of words
          Photos,     \* photos a person may choose; 0 is none
          PasskeyIds, \* passkeys
          Loads,      \* slots for listings of the passkeys under way
          Prefs,      \* settings of the preferences; 0 are the defaults
          NoAccount,  \* nobody signed in, no row
          Waiting,    \* a listing asked for
          NoLoad,     \* no listing asked for
          Reads,      \* slots for users other parts of the client are fetching
          MaxEdits    \* bound: calls made and names typed

(* What the page calls.                                                    *)
PageCalls == {"save", "upload", "remove", "delete"}

Words == UNION {{name[i] : i \in DOMAIN name} : name \in FullNames}

ASSUME SettingsAssumption ==
  /\ 0 \in Prefs /\ 0 \notin Photos /\ Reads \cap PageCalls = {}
  /\ FullNames \subseteq Seq(Words) /\ \A name \in FullNames : Len(name) > 1
  /\ Waiting # NoLoad /\ \A S \in SUBSET PasskeyIds : S # Waiting /\ S # NoLoad

VARIABLES screen,   \* "profile", "admin" or "driver"
          person,   \* the user's row
          account,  \* the user AuthProvider gives
          form,     \* the names in the form
          sending,  \* sending[op]: the call of op, if one is under way
          crop,     \* the crop dialogue is open
          preview,  \* localAvatarPreview
          drawing,  \* a canvas is being drawn for the preview
          edits,
          typed, alone, dropped, late   \* observed, see the properties

accountVars == <<person, account, form, sending, crop, preview, drawing, edits,
                 typed, alone, dropped, late>>

VARIABLES passkeys, \* those of the server
          listed,   \* those the page shows
          loading,  \* loading[l]: a listing under way
          removing, \* passkeys whose removal is under way
          settled   \* observed: no listing failed or met another since the last one asked for

passkeyVars == <<passkeys, listed, loading, removing, settled>>

VARIABLES pref,     \* the preferences the page has
          kept,     \* those in localStorage
          merged,   \* what a driver's page has read of them, to be shown next
          stage,    \* "away", "mounting" or "ready"
          chosen,   \* observed: the preferences chosen last
          cut,      \* observed: a page was left while it mounted
          notify,   \* the flag in localStorage that notifications are on
          status,   \* the status shown of it
          asking    \* the browser asks for permission

prefVars == <<pref, kept, merged, stage, chosen, cut, notify, status, asking>>

-----------------------------------------------------------------------------
(* The form.                                                               *)

Word(name, i) == IF i \in DOMAIN name THEN <<name[i]>> ELSE <<>>

ProfileNames(name) == [first |-> Word(name, 1), last |-> Word(name, 2)]
SettingsNames(name) ==
  [first |-> Word(name, 1), last |-> IF name = <<>> THEN <<>> ELSE Tail(name)]

NameOf(user) == IF user = NoAccount THEN <<>> ELSE user.name
FormOf(user) ==
  IF screen = "profile" THEN ProfileNames(NameOf(user)) ELSE SettingsNames(NameOf(user))

(* The profile is filled again with every new user object, the settings    *)
(* when a value has changed.                                               *)
Refills(user) == screen = "profile" \/ NameOf(user) # NameOf(account)

SetUser(user) ==
  /\ account' = user
  /\ form' = IF Refills(user) THEN FormOf(user) ELSE form
  /\ typed' = (typed /\ ~Refills(user))
  /\ dropped' = (dropped \/ (typed /\ Refills(user) /\ NameOf(user) = NameOf(account)))

TypeName ==
  /\ account # NoAccount /\ ~crop
  /\ \E name \in FullNames : form' = SettingsNames(name)
  /\ typed' = TRUE
  /\ UNCHANGED <<person, account, sending, crop, preview, drawing, alone, dropped, late>>

ResetForm ==
  /\ form' = FormOf(account) /\ typed' = FALSE
  /\ UNCHANGED <<person, account, sending, crop, preview, drawing, alone, dropped, late>>

-----------------------------------------------------------------------------
(* Calls.  Each is one of PATCH /me (and GET /me after "save"), DELETE /me,*)
(* or a user that another request's token refresh or the refreshProfile of *)
(* a page left before brings.                                              *)

Unsent == [at |-> "none", body |-> 0, answer |-> NoAccount]
Sends == PageCalls \cup Reads
Idles(ops) == \A op \in ops : sending[op] = Unsent

AccountInit ==
  /\ screen \in {"profile", "admin", "driver"}
  /\ person \in [name: FullNames, photo: {0}] /\ account = person
  /\ form = FormOf(person)
  /\ sending = [op \in Sends |-> Unsent]
  /\ crop = FALSE /\ preview = FALSE /\ drawing = FALSE /\ edits = 0
  /\ typed = FALSE /\ alone = TRUE /\ dropped = FALSE /\ late = FALSE

Start(op, at, body) ==
  /\ account # NoAccount
  /\ sending[op] = Unsent
  /\ sending' = [sending EXCEPT ![op] = [Unsent EXCEPT !.at = at, !.body = body]]
  /\ alone' = Idles(Sends)

SaveProfile ==
  /\ ~crop /\ form.first # <<>> /\ form.last # <<>>
  /\ Start("save", "sent", form.first \o form.last)
  /\ UNCHANGED <<person, account, form, crop, preview, drawing, typed, dropped, late>>

RemovePhoto ==
  /\ ~crop /\ screen = "profile"
  /\ Start("remove", "sent", 0)
  /\ UNCHANGED <<person, account, form, crop, preview, drawing, typed, dropped, late>>

DeleteAccount ==
  /\ ~crop /\ screen = "profile"
  /\ Start("delete", "sent", 0)
  /\ UNCHANGED <<person, account, form, crop, preview, drawing, typed, dropped, late>>

AskForUser(r) ==
  /\ Start(r, "sent", 0)
  /\ UNCHANGED <<person, account, form, crop, preview, drawing, typed, dropped, late>>

StoreImage ==
  /\ sending["upload"].at = "storing"
  /\ sending' = [sending EXCEPT !["upload"].at = "sent"]
  /\ UNCHANGED <<person, account, form, crop, preview, drawing, typed, alone, dropped, late>>

Serve(op) ==
  /\ sending[op].at = "sent" /\ person # NoAccount
  /\ person' = CASE op = "save" -> [person EXCEPT !.name = sending[op].body]
                 [] op \in {"upload", "remove"} -> [person EXCEPT !.photo = sending[op].body]
                 [] op = "delete" -> NoAccount
                 [] op \in Reads -> person
  /\ sending' = [sending EXCEPT ![op].at = "served", ![op].answer = person']
  /\ UNCHANGED <<account, form, crop, preview, drawing, typed, alone, dropped, late>>

(* refreshProfile, after a save.                                           *)
RefreshProfile ==
  /\ sending["save"].at = "served"
  /\ sending' = [sending EXCEPT !["save"].at = "reloading"]
  /\ UNCHANGED <<person, account, form, crop, preview, drawing, typed, alone, dropped, late>>

ServeProfile ==
  /\ sending["save"].at = "reloading" /\ person # NoAccount
  /\ sending' = [sending EXCEPT !["save"].at = "reloaded", !["save"].answer = person]
  /\ UNCHANGED <<person, account, form, crop, preview, drawing, typed, alone, dropped, late>>

(* An upload that has ended takes the preview away, whosever it is.        *)
Ended(op) ==
  /\ sending' = [sending EXCEPT ![op] = Unsent]
  /\ IF op = "upload" THEN preview' = FALSE /\ late' = FALSE ELSE UNCHANGED <<preview, late>>

Take(op) ==
  /\ sending[op].at = IF op = "save" THEN "reloaded" ELSE "served"
  /\ SetUser(sending[op].answer)
  /\ Ended(op)
  /\ UNCHANGED <<person, crop, drawing, alone>>

Fails(op) ==
  /\ sending[op] # Unsent
  /\ Ended(op)
  /\ alone' = FALSE
  /\ UNCHANGED <<person, account, form, crop, drawing, typed, dropped>>

-----------------------------------------------------------------------------
(* The photo.  While the dialogue is open every rendering of the page      *)
(* starts a drawing; one under way is not stopped when it closes.          *)

ChoosePhoto ==
  /\ screen = "profile" /\ account # NoAccount /\ ~crop /\ sending["upload"] = Unsent
  /\ crop' = TRUE /\ preview' = FALSE /\ late' = FALSE
  /\ UNCHANGED <<person, account, form, sending, drawing, typed, alone, dropped>>

Draw ==
  /\ crop /\ ~drawing /\ drawing' = TRUE
  /\ UNCHANGED <<person, account, form, sending, crop, preview, typed, alone, dropped, late>>

Drawn ==
  /\ drawing /\ drawing' = FALSE
  /\ preview' \in BOOLEAN
  /\ late' = (preview' /\ ~crop)
  /\ UNCHANGED <<person, account, form, sending, crop, typed, alone, dropped>>

(* onCancel, and what the dialogue does as it goes.                        *)
CloseCropper == crop' = FALSE /\ preview' = FALSE /\ late' = FALSE

CancelCrop ==
  /\ crop /\ CloseCropper
  /\ UNCHANGED <<person, account, form, sending, drawing, typed, alone, dropped>>

SaveCrop ==
  /\ crop
  /\ \E photo \in Photos : Start("upload", "storing", photo)
  /\ CloseCropper
  /\ UNCHANGED <<person, account, form, drawing, typed, dropped>>

Edits == TypeName \/ SaveProfile \/ RemovePhoto \/ DeleteAccount \/ SaveCrop

AccountPageNext ==
  \/ edits < MaxEdits /\ edits' = edits + 1 /\ Edits
  \/ /\ UNCHANGED edits
     /\ \/ ResetForm \/ StoreImage \/ RefreshProfile \/ ServeProfile
        \/ ChoosePhoto \/ Draw \/ Drawn \/ CancelCrop
        \/ \E op \in Sends : Serve(op) \/ Take(op) \/ Fails(op)
        \/ \E r \in Reads : AskForUser(r)

-----------------------------------------------------------------------------
(* The passkeys of the profile page.                                       *)

PasskeysInit ==
  /\ passkeys \in SUBSET PasskeyIds
  /\ listed = {} /\ removing = {}
  /\ \E l \in Loads : loading = [m \in Loads |-> IF m = l THEN Waiting ELSE NoLoad]
  /\ settled = TRUE

LoadPasskeys(l) ==
  /\ loading[l] = NoLoad
  /\ loading' = [loading EXCEPT ![l] = Waiting]
  /\ settled' = \A m \in Loads : loading[m] = NoLoad

(* A new user object, or a passkey registered here, loads them again.      *)
LoadAgain(l) ==
  /\ LoadPasskeys(l)
  /\ passkeys' \in {passkeys} \cup {passkeys \cup {k} : k \in PasskeyIds}
  /\ UNCHANGED <<listed, removing>>

ServeList(l) ==
  /\ loading[l] = Waiting
  /\ loading' = [loading EXCEPT ![l] = passkeys]
  /\ UNCHANGED <<passkeys, listed, removing, settled>>

TakeList(l) ==
  /\ loading[l] \notin {Waiting, NoLoad}
  /\ listed' = loading[l]
  /\ loading' = [loading EXCEPT ![l] = NoLoad]
  /\ UNCHANGED <<passkeys, removing, settled>>

(* A listing that fails is shown as no passkeys.                           *)
ListFails(l) ==
  /\ loading[l] # NoLoad
  /\ listed' = {} /\ settled' = FALSE
  /\ loading' = [loading EXCEPT ![l] = NoLoad]
  /\ UNCHANGED <<passkeys, removing>>

RemovePasskey(k) ==
  /\ k \in listed /\ k \notin removing
  /\ removing' = removing \cup {k}
  /\ UNCHANGED <<passkeys, listed, loading, settled>>

ServeRemoval(k) ==
  /\ k \in removing /\ passkeys' = passkeys \ {k}
  /\ UNCHANGED <<listed, loading, removing, settled>>

TakeRemoval(k, l) ==
  /\ k \in removing /\ k \notin passkeys
  /\ removing' = removing \ {k}
  /\ LoadPasskeys(l)
  /\ UNCHANGED <<passkeys, listed>>

RemovalFails(k) ==
  /\ k \in removing
  /\ removing' = removing \ {k}
  /\ settled' = FALSE
  /\ UNCHANGED <<passkeys, listed, loading>>

PasskeysNext ==
  \/ \E l \in Loads : LoadAgain(l) \/ ServeList(l) \/ TakeList(l) \/ ListFails(l)
  \/ \E k \in PasskeyIds :
       \/ RemovePasskey(k) \/ ServeRemoval(k) \/ RemovalFails(k)
       \/ \E l \in Loads : TakeRemoval(k, l)

-----------------------------------------------------------------------------
(* Preferences and browser notifications.                                  *)

PrefsInit ==
  /\ pref = 0 /\ kept \in Prefs /\ merged = 0 /\ stage = "away" /\ chosen = kept /\ cut = FALSE
  /\ notify \in BOOLEAN /\ status = notify /\ asking = FALSE

(* A driver's page first renders the defaults: its first effect reads what *)
(* is kept, its second keeps the defaults.  An administrator's page starts *)
(* with what is kept.                                                      *)
MountWritesFirst ==
  /\ stage = "away" /\ stage' = "mounting"
  /\ kept' = 0 /\ merged' = kept' /\ pref' = 0

MountDriver ==
  /\ stage = "away" /\ stage' = "mounting"
  /\ merged' = kept /\ kept' = 0 /\ pref' = 0

MountAdmin ==
  /\ stage = "away" /\ stage' = "ready"
  /\ pref' = kept /\ UNCHANGED <<kept, merged>>

Mount ==
  /\ IF screen = "driver" THEN MountDriver ELSE MountAdmin
  /\ status' = notify
  /\ UNCHANGED <<chosen, cut, notify, asking>>

ShowMerged ==
  /\ stage = "mounting" /\ stage' = "ready"
  /\ pref' = merged /\ kept' = merged
  /\ UNCHANGED <<merged, chosen, cut, notify, status, asking>>

SetPreference(p) ==
  /\ stage = "ready"
  /\ pref' = p /\ kept' = p /\ chosen' = p
  /\ UNCHANGED <<merged, stage, cut, notify, status, asking>>

Leave ==
  /\ stage # "away" /\ stage' = "away"
  /\ cut' = (cut \/ stage = "mounting")
  /\ asking' = FALSE
  /\ UNCHANGED <<pref, kept, merged, chosen, notify, status>>

Enable ==
  /\ stage = "ready" /\ asking' = TRUE
  /\ UNCHANGED <<pref, kept, merged, stage, chosen, cut, notify, status>>

(* Only an administrator's page keeps the status as state; the others show *)
(* the flag when something else renders them.                              *)
Flag(on) == notify' = on /\ status' = IF screen = "admin" THEN on ELSE status

PermissionAnswered ==
  /\ asking /\ asking' = FALSE
  /\ Flag(TRUE) \/ UNCHANGED <<notify, status>>
  /\ UNCHANGED <<pref, kept, merged, stage, chosen, cut>>

Disable ==
  /\ stage = "ready"
  /\ Flag(FALSE)
  /\ UNCHANGED <<pref, kept, merged, stage, chosen, cut, asking>>

Rendered ==
  /\ stage # "away" /\ screen # "admin" /\ status' = notify
  /\ UNCHANGED <<pref, kept, merged, stage, chosen, cut, notify, asking>>

PrefsNext ==
  \/ Mount \/ ShowMerged \/ Leave \/ Enable \/ PermissionAnswered \/ Disable \/ Rendered
  \/ \E p \in Prefs : SetPreference(p)

SettingsInit == AccountInit /\ PasskeysInit /\ PrefsInit

SettingsNext ==
  /\ UNCHANGED screen
  /\ \/ AccountPageNext /\ UNCHANGED <<passkeyVars, prefVars>>
     \/ PasskeysNext /\ UNCHANGED <<accountVars, prefVars>>
     \/ PrefsNext /\ UNCHANGED <<accountVars, passkeyVars>>

SettingsSpec == SettingsInit /\ [][SettingsNext]_<<screen, accountVars, passkeyVars, prefVars>>

-----------------------------------------------------------------------------
(* Properties.                                                             *)

(* With nothing under way the page shows the row, unless the last call     *)
(* failed or met another: a user fetched elsewhere may have been read      *)
(* before the row was changed and arrive after the answer.                 *)
AccountIsCurrent == Idles(Sends) /\ alone => account = person

(* An administrator's form that nobody has typed in holds the whole name,  *)
(* and what was typed goes only when the name changes or the form is reset.*)
FormIsAccount ==
  screen = "admin" => /\ ~typed => form.first \o form.last = NameOf(account)
                      /\ ~dropped

(* Outside the crop dialogue the photo shown is that of the account, but   *)
(* for a drawing that ended after the dialogue had gone.                   *)
PreviewIsGone == ~crop /\ ~late => ~preview

(* With nothing under way the page lists the account's passkeys, unless a  *)
(* call failed or two listings met.                                        *)
PasskeysListed ==
  (\A l \in Loads : loading[l] = NoLoad) /\ removing = {} /\ settled => listed = passkeys

(* The preferences chosen are found again, unless a driver's page was left *)
(* while it mounted; and an administrator is shown whether notifications   *)
(* are on.                                                                 *)
PreferencesKept ==
  /\ ~cut /\ stage # "mounting" => kept = chosen
  /\ ~cut /\ stage = "ready" => pref = chosen
  /\ stage = "ready" /\ screen = "admin" => status = notify

(* The five together.                                                      *)
SettingsInv ==
  AccountIsCurrent /\ FormIsAccount /\ PreviewIsGone /\ PasskeysListed /\ PreferencesKept
=============================================================================
