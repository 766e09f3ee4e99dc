-------------------------------- MODULE Accounts --------------------------------
(***************************************************************************)
(* Users and their profiles: the row of User has the role, a row in one of *)
(* the profile tables the rest.  Registration, Google sign-in, the user's  *)
(* own edits and deletion, and the administrator's, read first and write   *)
(* later, most of them by several statements that are no transaction.      *)
(***************************************************************************)
EXTENDS Naturals, FiniteSets

CONSTANTS Users, Emails, Requests,
          NoUser, NoEmail,
          AccountOps   \* the operations of an instance

ASSUME AccountsAssumption == NoUser \notin Users /\ NoEmail \notin Emails

VARIABLES role,     \* role[u]: User.role, "none": no row
          email,    \* email[u], NoEmail: the address of a deleted account
          profiles, \* profiles[u]: the profile tables that have a row of u
          approved, \* approved[u]: those of them that are approved
          personal, \* personal[u]: those that hold a person's data
          booked,   \* booked[u]: bookings refer to u
          work      \* work[r]: a request being served

(* Observed only. *)
VARIABLES moved,    \* users whose role an administrator changed
          departed, \* users who deleted their account
          broken,   \* users whose removal was begun
          reopened  \* departed users whose profile was then still being edited

accountHistory == <<moved, departed, broken, reopened>>
accountVars == <<role, email, profiles, approved, personal, booked, work, accountHistory>>

(* Without RECYCLER and CORPORATE: no operation creates their profiles.    *)
Roles == {"CUSTOMER", "ADMIN", "SUPER_ADMIN", "DRIVER"}
SignupRoles == {"CUSTOMER", "ADMIN", "DRIVER"}  \* of the three sign-up pages
Kinds == {"customer", "admin", "driver"}

(* The table of a role, as createUser, updateUser and updateMe know it.    *)
ProfileOf(ro) ==
  {k \in Kinds : <<ro, k>> \in {<<"CUSTOMER", "customer">>, <<"ADMIN", "admin">>,
                                <<"SUPER_ADMIN", "admin">>, <<"DRIVER", "driver">>}}

(* The table that register and Google sign-in take: every other role falls *)
(* to the default branch.                                                  *)
(* Mutant: drivers are forgotten.                                          *)
CreatedProfileOfTwo(ro) == IF ro = "ADMIN" THEN "admin" ELSE "customer"

CreatedProfile(ro) ==
  CASE ro = "ADMIN" -> "admin" [] ro = "DRIVER" -> "driver" [] OTHER -> "customer"

Exists(u) == role[u] # "none"
Holders(e) == {u \in Users : Exists(u) /\ email[u] = e}

Rest == [op |-> "none", pc |-> "rest", user |-> NoUser, email |-> NoEmail,
         role |-> "none", profiles |-> {}]

AccountInit ==
  /\ role = [u \in Users |-> "none"]
  /\ email = [u \in Users |-> NoEmail]
  /\ profiles = [u \in Users |-> {}]
  /\ approved = [u \in Users |-> {}]
  /\ personal = [u \in Users |-> {}]
  /\ booked = [u \in Users |-> FALSE]
  /\ work = [r \in Requests |-> Rest]
  /\ moved = {} /\ departed = {} /\ broken = {} /\ reopened = {}

-----------------------------------------------------------------------------
tables == <<role, email, profiles, approved, personal, booked>>

Ended(r) == work' = [work EXCEPT ![r] = Rest]
Goto(r, pc) == work' = [work EXCEPT ![r].pc = pc]

(* A request begins with what it read of user u and will use.              *)
Begin(r, op, pc, u, seen) ==
  /\ op \in AccountOps /\ work[r] = Rest /\ Exists(u)
  /\ work' = [work EXCEPT ![r] =
       [Rest EXCEPT !.op = op, !.pc = pc, !.user = u,
                    !.role = IF "role" \in seen THEN role[u] ELSE @,
                    !.profiles = IF "profiles" \in seen THEN profiles[u] ELSE @]]

NewUser(u, e, ro, kinds) ==
  /\ role' = [role EXCEPT ![u] = ro]
  /\ email' = [email EXCEPT ![u] = e]
  /\ profiles' = [profiles EXCEPT ![u] = kinds]
  /\ personal' = [personal EXCEPT ![u] = kinds]
  /\ UNCHANGED <<approved, booked>>

(* AuthService.register, and Google sign-in of an unknown address: the     *)
(* address is looked up, the row is created later.                         *)
Register(r, e, ro) ==
  /\ "register" \in AccountOps /\ work[r] = Rest /\ Holders(e) = {}
  /\ work' = [work EXCEPT ![r] = [Rest EXCEPT !.op = "register", !.pc = "creating",
                                              !.email = e, !.role = ro]]
  /\ UNCHANGED <<tables, accountHistory>>

(* One transaction; the address is unique.                                 *)
CreateAccount(r) ==
  /\ work[r].pc = "creating"
  /\ IF Holders(work[r].email) # {} THEN UNCHANGED tables
     ELSE \E u \in Users : /\ ~Exists(u) /\ u \notin moved \cup departed \cup broken
                           /\ NewUser(u, work[r].email, work[r].role, {CreatedProfile(work[r].role)})
  /\ Ended(r)
  /\ UNCHANGED accountHistory

(* createUser and createDriver of the administrator, one transaction. *)
AdminCreate(u, e, ro) ==
  /\ "adminCreate" \in AccountOps
  /\ ~Exists(u) /\ u \notin moved \cup departed \cup broken /\ Holders(e) = {}
  /\ NewUser(u, e, ro, ProfileOf(ro))
  /\ UNCHANGED <<work, accountHistory>>

-----------------------------------------------------------------------------
(* findOrCreateUserFromGoogle of a known address. *)
GoogleSignIn(r, u) ==
  /\ email[u] \in Emails
  /\ Begin(r, "google", IF profiles[u] = {} THEN "profiling" ELSE "avatar", u, {"role", "profiles"})
  /\ UNCHANGED <<tables, accountHistory>>

Reread(r, pc) ==
  work' = [work EXCEPT ![r].pc = pc, ![r].role = role'[work[r].user], ![r].profiles = profiles'[work[r].user]]

(* A missing profile is created for the role read before; a failure is     *)
(* logged and forgotten.                                                   *)
GoogleProfile(r) ==
  LET u == work[r].user
      kind == CreatedProfile(work[r].role)
  IN /\ work[r].pc = "profiling"
     /\ IF Exists(u) /\ kind \notin profiles[u]
        THEN /\ profiles' = [profiles EXCEPT ![u] = @ \cup {kind}]
             /\ personal' = [personal EXCEPT ![u] = @ \cup {kind}]
             /\ UNCHANGED <<role, email, approved, booked>>
             /\ Reread(r, "avatar")
        ELSE UNCHANGED tables /\ Goto(r, "avatar")
     /\ UNCHANGED accountHistory

(* Google's picture, unless it is there, goes into the table of the role.  *)
GoogleAvatar(r) ==
  LET u == work[r].user
      kind == CreatedProfile(work[r].role)
  IN /\ work[r].pc = "avatar"
     /\ \/ UNCHANGED tables /\ Goto(r, "naming")
        \/ /\ kind \in profiles[u]
           /\ personal' = [personal EXCEPT ![u] = @ \cup {kind}]
           /\ UNCHANGED <<role, email, profiles, approved, booked>>
           /\ Reread(r, "naming")
     /\ UNCHANGED accountHistory

(* Google's name goes into the first table that was read without a name.   *)
GoogleName(r) ==
  LET u == work[r].user IN
  /\ work[r].pc = "naming"
  /\ \/ \E kind \in work[r].profiles \cap profiles[u] : personal' = [personal EXCEPT ![u] = @ \cup {kind}]
     \/ UNCHANGED personal
  /\ Ended(r)
  /\ UNCHANGED <<role, email, profiles, approved, booked, accountHistory>>

-----------------------------------------------------------------------------
(* UsersService.updateMe.  An access token outlives the account, so that   *)
(* the owner of a deleted account may still edit it. *)
UpdateMe(r, u) ==
  /\ \E pc \in {"emailing", "editing"} : Begin(r, "updateMe", pc, u, {"role"})
  /\ reopened' = reopened \cup ({u} \cap departed)
  /\ UNCHANGED <<tables, moved, departed, broken>>

EditEmail(r, e) ==
  LET u == work[r].user IN
  /\ work[r].pc = "emailing"
  /\ IF Exists(u) /\ Holders(e) \subseteq {u}
     THEN /\ email' = [email EXCEPT ![u] = e]
          /\ Goto(r, "editing") \/ Ended(r)
          /\ UNCHANGED <<role, profiles, approved, personal, booked>>
     ELSE Ended(r) /\ UNCHANGED tables
  /\ UNCHANGED accountHistory

(* Mutant: the profile is deleted and created again.                       *)
EditProfileAnew(r) ==
  LET u == work[r].user IN
  /\ work[r].pc = "editing"
  /\ IF Exists(u)
     THEN /\ profiles' = [profiles EXCEPT ![u] = ProfileOf(work[r].role)]
          /\ approved' = [approved EXCEPT ![u] = {}]
          /\ personal' = [personal EXCEPT ![u] = ProfileOf(work[r].role)]
          /\ UNCHANGED <<role, email, booked>>
     ELSE UNCHANGED tables
  /\ Ended(r)
  /\ UNCHANGED accountHistory

(* The transaction: the profiles of other roles than the one that was read *)
(* are deleted, the one of that role is updated or created.                *)
EditProfile(r) ==
  LET u == work[r].user
      kinds == ProfileOf(work[r].role)
  IN /\ work[r].pc = "editing"
     /\ IF Exists(u)
        THEN /\ profiles' = [profiles EXCEPT ![u] = kinds]
             /\ approved' = [approved EXCEPT ![u] = @ \cap kinds]
             /\ personal' = [personal EXCEPT ![u] = kinds]
             /\ UNCHANGED <<role, email, booked>>
        ELSE UNCHANGED tables
     /\ Ended(r)
     /\ UNCHANGED accountHistory

(* UsersService.deleteMe: the check of the password, then one transaction. *)
DeleteMe(r, u) ==
  /\ Begin(r, "deleteMe", "leaving", u, {})
  /\ UNCHANGED <<tables, accountHistory>>

Editing(u) == {r \in Requests : work[r].user = u /\ work[r].op \in {"google", "updateMe", "updateUser"}}

(* Mutant: the address stays.                                              *)
LeaveKeepingEmail(r) ==
  LET u == work[r].user IN
  /\ work[r].pc = "leaving"
  /\ IF Exists(u)
     THEN /\ role' = [role EXCEPT ![u] = "CUSTOMER"]
          /\ approved' = [approved EXCEPT ![u] = {}]
          /\ personal' = [personal EXCEPT ![u] = {}]
          /\ departed' = departed \cup {u}
          /\ reopened' = IF Editing(u) # {} THEN reopened \cup {u} ELSE reopened
          /\ UNCHANGED <<email, profiles, booked>>
     ELSE UNCHANGED <<tables, departed, reopened>>
  /\ Ended(r)
  /\ UNCHANGED <<moved, broken>>

Leave(r) ==
  LET u == work[r].user IN
  /\ work[r].pc = "leaving"
  /\ IF Exists(u)
     THEN /\ role' = [role EXCEPT ![u] = "CUSTOMER"]
          /\ email' = [email EXCEPT ![u] = NoEmail]
          /\ approved' = [approved EXCEPT ![u] = {}]
          /\ personal' = [personal EXCEPT ![u] = {}]
          /\ departed' = departed \cup {u}
          /\ reopened' = IF Editing(u) # {} THEN reopened \cup {u} ELSE reopened
          /\ UNCHANGED <<profiles, booked>>
     ELSE UNCHANGED <<tables, departed, reopened>>
  /\ Ended(r)
  /\ UNCHANGED <<moved, broken>>

-----------------------------------------------------------------------------
(* AdminService.updateUser: the row of User first.                         *)
UpdateUser(r, u, e, ro) ==
  /\ "updateUser" \in AccountOps /\ work[r] = Rest /\ Exists(u)
  /\ e = NoEmail \/ Holders(e) \subseteq {u}
  /\ role' = [role EXCEPT ![u] = ro]
  /\ email' = [email EXCEPT ![u] = IF e = NoEmail THEN @ ELSE e]
  /\ work' = [work EXCEPT ![r] = [Rest EXCEPT !.op = "updateUser", !.pc = "reading", !.user = u]]
  /\ moved' = IF ro = role[u] THEN moved ELSE moved \cup {u}
  /\ reopened' = reopened \cup ({u} \cap departed)
  /\ UNCHANGED <<profiles, approved, personal, booked, departed, broken>>

ReadRole(r) ==
  /\ work[r].pc = "reading"
  /\ IF Exists(work[r].user)
     THEN work' = [work EXCEPT ![r].pc = "looking", ![r].role = role[work[r].user]]
     ELSE Ended(r)
  /\ UNCHANGED <<tables, accountHistory>>

LookForRow(r) ==
  /\ work[r].pc = "looking"
  /\ work' = [work EXCEPT ![r].pc = "saving", ![r].profiles = profiles[work[r].user]]
  /\ UNCHANGED <<tables, accountHistory>>

(* Found: updated; not found: created.  Either fails when the row has gone *)
(* or come meanwhile.                                                      *)
SaveProfile(r) ==
  LET u == work[r].user
      kinds == ProfileOf(work[r].role)
  IN /\ work[r].pc = "saving"
     /\ IF Exists(u) /\ kinds \cap work[r].profiles = kinds \cap profiles[u]
        THEN /\ profiles' = [profiles EXCEPT ![u] = @ \cup kinds]
             /\ personal' = [personal EXCEPT ![u] = @ \cup kinds]
        ELSE UNCHANGED <<profiles, personal>>
     /\ Ended(r)
     /\ UNCHANGED <<role, email, approved, booked, accountHistory>>

(* changeUserRole: nothing of the profiles. *)
ChangeUserRole(u, ro) ==
  /\ "changeUserRole" \in AccountOps /\ Exists(u) /\ ro # role[u]
  /\ role' = [role EXCEPT ![u] = ro]
  /\ moved' = moved \cup {u}
  /\ UNCHANGED <<email, profiles, approved, personal, booked, work, departed, broken, reopened>>

(* approveUser: the administrator's row, else the driver's, as read. *)
ApproveUser(r, u) ==
  /\ Begin(r, "approveUser", "approving", u, {"profiles"})
  /\ UNCHANGED <<tables, accountHistory>>

Approve(r) ==
  LET u == work[r].user
      kind == IF "admin" \in work[r].profiles THEN "admin" ELSE "driver"
  IN /\ work[r].pc = "approving"
     /\ approved' = [approved EXCEPT ![u] = @ \cup ({kind} \cap work[r].profiles \cap profiles[u])]
     /\ Ended(r)
     /\ UNCHANGED <<role, email, profiles, personal, booked, accountHistory>>

-----------------------------------------------------------------------------
(* deleteUser, rejectUser and deleteDriver: work[r].profiles: the profile  *)
(* tables still to be cleared.                                             *)
StartRemoval(r, op, u) ==
  /\ op \in AccountOps /\ work[r] = Rest /\ Exists(u)
  /\ work' = [work EXCEPT ![r] =
       [Rest EXCEPT !.op = op, !.user = u,
                    !.pc = IF op = "deleteUser" THEN "unbooking" ELSE "clearing",
                    !.profiles = CASE op = "deleteUser" -> Kinds
                               [] op = "rejectUser" -> profiles[u] \ {"customer"}
                               [] OTHER -> {"driver"}]]
  /\ UNCHANGED <<tables, accountHistory>>

DeleteBookings(r) ==
  /\ work[r].pc = "unbooking"
  /\ booked' = [booked EXCEPT ![work[r].user] = FALSE]
  /\ Goto(r, "clearing")
  /\ UNCHANGED <<role, email, profiles, approved, personal, accountHistory>>

FirstOf(kinds) == IF "customer" \in kinds THEN "customer" ELSE IF "admin" \in kinds THEN "admin" ELSE "driver"

(* A missing row stops rejectUser and deleteDriver, not deleteUser. *)
ClearProfile(r) ==
  LET u == work[r].user
      kind == FirstOf(work[r].profiles)
  IN /\ work[r].pc = "clearing" /\ work[r].profiles # {}
     /\ profiles' = [profiles EXCEPT ![u] = @ \ {kind}]
     /\ approved' = [approved EXCEPT ![u] = @ \ {kind}]
     /\ personal' = [personal EXCEPT ![u] = @ \ {kind}]
     /\ broken' = broken \cup {u}
     /\ IF kind \in profiles[u] \/ work[r].op = "deleteUser"
        THEN work' = [work EXCEPT ![r].profiles = @ \ {kind}]
        ELSE Ended(r)
     /\ UNCHANGED <<role, email, booked, moved, departed, reopened>>

(* Refused while a booking refers to the user; profiles go with the user.  *)
(* deleteDriver does not report the refusal.                               *)
DeleteRow(r) ==
  LET u == work[r].user IN
  /\ work[r].pc = "clearing" /\ work[r].profiles = {}
  /\ IF Exists(u) /\ ~booked[u]
     THEN /\ role' = [role EXCEPT ![u] = "none"]
          /\ email' = [email EXCEPT ![u] = NoEmail]
          /\ profiles' = [profiles EXCEPT ![u] = {}]
          /\ approved' = [approved EXCEPT ![u] = {}]
          /\ personal' = [personal EXCEPT ![u] = {}]
     ELSE UNCHANGED <<role, email, profiles, approved, personal>>
  /\ broken' = broken \cup {u}
  /\ Ended(r)
  /\ UNCHANGED <<booked, moved, departed, reopened>>

(* The customer books; a request fails at any statement.                   *)
Book(u) ==
  /\ "book" \in AccountOps /\ Exists(u) /\ ~booked[u]
  /\ booked' = [booked EXCEPT ![u] = TRUE]
  /\ UNCHANGED <<role, email, profiles, approved, personal, work, accountHistory>>

Fails(r) ==
  /\ work[r].pc # "rest"
  /\ Ended(r)
  /\ UNCHANGED <<tables, accountHistory>>

-----------------------------------------------------------------------------
AccountNext ==
  \/ \E r \in Requests, e \in Emails, ro \in SignupRoles : Register(r, e, ro)
  \/ \E u \in Users, e \in Emails, ro \in Roles : AdminCreate(u, e, ro)
  \/ \E r \in Requests, u \in Users :
       \/ GoogleSignIn(r, u) \/ DeleteMe(r, u) \/ ApproveUser(r, u) \/ UpdateMe(r, u)
       \/ \E e \in Emails \cup {NoEmail}, ro \in Roles : UpdateUser(r, u, e, ro)
       \/ \E op \in {"deleteUser", "rejectUser", "deleteDriver"} : StartRemoval(r, op, u)
  \/ \E r \in Requests :
       \/ CreateAccount(r) \/ GoogleProfile(r) \/ GoogleAvatar(r) \/ GoogleName(r)
       \/ \E e \in Emails : EditEmail(r, e)
       \/ EditProfile(r) \/ Leave(r)
       \/ ReadRole(r) \/ LookForRow(r) \/ SaveProfile(r) \/ Approve(r)
       \/ DeleteBookings(r) \/ ClearProfile(r) \/ DeleteRow(r) \/ Fails(r)
  \/ \E u \in Users : Book(u) \/ \E ro \in Roles : ChangeUserRole(u, ro)

AccountSpec == AccountInit /\ [][AccountNext]_accountVars

-----------------------------------------------------------------------------
(* Types; profiles belong to a user that exists, an approval or data to a  *)
(* profile, an address to one user.                                        *)
AccountTypeOK ==
  /\ role \in [Users -> Roles \cup {"none"}]
  /\ email \in [Users -> Emails \cup {NoEmail}]
  /\ booked \in [Users -> BOOLEAN]
  /\ work \in [Requests ->
       [op : {"none", "register", "google", "updateMe", "deleteMe", "updateUser", "approveUser",
              "deleteUser", "rejectUser", "deleteDriver"},
        pc : {"rest", "creating", "profiling", "avatar", "naming", "emailing", "editing", "leaving",
              "reading", "looking", "saving", "approving", "unbooking", "clearing"},
        user : Users \cup {NoUser}, email : Emails \cup {NoEmail},
        role : Roles \cup {"none"}, profiles : SUBSET Kinds]]
  /\ \A u \in Users :
       /\ profiles[u] \subseteq Kinds /\ approved[u] \cup personal[u] \subseteq profiles[u]
       /\ Exists(u) \/ (profiles[u] = {} /\ email[u] = NoEmail)
  /\ \A e \in Emails : Cardinality(Holders(e)) <= 1

(* A user has the profile of the role, whatever sign-ups, edits and Google *)
(* sign-ins overlap, unless an administrator changed the role, the account *)
(* was deleted by its owner, or its removal was begun (deleteUser is nine  *)
(* statements).                                                            *)
ProfileOfRole ==
  \A u \in Users : Exists(u) /\ u \notin moved \cup departed \cup broken => ProfileOf(role[u]) \subseteq profiles[u]

(* Every user has one address, the profile of the role, and what belongs   *)
(* to no one else.                                                         *)
AccountInv == AccountTypeOK /\ ProfileOfRole

(* No step takes a user's profile of the role, or its approval, but the    *)
(* owner's deletion, a removal, and an edit that had read another role     *)
(* before (updateMe deletes the profiles of all other roles).              *)
ProfileKept ==
  [][\A u \in Users :
       Exists(u)' /\ ((ProfileOf(role[u]) \cap profiles[u]) \ profiles'[u]) \cup ((ProfileOf(role[u]) \cap approved[u]) \ approved'[u]) # {}
       => \/ u \in departed' \cup broken'
          \/ \E r \in Requests : work[r].pc = "editing" /\ work[r].user = u /\ work[r].role # role[u]]_accountVars

(* The owner's deletion leaves no address and no data of a person, unless  *)
(* an edit of the account was under way then or came later.                *)
DepartedStaysAnonymous ==
  \A u \in departed \ reopened : Exists(u) => email[u] = NoEmail /\ personal[u] = {}
=============================================================================
