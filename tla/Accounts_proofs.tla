---------------------------- MODULE Accounts_proofs ----------------------------
(***************************************************************************)
(* Proofs about Accounts and SignInPages, for any users, addresses,        *)
(* requests, visitors, attempts and loads of the script.                   *)
(***************************************************************************)
EXTENDS Accounts, SignInPages, FiniteSetTheorems, TLAPS

(* Accounts.  What an administrator, the owner or a removal has changed.   *)
Changed(u) == u \in moved \cup departed \cup broken

Operations ==
  {"none", "register", "google", "updateMe", "deleteMe", "updateUser", "approveUser",
   "deleteUser", "rejectUser", "deleteDriver"}

Stages ==
  {"rest", "creating", "profiling", "avatar", "naming", "emailing", "editing", "leaving",
   "reading", "looking", "saving", "approving", "unbooking", "clearing"}

WorkSet ==
  [op : Operations, pc : Stages, user : Users \cup {NoUser}, email : Emails \cup {NoEmail},
   role : Roles \cup {"none"}, profiles : SUBSET Kinds]

Tables ==
  /\ role \in [Users -> Roles \cup {"none"}]
  /\ email \in [Users -> Emails \cup {NoEmail}]
  /\ booked \in [Users -> BOOLEAN]
  /\ profiles \in [Users -> SUBSET Kinds]
  /\ approved \in [Users -> SUBSET Kinds]
  /\ personal \in [Users -> SUBSET Kinds]

(* Profiles belong to an account, approvals and data to a profile.         *)
RowOK(u) ==
  /\ approved[u] \cup personal[u] \subseteq profiles[u]
  /\ Exists(u) \/ (profiles[u] = {} /\ email[u] = NoEmail)

OneHolder ==
  \A u, v \in Users : email[u] \in Emails /\ email[u] = email[v] => u = v

(* A request knows its user, and which operation it is of.                 *)
Fitting(w) ==
  /\ w.pc \notin {"rest", "creating"} => w.user \in Users
  /\ w.pc = "creating" => w.role \in SignupRoles /\ w.email \in Emails
  /\ w.pc \in {"profiling", "avatar", "naming"} => w.op = "google"
  /\ w.pc \in {"emailing", "editing"} => w.op = "updateMe"
  /\ w.pc \in {"reading", "looking", "saving"} => w.op = "updateUser"

(* What updateMe read of the role is still true, unless it was changed.    *)
Seen(w) ==
  w.user \in Users => \/ Changed(w.user)
                      \/ Exists(w.user) /\ (w.op = "updateMe" => w.role = role[w.user])

EditOps == {"google", "updateMe", "updateUser"}

(* Nobody edits an account whose owner left and that was not reopened.     *)
Apart(w) == w.user \in departed \ reopened => w.op \notin EditOps

WorkOK(w) == Fitting(w) /\ Seen(w) /\ Apart(w)

HasProfile(u) == Exists(u) /\ ~Changed(u) => ProfileOf(role[u]) \subseteq profiles[u]

Anonymous(u) ==
  u \in departed \ reopened => (Exists(u) => email[u] = NoEmail /\ personal[u] = {})

AccountIInv ==
  /\ Tables /\ work \in [Requests -> WorkSet] /\ departed \subseteq Users
  /\ \A u \in Users : RowOK(u) /\ HasProfile(u) /\ Anonymous(u)
  /\ OneHolder
  /\ \A r \in Requests : WorkOK(work[r])

LEMMA InvImplied == AccountIInv => AccountInv /\ DepartedStaysAnonymous
<1> SUFFICES ASSUME AccountIInv PROVE AccountInv /\ DepartedStaysAnonymous
  OBVIOUS
<1>1. ASSUME NEW e \in Emails PROVE Cardinality(Holders(e)) <= 1
  <2>1. \A u, v \in Holders(e) : u = v
    BY DEF Holders, AccountIInv, OneHolder
  <2>2. CASE Holders(e) = {}
    BY <2>2, FS_EmptySet
  <2>3. CASE Holders(e) # {}
    <3>1. PICK u \in Holders(e) : TRUE
      BY <2>3
    <3>2. Holders(e) = {u}
      BY <2>1, <3>1
    <3> QED
      BY <3>2, FS_Singleton
  <2> QED
    BY <2>2, <2>3
<1>2. AccountTypeOK
  BY <1>1 DEF AccountIInv, AccountTypeOK, Tables, RowOK, WorkSet, Operations, Stages
<1>3. ProfileOfRole
  BY DEF AccountIInv, ProfileOfRole, HasProfile, Changed
<1>4. DepartedStaysAnonymous
  BY DEF AccountIInv, DepartedStaysAnonymous, Anonymous
<1> QED
  BY <1>2, <1>3, <1>4 DEF AccountInv

LEMMA RestFits ==
  /\ Rest \in WorkSet /\ WorkOK(Rest) /\ Rest.pc = "rest" /\ Rest.user = NoUser /\ NoUser \notin Users
<1>1. Rest \in WorkSet
  BY DEF Rest, WorkSet, Operations, Stages
<1>2. Rest.pc = "rest" /\ Rest.user = NoUser /\ NoUser \notin Users /\ Rest.op = "none"
  BY AccountsAssumption DEF Rest
<1>3. Fitting(Rest) /\ Seen(Rest)
  BY <1>2 DEF Fitting, Seen
<1>4. Apart(Rest)
  BY <1>2 DEF Apart, EditOps
<1> QED
  BY <1>1, <1>2, <1>3, <1>4 DEF WorkOK

LEMMA AccountStart == AccountInit => AccountIInv
<1> SUFFICES ASSUME AccountInit PROVE AccountIInv
  OBVIOUS
<1> USE DEF AccountInit
<1>1. Tables
  BY DEF Tables
<1>2. work \in [Requests -> WorkSet] /\ \A r \in Requests : WorkOK(work[r])
  BY RestFits
<1>3. \A u \in Users : RowOK(u) /\ HasProfile(u) /\ Anonymous(u)
  BY DEF RowOK, HasProfile, Anonymous, Exists
<1>4. OneHolder
  BY AccountsAssumption DEF OneHolder
<1> QED
  BY <1>1, <1>2, <1>3, <1>4 DEF AccountIInv

(* A step after which only the row of one user differs.                    *)
LEMMA RowStep ==
  ASSUME AccountIInv, NEW u \in Users, Tables', work' \in [Requests -> WorkSet],
         \A x \in Users \ {u} :
           /\ role'[x] = role[x] /\ email'[x] = email[x] /\ profiles'[x] = profiles[x]
           /\ approved'[x] = approved[x] /\ personal'[x] = personal[x],
         moved \subseteq moved', moved' \subseteq moved \cup {u},
         departed \subseteq departed', departed' \subseteq departed \cup {u},
         broken \subseteq broken', broken' \subseteq broken \cup {u},
         reopened \subseteq reopened', reopened' \subseteq reopened \cup {u},
         RowOK(u)', HasProfile(u)', Anonymous(u)',
         email'[u] \in Emails => \A x \in Users \ {u} : email[x] # email'[u],
         role'[u] = role[u] \/ ~Exists(u) \/ Changed(u)',
         u \in departed' \ reopened' => u \in departed \ reopened \/ Editing(u) = {},
         \A r \in Requests : work'[r] = work[r] \/ WorkOK(work[r])'
  PROVE  AccountIInv'
<1>1. departed' \subseteq Users
  BY DEF AccountIInv
<1>2. ASSUME NEW x \in Users PROVE RowOK(x)' /\ HasProfile(x)' /\ Anonymous(x)'
  <2>1. CASE x # u
    BY <2>1 DEF AccountIInv, RowOK, HasProfile, Anonymous, Exists, Changed
  <2> QED
    BY <2>1
<1>3. OneHolder'
  BY DEF AccountIInv, OneHolder, Tables
<1>4. ASSUME NEW r \in Requests PROVE WorkOK(work[r])'
  <2> SUFFICES ASSUME work'[r] = work[r] PROVE WorkOK(work[r])'
    OBVIOUS
  <2> DEFINE w == work[r]
  <2>1. Fitting(w) /\ Seen(w) /\ Apart(w)
    BY DEF AccountIInv, WorkOK
  <2>2. Fitting(work[r])'
    BY <2>1 DEF Fitting
  <2>3. Seen(work[r])'
    <3>1. CASE w.user # u
      BY <2>1, <3>1 DEF Seen, Changed, Exists
    <3>2. CASE w.user = u
      BY <2>1, <3>2 DEF Seen, Changed, Exists
    <3> QED
      BY <3>1, <3>2
  <2>4. Apart(work[r])'
    <3>1. CASE w.user # u
      BY <2>1, <3>1 DEF Apart
    <3>2. CASE w.user = u
      BY <2>1, <3>2 DEF Apart, Editing, EditOps
    <3> QED
      BY <3>1, <3>2
  <2> QED
    BY <2>2, <2>3, <2>4 DEF WorkOK
<1> QED
  BY <1>1, <1>2, <1>3, <1>4 DEF AccountIInv

(* A step that changes no row.                                             *)
LEMMA WorkStep ==
  ASSUME AccountIInv, UNCHANGED tables, work' \in [Requests -> WorkSet],
         UNCHANGED <<moved, departed, broken>>, reopened \subseteq reopened',
         \A r \in Requests : work'[r] = work[r] \/ WorkOK(work[r])'
  PROVE  AccountIInv'
<1>1. Tables' /\ OneHolder'
  BY DEF AccountIInv, Tables, OneHolder, tables
<1>2. ASSUME NEW x \in Users PROVE RowOK(x)' /\ HasProfile(x)' /\ Anonymous(x)'
  BY DEF AccountIInv, RowOK, HasProfile, Anonymous, Exists, Changed, tables
<1>3. ASSUME NEW r \in Requests PROVE WorkOK(work[r])'
  BY DEF AccountIInv, WorkOK, Fitting, Seen, Apart, Changed, Exists, tables
<1> QED
  BY <1>1, <1>2, <1>3 DEF AccountIInv

LEMMA WorkTakes ==
  ASSUME AccountIInv, NEW r \in Requests, NEW w \in WorkSet, work' = [work EXCEPT ![r] = w]
  PROVE  /\ work' \in [Requests -> WorkSet] /\ work'[r] = w
         /\ \A x \in Requests : x # r => work'[x] = work[x]
BY DEF AccountIInv

(* A request that ends, or goes on to its next statement.                  *)
LEMMA EndedWork ==
  ASSUME AccountIInv, NEW r \in Requests, Ended(r)
  PROVE  /\ work' \in [Requests -> WorkSet]
         /\ \A x \in Requests : work'[x] = work[x] \/ WorkOK(work[x])'
<1>1. /\ work' \in [Requests -> WorkSet] /\ work'[r] = Rest
      /\ \A x \in Requests : x # r => work'[x] = work[x]
  BY RestFits, WorkTakes DEF Ended
<1>2. WorkOK(work[r])'
  <2>1. Rest.pc = "rest" /\ Rest.user = NoUser /\ Rest.op = "none" /\ NoUser \notin Users
    BY RestFits DEF Rest
  <2>2. Fitting(work[r])'
    BY <1>1, <2>1 DEF Fitting
  <2>3. Seen(work[r])'
    BY <1>1, <2>1 DEF Seen
  <2>4. Apart(work[r])'
    BY <1>1, <2>1 DEF Apart, EditOps
  <2> QED
    BY <2>2, <2>3, <2>4 DEF WorkOK
<1> QED
  BY <1>1, <1>2

(* A request whose row is that of an account still knows it.               *)
LEMMA NextWork ==
  ASSUME AccountIInv, NEW r \in Requests, NEW w \in WorkSet,
         work' = [work EXCEPT ![r] = w], w.op = work[r].op, w.user = work[r].user,
         w.op = "updateMe" => w.role = work[r].role,
         Fitting(w),
         UNCHANGED <<moved, departed, broken, reopened>>, role' = role
  PROVE  /\ work' \in [Requests -> WorkSet]
         /\ \A x \in Requests : work'[x] = work[x] \/ WorkOK(work[x])'
<1>1. /\ work' \in [Requests -> WorkSet] /\ work'[r] = w
      /\ \A x \in Requests : x # r => work'[x] = work[x]
  BY WorkTakes
<1>2. WorkOK(work[r])
  BY DEF AccountIInv
<1>3. Fitting(work[r])' /\ Seen(work[r])' /\ Apart(work[r])'
  BY <1>1, <1>2 DEF WorkOK, Fitting, Seen, Apart, Changed, Exists
<1> QED
  BY <1>1, <1>3 DEF WorkOK

LEMMA GotoWork ==
  ASSUME AccountIInv, NEW r \in Requests, NEW pc \in Stages, Goto(r, pc),
         pc \notin {"rest", "creating"}, work[r].user \in Users,
         pc \in {"profiling", "avatar", "naming"} => work[r].op = "google",
         pc \in {"emailing", "editing"} => work[r].op = "updateMe",
         pc \in {"reading", "looking", "saving"} => work[r].op = "updateUser",
         UNCHANGED <<moved, departed, broken, reopened>>, role' = role
  PROVE  /\ work' \in [Requests -> WorkSet]
         /\ \A x \in Requests : work'[x] = work[x] \/ WorkOK(work[x])'
<1> DEFINE w == [work[r] EXCEPT !.pc = pc]
<1>1. work[r] \in WorkSet /\ Fitting(work[r])
  BY DEF AccountIInv, WorkOK
<1>2. w \in WorkSet /\ w.pc = pc /\ w.op = work[r].op /\ w.user = work[r].user /\ w.role = work[r].role
  BY <1>1 DEF WorkSet
<1>3. work' = [work EXCEPT ![r] = w]
  BY DEF Goto
<1>4. Fitting(w)
  BY <1>1, <1>2 DEF Fitting
<1> HIDE DEF w
<1> QED
  BY <1>2, <1>3, <1>4, NextWork

(* A request that begins with what it read of a user.                      *)
LEMMA BeginWork ==
  ASSUME AccountIInv, NEW r \in Requests, NEW op \in Operations, NEW pc \in Stages, NEW u \in Users, NEW seen,
         Begin(r, op, pc, u, seen), pc \notin {"rest", "creating"},
         pc \in {"profiling", "avatar", "naming"} => op = "google",
         pc \in {"emailing", "editing"} => op = "updateMe",
         pc \in {"reading", "looking", "saving"} => op = "updateUser",
         op = "updateMe" => "role" \in seen,
         UNCHANGED <<moved, departed, broken>>, role' = role,
         op \in EditOps => u \notin departed' \ reopened'
  PROVE  /\ work' \in [Requests -> WorkSet]
         /\ \A x \in Requests : work'[x] = work[x] \/ WorkOK(work[x])'
<1> DEFINE ro == IF "role" \in seen THEN role[u] ELSE "none"
           ps == IF "profiles" \in seen THEN profiles[u] ELSE {}
           w == [op |-> op, pc |-> pc, user |-> u, email |-> NoEmail, role |-> ro, profiles |-> ps]
<1>1. ro \in Roles \cup {"none"} /\ ps \in SUBSET Kinds
  BY DEF AccountIInv, Tables
<1>2. work' = [work EXCEPT ![r] = w]
  <2>1. work' = [work EXCEPT ![r] = [Rest EXCEPT !.op = op, !.pc = pc, !.user = u, !.role = ro, !.profiles = ps]]
    BY DEF Begin, Rest
  <2> DEFINE a1 == [Rest EXCEPT !.op = op]
             a2 == [a1 EXCEPT !.pc = pc]
             a3 == [a2 EXCEPT !.user = u]
             a4 == [a3 EXCEPT !.role = ro]
  <2>2. a1 = [op |-> op, pc |-> "rest", user |-> NoUser, email |-> NoEmail, role |-> "none", profiles |-> {}]
    BY DEF Rest
  <2> HIDE DEF a1, ro, ps
  <2>3. a2 = [op |-> op, pc |-> pc, user |-> NoUser, email |-> NoEmail, role |-> "none", profiles |-> {}]
    BY <2>2
  <2> HIDE DEF a2
  <2>4. a3 = [op |-> op, pc |-> pc, user |-> u, email |-> NoEmail, role |-> "none", profiles |-> {}]
    BY <2>3
  <2> HIDE DEF a3
  <2>5. a4 = [op |-> op, pc |-> pc, user |-> u, email |-> NoEmail, role |-> ro, profiles |-> {}]
    BY <2>4
  <2> HIDE DEF a4
  <2>6. [a4 EXCEPT !.profiles = ps] = w
    BY <2>5
  <2> QED
    BY <2>1, <2>6 DEF a1, a2, a3, a4
<1>3. (op = "updateMe" => ro = role[u]) /\ Exists(u)
  BY DEF Begin
<1> HIDE DEF ro, ps
<1>4. w \in WorkSet
  BY <1>1 DEF WorkSet
<1>5. /\ work' \in [Requests -> WorkSet] /\ work'[r] = w
      /\ \A x \in Requests : x # r => work'[x] = work[x]
  BY <1>2, <1>4, WorkTakes
<1>6. WorkOK(work[r])'
  <2>1. Fitting(work[r])'
    BY <1>5 DEF Fitting
  <2>2. Seen(work[r])'
    BY <1>3, <1>5 DEF Seen, Exists
  <2>3. Apart(work[r])'
    BY <1>5 DEF Apart
  <2> QED
    BY <2>1, <2>2, <2>3 DEF WorkOK
<1> QED
  BY <1>5, <1>6

-----------------------------------------------------------------------------
(* What is known of a request that goes on.                                *)
LEMMA Known ==
  ASSUME AccountIInv, NEW r \in Requests, work[r].pc \notin {"rest", "creating"}
  PROVE  /\ work[r] \in WorkSet /\ work[r].user \in Users
         /\ Fitting(work[r]) /\ Seen(work[r]) /\ Apart(work[r])
         /\ RowOK(work[r].user) /\ HasProfile(work[r].user) /\ Anonymous(work[r].user)
BY DEF AccountIInv, WorkOK, Fitting

(* Two accounts never have the same address.                               *)
LEMMA Unheld ==
  ASSUME AccountIInv, NEW u \in Users, NEW e \in Emails, Holders(e) \subseteq {u}
  PROVE  \A x \in Users \ {u} : email[x] # e
BY AccountsAssumption DEF AccountIInv, RowOK, Holders

LEMMA RegisterKeeps ==
  ASSUME AccountIInv, NEW r \in Requests, NEW e \in Emails, NEW ro \in SignupRoles, Register(r, e, ro)
  PROVE  AccountIInv'
<1> DEFINE w == [op |-> "register", pc |-> "creating", user |-> NoUser, email |-> e, role |-> ro, profiles |-> {}]
<1>1. work' = [work EXCEPT ![r] = w]
  <2> DEFINE a1 == [Rest EXCEPT !.op = "register"]
             a2 == [a1 EXCEPT !.pc = "creating"]
             a3 == [a2 EXCEPT !.email = e]
  <2>1. a1 = [op |-> "register", pc |-> "rest", user |-> NoUser, email |-> NoEmail, role |-> "none", profiles |-> {}]
    BY DEF Rest
  <2> HIDE DEF a1
  <2>2. a2 = [op |-> "register", pc |-> "creating", user |-> NoUser, email |-> NoEmail, role |-> "none", profiles |-> {}]
    BY <2>1
  <2> HIDE DEF a2
  <2>3. a3 = [op |-> "register", pc |-> "creating", user |-> NoUser, email |-> e, role |-> "none", profiles |-> {}]
    BY <2>2
  <2> HIDE DEF a3
  <2>4. [a3 EXCEPT !.role = ro] = w
    BY <2>3
  <2> QED
    BY <2>4 DEF Register, a1, a2, a3
<1>2. w \in WorkSet
  BY DEF WorkSet, Operations, Stages, SignupRoles, Roles
<1>3. /\ work' \in [Requests -> WorkSet] /\ work'[r] = w
      /\ \A x \in Requests : x # r => work'[x] = work[x]
  BY <1>1, <1>2, WorkTakes
<1>4. WorkOK(work[r])'
  BY <1>3, AccountsAssumption DEF WorkOK, Fitting, Seen, Apart, EditOps
<1> QED
  BY <1>3, <1>4, WorkStep DEF Register, accountHistory

LEMMA GoogleSignInKeeps ==
  ASSUME AccountIInv, NEW r \in Requests, NEW u \in Users, GoogleSignIn(r, u)
  PROVE  AccountIInv'
<1>1. u \notin departed' \ reopened'
  BY AccountsAssumption DEF AccountIInv, Anonymous, GoogleSignIn, accountHistory, Begin
<1>2. PICK pc \in {"profiling", "avatar"} : Begin(r, "google", pc, u, {"role", "profiles"})
  BY DEF GoogleSignIn
<1>3. UNCHANGED tables /\ UNCHANGED <<moved, departed, broken, reopened>>
  BY DEF GoogleSignIn, accountHistory
<1>4. role' = role
  BY <1>3 DEF tables
<1>5. /\ work' \in [Requests -> WorkSet]
      /\ \A x \in Requests : work'[x] = work[x] \/ WorkOK(work[x])'
  <2>1. "google" \in Operations /\ pc \in Stages
    BY DEF Operations, Stages
  <2> QED
    BY <1>1, <1>2, <1>3, <1>4, <2>1, BeginWork
<1> QED
  BY <1>3, <1>5, WorkStep

LEMMA UpdateMeKeeps ==
  ASSUME AccountIInv, NEW r \in Requests, NEW u \in Users, UpdateMe(r, u)
  PROVE  AccountIInv'
<1>1. PICK pc \in {"emailing", "editing"} : Begin(r, "updateMe", pc, u, {"role"})
  BY DEF UpdateMe
<1>2. /\ UNCHANGED tables /\ UNCHANGED <<moved, departed, broken>>
      /\ reopened \subseteq reopened' /\ u \notin departed' \ reopened'
  BY DEF UpdateMe
<1>3. role' = role
  BY <1>2 DEF tables
<1>4. /\ work' \in [Requests -> WorkSet]
      /\ \A x \in Requests : work'[x] = work[x] \/ WorkOK(work[x])'
  <2>1. "updateMe" \in Operations /\ pc \in Stages
    BY DEF Operations, Stages
  <2> QED
    BY <1>1, <1>2, <1>3, <2>1, BeginWork
<1> QED
  BY <1>2, <1>4, WorkStep

(* Requests that only read before they write: deleteMe and approveUser.    *)
LEMMA ReadersKeep ==
  ASSUME AccountIInv, NEW r \in Requests, NEW u \in Users, DeleteMe(r, u) \/ ApproveUser(r, u)
  PROVE  AccountIInv'
<1>1. UNCHANGED tables /\ UNCHANGED <<moved, departed, broken, reopened>>
  BY DEF DeleteMe, ApproveUser, accountHistory
<1>2. role' = role
  BY <1>1 DEF tables
<1>3. {"deleteMe", "approveUser"} \subseteq Operations /\ {"leaving", "approving"} \subseteq Stages
  BY DEF Operations, Stages
<1>4. /\ work' \in [Requests -> WorkSet]
      /\ \A x \in Requests : work'[x] = work[x] \/ WorkOK(work[x])'
  <2>1. CASE DeleteMe(r, u)
    <3>1. Begin(r, "deleteMe", "leaving", u, {})
      BY <2>1 DEF DeleteMe
    <3> QED
      BY <1>1, <1>2, <1>3, <3>1, BeginWork DEF EditOps
  <2>2. CASE ApproveUser(r, u)
    <3>1. Begin(r, "approveUser", "approving", u, {"profiles"})
      BY <2>2 DEF ApproveUser
    <3> QED
      BY <1>1, <1>2, <1>3, <3>1, BeginWork DEF EditOps
  <2> QED
    BY <2>1, <2>2
<1> QED
  BY <1>1, <1>4, WorkStep

LEMMA StartRemovalKeeps ==
  ASSUME AccountIInv, NEW r \in Requests, NEW u \in Users,
         NEW op \in {"deleteUser", "rejectUser", "deleteDriver"}, StartRemoval(r, op, u)
  PROVE  AccountIInv'
<1> DEFINE pc == IF op = "deleteUser" THEN "unbooking" ELSE "clearing"
           ps == CASE op = "deleteUser" -> Kinds
                   [] op = "rejectUser" -> profiles[u] \ {"customer"}
                   [] OTHER -> {"driver"}
           w == [op |-> op, pc |-> pc, user |-> u, email |-> NoEmail, role |-> "none", profiles |-> ps]
<1>1. pc \in {"unbooking", "clearing"} /\ ps \in SUBSET Kinds
  BY DEF AccountIInv, Tables, Kinds
<1>2. work' = [work EXCEPT ![r] = [Rest EXCEPT !.op = op, !.user = u, !.pc = pc, !.profiles = ps]]
  BY DEF StartRemoval
<1> HIDE DEF pc, ps
<1>3. [Rest EXCEPT !.op = op, !.user = u, !.pc = pc, !.profiles = ps] = w
  <2> DEFINE a1 == [Rest EXCEPT !.op = op]
             a2 == [a1 EXCEPT !.user = u]
             a3 == [a2 EXCEPT !.pc = pc]
  <2>1. a1 = [op |-> op, pc |-> "rest", user |-> NoUser, email |-> NoEmail, role |-> "none", profiles |-> {}]
    BY DEF Rest
  <2> HIDE DEF a1
  <2>2. a2 = [op |-> op, pc |-> "rest", user |-> u, email |-> NoEmail, role |-> "none", profiles |-> {}]
    BY <2>1
  <2> HIDE DEF a2
  <2>3. a3 = [op |-> op, pc |-> pc, user |-> u, email |-> NoEmail, role |-> "none", profiles |-> {}]
    BY <2>2
  <2> HIDE DEF a3
  <2>4. [a3 EXCEPT !.profiles = ps] = w
    BY <2>3
  <2> QED
    BY <2>4 DEF a1, a2, a3
<1>4. w \in WorkSet
  BY <1>1 DEF WorkSet, Operations, Stages
<1>5. /\ work' \in [Requests -> WorkSet] /\ work'[r] = w
      /\ \A x \in Requests : x # r => work'[x] = work[x]
  BY <1>2, <1>3, <1>4, WorkTakes
<1>6. UNCHANGED tables /\ UNCHANGED <<moved, departed, broken, reopened>> /\ Exists(u)
  BY DEF StartRemoval, accountHistory
<1>7. WorkOK(work[r])'
  <2>1. Fitting(work[r])'
    BY <1>1, <1>5 DEF Fitting
  <2>2. Seen(work[r])'
    BY <1>5, <1>6 DEF Seen, Exists, tables
  <2>3. Apart(work[r])'
    BY <1>5 DEF Apart, EditOps
  <2> QED
    BY <2>1, <2>2, <2>3 DEF WorkOK
<1> QED
  BY <1>5, <1>6, <1>7, WorkStep

LEMMA FailsKeeps ==
  ASSUME AccountIInv, NEW r \in Requests, UNCHANGED tables, UNCHANGED accountHistory, Ended(r)
  PROVE  AccountIInv'
BY EndedWork, WorkStep DEF accountHistory

LEMMA ReadRoleKeeps ==
  ASSUME AccountIInv, NEW r \in Requests, ReadRole(r) \/ LookForRow(r)
  PROVE  AccountIInv'
<1>1. UNCHANGED tables /\ UNCHANGED accountHistory
  BY DEF ReadRole, LookForRow
<1>2. CASE Ended(r)
  BY <1>1, <1>2, FailsKeeps
<1>3. CASE ~Ended(r)
  <2> DEFINE u == work[r].user
             w == IF work[r].pc = "reading" THEN [work[r] EXCEPT !.pc = "looking", !.role = role[u]]
                                            ELSE [work[r] EXCEPT !.pc = "saving", !.profiles = profiles[u]]
  <2>1. work[r].pc \in {"reading", "looking"}
    BY DEF ReadRole, LookForRow
  <2>2. work[r] \in WorkSet /\ u \in Users /\ Fitting(work[r])
    BY <2>1, Known
  <2>3. work[r].op = "updateUser"
    BY <2>1, <2>2 DEF Fitting
  <2>4. role[u] \in Roles \cup {"none"} /\ profiles[u] \in SUBSET Kinds
    BY <2>2 DEF AccountIInv, Tables
  <2>5. w \in WorkSet /\ w.pc \in {"looking", "saving"} /\ w.op = "updateUser" /\ w.user = u
    BY <2>1, <2>2, <2>3, <2>4 DEF WorkSet, Stages
  <2>6. work' = [work EXCEPT ![r] = w]
    BY <1>3, <2>1, <2>2 DEF ReadRole, LookForRow, AccountIInv, WorkSet
  <2> HIDE DEF w
  <2>7. Fitting(w)
    BY <2>2, <2>5 DEF Fitting
  <2>8. /\ work' \in [Requests -> WorkSet]
        /\ \A x \in Requests : work'[x] = work[x] \/ WorkOK(work[x])'
    BY <1>1, <2>3, <2>5, <2>6, <2>7, NextWork DEF tables, accountHistory
  <2> QED
    BY <1>1, <2>8, WorkStep DEF accountHistory
<1> QED
  BY <1>2, <1>3

-----------------------------------------------------------------------------
(* A step that writes the row of one user and no history.                  *)
LEMMA QuietRow ==
  ASSUME AccountIInv, NEW u \in Users, Tables', work' \in [Requests -> WorkSet],
         \A x \in Users \ {u} :
           /\ role'[x] = role[x] /\ email'[x] = email[x] /\ profiles'[x] = profiles[x]
           /\ approved'[x] = approved[x] /\ personal'[x] = personal[x],
         UNCHANGED accountHistory,
         RowOK(u)', HasProfile(u)', Anonymous(u)',
         email'[u] = email[u] \/ (\A x \in Users \ {u} : email[x] # email'[u]),
         role'[u] = role[u] \/ ~Exists(u),
         \A r \in Requests : work'[r] = work[r] \/ WorkOK(work[r])'
  PROVE  AccountIInv'
<1>1. email'[u] \in Emails => \A x \in Users \ {u} : email[x] # email'[u]
  BY DEF AccountIInv, OneHolder
<1>2. UNCHANGED <<moved, departed, broken, reopened>>
  BY DEF accountHistory
<1> QED
  BY <1>1, <1>2, RowStep

LEMMA GrownProfiles ==
  ASSUME AccountIInv, NEW u \in Users, NEW kinds \in SUBSET Kinds, Exists(u), u \notin departed \ reopened,
         profiles' = [profiles EXCEPT ![u] = @ \cup kinds], personal' = [personal EXCEPT ![u] = @ \cup kinds],
         UNCHANGED <<role, email, approved, booked, accountHistory>>
  PROVE  /\ Tables' /\ RowOK(u)' /\ HasProfile(u)' /\ Anonymous(u)'
         /\ \A x \in Users \ {u} :
              /\ role'[x] = role[x] /\ email'[x] = email[x] /\ profiles'[x] = profiles[x]
              /\ approved'[x] = approved[x] /\ personal'[x] = personal[x]
<1>1. Tables /\ RowOK(u) /\ HasProfile(u)
  BY DEF AccountIInv
<1>2. Tables'
  BY <1>1 DEF Tables
<1>3. /\ profiles'[u] = profiles[u] \cup kinds /\ personal'[u] = personal[u] \cup kinds
      /\ \A x \in Users \ {u} : profiles'[x] = profiles[x] /\ personal'[x] = personal[x]
  BY <1>1 DEF Tables
<1>4. RowOK(u)' /\ HasProfile(u)' /\ Anonymous(u)'
  BY <1>1, <1>3 DEF RowOK, HasProfile, Anonymous, Exists, Changed, accountHistory
<1> QED
  BY <1>2, <1>3, <1>4

LEMMA ProfileKinds ==
  /\ \A ro : ProfileOf(ro) \in SUBSET Kinds /\ CreatedProfile(ro) \in Kinds
  /\ \A ro \in SignupRoles : ProfileOf(ro) = {CreatedProfile(ro)}
<1>1. \A ro : ProfileOf(ro) \in SUBSET Kinds
  BY DEF ProfileOf
<1>2. \A ro : CreatedProfile(ro) \in Kinds
  BY DEF CreatedProfile, Kinds
<1>3. ASSUME NEW ro \in SignupRoles PROVE ProfileOf(ro) = {CreatedProfile(ro)}
  BY DEF SignupRoles, ProfileOf, CreatedProfile, Kinds
<1> QED
  BY <1>1, <1>2, <1>3

LEMMA NewUserKeeps ==
  ASSUME AccountIInv, NEW u \in Users, NEW e \in Emails, NEW ro \in Roles, NEW kinds \in SUBSET Kinds,
         ~Exists(u), ~Changed(u), Holders(e) = {}, NewUser(u, e, ro, kinds), ProfileOf(ro) \subseteq kinds,
         UNCHANGED accountHistory, work' \in [Requests -> WorkSet],
         \A r \in Requests : work'[r] = work[r] \/ WorkOK(work[r])'
  PROVE  AccountIInv'
<1>1. Tables /\ RowOK(u)
  BY DEF AccountIInv
<1>2. Tables'
  BY <1>1 DEF Tables, NewUser
<1>3. /\ role'[u] = ro /\ email'[u] = e /\ profiles'[u] = kinds /\ personal'[u] = kinds /\ approved'[u] = approved[u]
      /\ \A x \in Users \ {u} :
           /\ role'[x] = role[x] /\ email'[x] = email[x] /\ profiles'[x] = profiles[x]
           /\ approved'[x] = approved[x] /\ personal'[x] = personal[x]
  BY <1>1 DEF Tables, NewUser
<1>4. RowOK(u)'
  BY <1>1, <1>3 DEF RowOK, Exists, Roles
<1>5. HasProfile(u)'
  BY <1>3 DEF HasProfile
<1>6. Anonymous(u)'
  BY DEF Anonymous, Changed, accountHistory
<1>7. \A x \in Users \ {u} : email[x] # e
  BY Unheld
<1> QED
  BY <1>2, <1>3, <1>4, <1>5, <1>6, <1>7, QuietRow

LEMMA CreateAccountKeeps ==
  ASSUME AccountIInv, NEW r \in Requests, CreateAccount(r)
  PROVE  AccountIInv'
<1>1. CASE UNCHANGED tables
  BY <1>1, FailsKeeps DEF CreateAccount
<1>2. CASE ~UNCHANGED tables
  <2> DEFINE e == work[r].email
             ro == work[r].role
  <2>1. e \in Emails /\ ro \in SignupRoles
    BY DEF AccountIInv, WorkOK, Fitting, CreateAccount
  <2>2. Holders(e) = {}
    BY <1>2 DEF CreateAccount
  <2>3. PICK u \in Users : ~Exists(u) /\ ~Changed(u) /\ NewUser(u, e, ro, {CreatedProfile(ro)})
    BY <1>2 DEF CreateAccount, Changed
  <2>4. /\ ro \in Roles /\ {CreatedProfile(ro)} \in SUBSET Kinds /\ ProfileOf(ro) \subseteq {CreatedProfile(ro)}
    BY <2>1, ProfileKinds DEF SignupRoles, Roles
  <2>5. /\ UNCHANGED accountHistory /\ work' \in [Requests -> WorkSet]
        /\ \A x \in Requests : work'[x] = work[x] \/ WorkOK(work[x])'
    BY EndedWork DEF CreateAccount
  <2> QED
    BY <2>1, <2>2, <2>3, <2>4, <2>5, NewUserKeeps
<1> QED
  BY <1>1, <1>2

LEMMA AdminCreateKeeps ==
  ASSUME AccountIInv, NEW u \in Users, NEW e \in Emails, NEW ro \in Roles, AdminCreate(u, e, ro)
  PROVE  AccountIInv'
<1>1. ~Exists(u) /\ ~Changed(u) /\ Holders(e) = {} /\ NewUser(u, e, ro, ProfileOf(ro))
  BY DEF AdminCreate, Changed
<1>2. UNCHANGED accountHistory /\ work' = work /\ work \in [Requests -> WorkSet]
  BY DEF AdminCreate, AccountIInv
<1>3. ProfileOf(ro) \in SUBSET Kinds
  BY ProfileKinds
<1> QED
  BY <1>1, <1>2, <1>3, NewUserKeeps

(* Google sign-in reads the account again after each statement.            *)
LEMMA RereadWork ==
  ASSUME AccountIInv, NEW r \in Requests, NEW pc \in {"avatar", "naming"}, Reread(r, pc), Tables',
         work[r].user \in Users, work[r].op = "google", UNCHANGED accountHistory, role' = role
  PROVE  /\ work' \in [Requests -> WorkSet]
         /\ \A x \in Requests : work'[x] = work[x] \/ WorkOK(work[x])'
<1> DEFINE u == work[r].user
           w == [work[r] EXCEPT !.pc = pc, !.role = role'[u], !.profiles = profiles'[u]]
<1>1. work[r] \in WorkSet /\ Fitting(work[r])
  BY DEF AccountIInv, WorkOK
<1>2. role'[u] \in Roles \cup {"none"} /\ profiles'[u] \in SUBSET Kinds
  BY DEF Tables
<1>3. w \in WorkSet /\ w.pc = pc /\ w.op = "google" /\ w.user = u
  BY <1>1, <1>2 DEF WorkSet, Stages
<1>4. work' = [work EXCEPT ![r] = w]
  BY <1>1 DEF Reread, AccountIInv, WorkSet
<1> HIDE DEF w
<1>5. Fitting(w)
  BY <1>3 DEF Fitting
<1>6. UNCHANGED <<moved, departed, broken, reopened>>
  BY DEF accountHistory
<1> QED
  BY <1>3, <1>4, <1>5, <1>6, NextWork

LEMMA GoogleProfileKeeps ==
  ASSUME AccountIInv, NEW r \in Requests, GoogleProfile(r)
  PROVE  AccountIInv'
<1>a. PICK u, kind : u = work[r].user /\ kind = CreatedProfile(work[r].role)
  OBVIOUS
<1> USE <1>a
<1>1. work[r].pc = "profiling" /\ UNCHANGED accountHistory
  BY DEF GoogleProfile
<1>2. u \in Users /\ work[r].op = "google" /\ Apart(work[r])
  BY <1>1, Known DEF Fitting
<1>3. {kind} \in SUBSET Kinds /\ u \notin departed \ reopened
  BY <1>2, ProfileKinds DEF Apart, EditOps
<1>4. CASE Exists(u) /\ kind \notin profiles[u]
  <2>1. /\ profiles' = [profiles EXCEPT ![u] = @ \cup {kind}] /\ personal' = [personal EXCEPT ![u] = @ \cup {kind}]
        /\ UNCHANGED <<role, email, approved, booked, accountHistory>> /\ Reread(r, "avatar")
    BY <1>4 DEF GoogleProfile
  <2>2. /\ Tables' /\ RowOK(u)' /\ HasProfile(u)' /\ Anonymous(u)'
        /\ \A x \in Users \ {u} :
             /\ role'[x] = role[x] /\ email'[x] = email[x] /\ profiles'[x] = profiles[x]
             /\ approved'[x] = approved[x] /\ personal'[x] = personal[x]
    BY <1>2, <1>3, <1>4, <2>1, GrownProfiles
  <2>3. /\ work' \in [Requests -> WorkSet]
        /\ \A x \in Requests : work'[x] = work[x] \/ WorkOK(work[x])'
    BY <1>2, <2>1, <2>2, RereadWork
  <2>4. email'[u] = email[u] /\ role'[u] = role[u]
    BY <2>1
  <2> QED
    BY <1>1, <1>2, <2>2, <2>3, <2>4, QuietRow
<1>5. CASE ~(Exists(u) /\ kind \notin profiles[u])
  <2>1. UNCHANGED tables /\ Goto(r, "avatar")
    BY <1>5 DEF GoogleProfile
  <2>2. /\ work' \in [Requests -> WorkSet]
        /\ \A x \in Requests : work'[x] = work[x] \/ WorkOK(work[x])'
    BY <1>1, <1>2, <2>1, GotoWork DEF Stages, tables, accountHistory
  <2> QED
    BY <1>1, <2>1, <2>2, WorkStep DEF accountHistory
<1> QED
  BY <1>4, <1>5

LEMMA GoogleAvatarKeeps ==
  ASSUME AccountIInv, NEW r \in Requests, GoogleAvatar(r)
  PROVE  AccountIInv'
<1>a. PICK u, kind : u = work[r].user /\ kind = CreatedProfile(work[r].role)
  OBVIOUS
<1> USE <1>a
<1>1. work[r].pc = "avatar" /\ UNCHANGED accountHistory
  BY DEF GoogleAvatar
<1>2. u \in Users /\ work[r].op = "google" /\ Apart(work[r]) /\ RowOK(u) /\ HasProfile(u)
  BY <1>1, Known DEF Fitting
<1>3. u \notin departed \ reopened
  BY <1>2 DEF Apart, EditOps
<1>4. CASE UNCHANGED tables /\ Goto(r, "naming")
  <2>1. /\ work' \in [Requests -> WorkSet]
        /\ \A x \in Requests : work'[x] = work[x] \/ WorkOK(work[x])'
    BY <1>1, <1>2, <1>4, GotoWork DEF Stages, tables, accountHistory
  <2> QED
    BY <1>1, <1>4, <2>1, WorkStep DEF accountHistory
<1>5. CASE ~(UNCHANGED tables /\ Goto(r, "naming"))
  <2>1. /\ kind \in profiles[u] /\ personal' = [personal EXCEPT ![u] = @ \cup {kind}]
        /\ UNCHANGED <<role, email, profiles, approved, booked>> /\ Reread(r, "naming")
    BY <1>5 DEF GoogleAvatar
  <2>2. Tables /\ profiles[u] \in SUBSET Kinds
    BY <1>2 DEF AccountIInv, Tables
  <2>3. Tables'
    BY <2>1, <2>2 DEF Tables
  <2>4. personal'[u] = personal[u] \cup {kind} /\ \A x \in Users \ {u} : personal'[x] = personal[x]
    BY <1>2, <2>1, <2>2 DEF Tables
  <2>5. RowOK(u)' /\ HasProfile(u)' /\ Anonymous(u)'
    BY <1>1, <1>2, <1>3, <2>1, <2>4 DEF RowOK, HasProfile, Anonymous, Exists, Changed, accountHistory
  <2>6. /\ work' \in [Requests -> WorkSet]
        /\ \A x \in Requests : work'[x] = work[x] \/ WorkOK(work[x])'
    BY <1>1, <1>2, <2>1, <2>3, RereadWork
  <2> QED
    BY <1>1, <1>2, <2>1, <2>3, <2>4, <2>5, <2>6, QuietRow
<1> QED
  BY <1>4, <1>5

LEMMA GoogleNameKeeps ==
  ASSUME AccountIInv, NEW r \in Requests, GoogleName(r)
  PROVE  AccountIInv'
<1>a. PICK u : u = work[r].user
  OBVIOUS
<1> USE <1>a
<1>1. work[r].pc = "naming" /\ UNCHANGED accountHistory /\ Ended(r)
  BY DEF GoogleName
<1>2. u \in Users /\ work[r].op = "google" /\ Apart(work[r]) /\ RowOK(u) /\ HasProfile(u)
  BY <1>1, Known DEF Fitting
<1>3. u \notin departed \ reopened
  BY <1>2 DEF Apart, EditOps
<1>4. CASE UNCHANGED personal
  BY <1>1, <1>4, FailsKeeps DEF GoogleName, tables
<1>5. CASE ~UNCHANGED personal
  <2>1. PICK kind \in profiles[u] : personal' = [personal EXCEPT ![u] = @ \cup {kind}]
    BY <1>5 DEF GoogleName
  <2>2. UNCHANGED <<role, email, profiles, approved, booked>>
    BY DEF GoogleName
  <2>3. Tables /\ profiles[u] \in SUBSET Kinds
    BY <1>2 DEF AccountIInv, Tables
  <2>4. Tables'
    BY <2>1, <2>2, <2>3 DEF Tables
  <2>5. personal'[u] = personal[u] \cup {kind} /\ \A x \in Users \ {u} : personal'[x] = personal[x]
    BY <1>2, <2>1, <2>3 DEF Tables
  <2>6. RowOK(u)' /\ HasProfile(u)' /\ Anonymous(u)'
    BY <1>1, <1>2, <1>3, <2>1, <2>2, <2>5 DEF RowOK, HasProfile, Anonymous, Exists, Changed, accountHistory
  <2>7. /\ work' \in [Requests -> WorkSet]
        /\ \A x \in Requests : work'[x] = work[x] \/ WorkOK(work[x])'
    BY <1>1, EndedWork
  <2> QED
    BY <1>1, <1>2, <2>2, <2>4, <2>5, <2>6, <2>7, QuietRow
<1> QED
  BY <1>4, <1>5

LEMMA EditEmailKeeps ==
  ASSUME AccountIInv, NEW r \in Requests, NEW e \in Emails, EditEmail(r, e)
  PROVE  AccountIInv'
<1>a. PICK u : u = work[r].user
  OBVIOUS
<1> USE <1>a
<1>1. work[r].pc = "emailing" /\ UNCHANGED accountHistory
  BY DEF EditEmail
<1>2. u \in Users /\ work[r].op = "updateMe" /\ Apart(work[r]) /\ RowOK(u) /\ HasProfile(u)
  BY <1>1, Known DEF Fitting
<1>3. u \notin departed \ reopened
  BY <1>2 DEF Apart, EditOps
<1>4. CASE ~(Exists(u) /\ Holders(e) \subseteq {u})
  BY <1>1, <1>4, FailsKeeps DEF EditEmail
<1>5. CASE Exists(u) /\ Holders(e) \subseteq {u}
  <2>1. /\ email' = [email EXCEPT ![u] = e] /\ UNCHANGED <<role, profiles, approved, personal, booked>>
        /\ Goto(r, "editing") \/ Ended(r)
    BY <1>5 DEF EditEmail
  <2>2. Tables
    BY DEF AccountIInv
  <2>3. Tables' /\ email'[u] = e /\ \A x \in Users \ {u} : email'[x] = email[x]
    BY <1>2, <2>1, <2>2 DEF Tables
  <2>4. RowOK(u)' /\ HasProfile(u)' /\ Anonymous(u)'
    BY <1>1, <1>2, <1>3, <1>5, <2>1, <2>3 DEF RowOK, HasProfile, Anonymous, Exists, Changed, accountHistory
  <2>5. \A x \in Users \ {u} : email[x] # e
    BY <1>2, <1>5, Unheld
  <2>6. /\ work' \in [Requests -> WorkSet]
        /\ \A x \in Requests : work'[x] = work[x] \/ WorkOK(work[x])'
    <3>1. CASE Ended(r)
      BY <3>1, EndedWork
    <3>2. CASE Goto(r, "editing")
      BY <1>1, <1>2, <2>1, <3>2, GotoWork DEF Stages, accountHistory
    <3> QED
      BY <2>1, <3>1, <3>2
  <2> QED
    BY <1>1, <1>2, <2>1, <2>3, <2>4, <2>5, <2>6, QuietRow
<1> QED
  BY <1>4, <1>5

LEMMA EditProfileKeeps ==
  ASSUME AccountIInv, NEW r \in Requests, EditProfile(r)
  PROVE  AccountIInv'
<1>a. PICK u, kinds : u = work[r].user /\ kinds = ProfileOf(work[r].role)
  OBVIOUS
<1> USE <1>a
<1>1. work[r].pc = "editing" /\ UNCHANGED accountHistory /\ Ended(r)
  BY DEF EditProfile
<1>2. /\ u \in Users /\ work[r].op = "updateMe" /\ Apart(work[r]) /\ RowOK(u)
      /\ Changed(u) \/ work[r].role = role[u]
  BY <1>1, Known DEF Fitting, Seen
<1>3. u \notin departed \ reopened
  BY <1>2 DEF Apart, EditOps
<1>4. CASE ~Exists(u)
  BY <1>1, <1>4, FailsKeeps DEF EditProfile
<1>5. CASE Exists(u)
  <2>1. /\ profiles' = [profiles EXCEPT ![u] = kinds] /\ personal' = [personal EXCEPT ![u] = kinds]
        /\ approved' = [approved EXCEPT ![u] = @ \cap kinds] /\ UNCHANGED <<role, email, booked>>
    BY <1>5 DEF EditProfile
  <2>2. Tables /\ kinds \in SUBSET Kinds
    BY ProfileKinds DEF AccountIInv
  <2>3. Changed(u) \/ kinds = ProfileOf(role[u])
    BY <1>2
  <2>4. Tables'
    BY <2>1, <2>2 DEF Tables
  <2>5. /\ profiles'[u] = kinds /\ personal'[u] = kinds /\ approved'[u] = approved[u] \cap kinds
        /\ \A x \in Users \ {u} :
             profiles'[x] = profiles[x] /\ personal'[x] = personal[x] /\ approved'[x] = approved[x]
    BY <1>2, <2>1, <2>2 DEF Tables
  <2>6. RowOK(u)' /\ HasProfile(u)' /\ Anonymous(u)'
    <3>1. RowOK(u)'
      BY <1>2, <1>5, <2>1, <2>5 DEF RowOK, Exists
    <3>2. HasProfile(u)'
      BY <1>1, <2>1, <2>3, <2>5 DEF HasProfile, Changed, accountHistory
    <3>3. Anonymous(u)'
      BY <1>1, <1>3 DEF Anonymous, accountHistory
    <3> QED
      BY <3>1, <3>2, <3>3
  <2>7. /\ work' \in [Requests -> WorkSet]
        /\ \A x \in Requests : work'[x] = work[x] \/ WorkOK(work[x])'
    BY <1>1, EndedWork
  <2> QED
    BY <1>1, <1>2, <2>1, <2>4, <2>5, <2>6, <2>7, QuietRow
<1> QED
  BY <1>4, <1>5

LEMMA LeaveKeeps ==
  ASSUME AccountIInv, NEW r \in Requests, Leave(r)
  PROVE  AccountIInv'
<1>a. PICK u : u = work[r].user
  OBVIOUS
<1> USE <1>a
<1>1. work[r].pc = "leaving" /\ UNCHANGED <<moved, broken>> /\ Ended(r)
  BY DEF Leave
<1>2. u \in Users /\ RowOK(u)
  BY <1>1, Known
<1>3. CASE ~Exists(u)
  BY <1>1, <1>3, FailsKeeps DEF Leave, accountHistory
<1>4. CASE Exists(u)
  <2>1. /\ role' = [role EXCEPT ![u] = "CUSTOMER"] /\ email' = [email EXCEPT ![u] = NoEmail]
        /\ approved' = [approved EXCEPT ![u] = {}] /\ personal' = [personal EXCEPT ![u] = {}]
        /\ departed' = departed \cup {u} /\ UNCHANGED <<profiles, booked>>
        /\ reopened' = IF Editing(u) # {} THEN reopened \cup {u} ELSE reopened
    BY <1>4 DEF Leave
  <2>2. Tables
    BY DEF AccountIInv
  <2>3. Tables'
    BY <2>1, <2>2 DEF Tables, Roles
  <2>4. /\ role'[u] = "CUSTOMER" /\ email'[u] = NoEmail /\ approved'[u] = {} /\ personal'[u] = {}
        /\ \A x \in Users \ {u} :
             /\ role'[x] = role[x] /\ email'[x] = email[x] /\ profiles'[x] = profiles[x]
             /\ approved'[x] = approved[x] /\ personal'[x] = personal[x]
    BY <1>2, <2>1, <2>2 DEF Tables
  <2>5. RowOK(u)' /\ HasProfile(u)' /\ Anonymous(u)' /\ Changed(u)'
    <3>1. RowOK(u)'
      BY <2>4 DEF RowOK, Exists
    <3>2. HasProfile(u)' /\ Changed(u)'
      BY <2>1 DEF HasProfile, Changed
    <3>3. Anonymous(u)'
      BY <2>4 DEF Anonymous
    <3> QED
      BY <3>1, <3>2, <3>3
  <2>6. /\ work' \in [Requests -> WorkSet]
        /\ \A x \in Requests : work'[x] = work[x] \/ WorkOK(work[x])'
    BY <1>1, EndedWork
  <2>7. /\ moved \subseteq moved' /\ moved' \subseteq moved \cup {u}
        /\ departed \subseteq departed' /\ departed' \subseteq departed \cup {u}
        /\ broken \subseteq broken' /\ broken' \subseteq broken \cup {u}
        /\ reopened \subseteq reopened' /\ reopened' \subseteq reopened \cup {u}
    BY <1>1, <2>1
  <2>8. u \in departed' \ reopened' => Editing(u) = {}
    BY <2>1
  <2>9. email'[u] \in Emails => \A x \in Users \ {u} : email[x] # email'[u]
    BY <2>4, AccountsAssumption
  <2> QED
    BY <1>2, <2>3, <2>4, <2>5, <2>6, <2>7, <2>8, <2>9, RowStep
<1> QED
  BY <1>3, <1>4

LEMMA UpdateUserKeeps ==
  ASSUME AccountIInv, NEW r \in Requests, NEW u \in Users, NEW e \in Emails \cup {NoEmail}, NEW ro \in Roles,
         UpdateUser(r, u, e, ro)
  PROVE  AccountIInv'
<1> DEFINE w == [op |-> "updateUser", pc |-> "reading", user |-> u, email |-> NoEmail, role |-> "none", profiles |-> {}]
<1>1. /\ Exists(u) /\ (e = NoEmail \/ Holders(e) \subseteq {u})
      /\ role' = [role EXCEPT ![u] = ro] /\ email' = [email EXCEPT ![u] = IF e = NoEmail THEN @ ELSE e]
      /\ moved' = (IF ro = role[u] THEN moved ELSE moved \cup {u})
      /\ reopened' = reopened \cup ({u} \cap departed)
      /\ UNCHANGED <<profiles, approved, personal, booked, departed, broken>>
  BY DEF UpdateUser
<1>2. work' = [work EXCEPT ![r] = w]
  <2> DEFINE a1 == [Rest EXCEPT !.op = "updateUser"]
             a2 == [a1 EXCEPT !.pc = "reading"]
  <2>1. a1 = [op |-> "updateUser", pc |-> "rest", user |-> NoUser, email |-> NoEmail, role |-> "none", profiles |-> {}]
    BY DEF Rest
  <2> HIDE DEF a1
  <2>2. a2 = [op |-> "updateUser", pc |-> "reading", user |-> NoUser, email |-> NoEmail, role |-> "none", profiles |-> {}]
    BY <2>1
  <2> HIDE DEF a2
  <2>3. [a2 EXCEPT !.user = u] = w
    BY <2>2
  <2> QED
    BY <2>3 DEF UpdateUser, a1, a2
<1>3. w \in WorkSet
  BY DEF WorkSet, Operations, Stages
<1>4. /\ work' \in [Requests -> WorkSet] /\ work'[r] = w
      /\ \A x \in Requests : x # r => work'[x] = work[x]
  BY <1>2, <1>3, WorkTakes
<1>5. Tables /\ RowOK(u) /\ HasProfile(u) /\ OneHolder
  BY DEF AccountIInv
<1>6. Tables'
  BY <1>1, <1>5 DEF Tables
<1>7. /\ role'[u] = ro /\ email'[u] \in {email[u], e} /\ (e = NoEmail => email'[u] = email[u])
      /\ \A x \in Users \ {u} :
           /\ role'[x] = role[x] /\ email'[x] = email[x] /\ profiles'[x] = profiles[x]
           /\ approved'[x] = approved[x] /\ personal'[x] = personal[x]
  BY <1>1, <1>5 DEF Tables
<1>8. ro # "none" /\ (ro = role[u] \/ Changed(u)')
  BY <1>1 DEF Roles, Changed
<1>9. RowOK(u)' /\ HasProfile(u)' /\ Anonymous(u)'
  <2>1. RowOK(u)'
    BY <1>1, <1>5, <1>7, <1>8 DEF RowOK, Exists
  <2>2. HasProfile(u)'
    BY <1>1, <1>5, <1>7, <1>8 DEF HasProfile, Exists, Changed
  <2>3. Anonymous(u)'
    BY <1>1 DEF Anonymous
  <2> QED
    BY <2>1, <2>2, <2>3
<1>10. email'[u] \in Emails => \A x \in Users \ {u} : email[x] # email'[u]
  <2>1. CASE e \in Emails
    <3>1. \A x \in Users \ {u} : email[x] # e
      BY <1>1, <2>1, AccountsAssumption, Unheld
    <3> QED
      BY <1>5, <1>7, <3>1 DEF OneHolder
  <2>2. CASE e = NoEmail
    BY <1>5, <1>7, <2>2 DEF OneHolder
  <2> QED
    BY <2>1, <2>2
<1>11. WorkOK(work[r])'
  <2>1. Fitting(work[r])'
    BY <1>4 DEF Fitting
  <2>2. Seen(work[r])'
    BY <1>4, <1>7, <1>8 DEF Seen, Exists
  <2>3. Apart(work[r])'
    BY <1>1, <1>4 DEF Apart
  <2> QED
    BY <2>1, <2>2, <2>3 DEF WorkOK
<1>12. \A x \in Requests : work'[x] = work[x] \/ WorkOK(work[x])'
  BY <1>4, <1>11
<1>13. /\ moved \subseteq moved' /\ moved' \subseteq moved \cup {u}
       /\ departed \subseteq departed' /\ departed' \subseteq departed \cup {u}
       /\ broken \subseteq broken' /\ broken' \subseteq broken \cup {u}
       /\ reopened \subseteq reopened' /\ reopened' \subseteq reopened \cup {u}
       /\ u \notin departed' \ reopened'
  BY <1>1
<1>14. work' \in [Requests -> WorkSet] /\ (role'[u] = role[u] \/ Changed(u)')
  BY <1>4, <1>7, <1>8
<1> HIDE DEF w
<1> QED
  BY <1>6, <1>7, <1>9, <1>10, <1>12, <1>13, <1>14, RowStep

LEMMA SaveProfileKeeps ==
  ASSUME AccountIInv, NEW r \in Requests, SaveProfile(r)
  PROVE  AccountIInv'
<1>a. PICK u, kinds : u = work[r].user /\ kinds = ProfileOf(work[r].role)
  OBVIOUS
<1> USE <1>a
<1>1. work[r].pc = "saving" /\ UNCHANGED accountHistory /\ Ended(r) /\ UNCHANGED <<role, email, approved, booked>>
  BY DEF SaveProfile
<1>2. u \in Users /\ work[r].op = "updateUser" /\ Apart(work[r])
  BY <1>1, Known DEF Fitting
<1>3. kinds \in SUBSET Kinds /\ u \notin departed \ reopened
  BY <1>2, ProfileKinds DEF Apart, EditOps
<1>4. CASE UNCHANGED <<profiles, personal>>
  BY <1>1, <1>4, FailsKeeps DEF tables
<1>5. CASE ~UNCHANGED <<profiles, personal>>
  <2>1. /\ Exists(u)
        /\ profiles' = [profiles EXCEPT ![u] = @ \cup kinds] /\ personal' = [personal EXCEPT ![u] = @ \cup kinds]
    BY <1>5 DEF SaveProfile
  <2>2. /\ Tables' /\ RowOK(u)' /\ HasProfile(u)' /\ Anonymous(u)'
        /\ \A x \in Users \ {u} :
             /\ role'[x] = role[x] /\ email'[x] = email[x] /\ profiles'[x] = profiles[x]
             /\ approved'[x] = approved[x] /\ personal'[x] = personal[x]
    BY <1>1, <1>2, <1>3, <2>1, GrownProfiles
  <2>3. /\ work' \in [Requests -> WorkSet]
        /\ \A x \in Requests : work'[x] = work[x] \/ WorkOK(work[x])'
    BY <1>1, EndedWork
  <2> QED
    BY <1>1, <1>2, <2>2, <2>3, QuietRow
<1> QED
  BY <1>4, <1>5

LEMMA ApproveKeeps ==
  ASSUME AccountIInv, NEW r \in Requests, Approve(r)
  PROVE  AccountIInv'
<1>a. PICK u : u = work[r].user
  OBVIOUS
<1> USE <1>a
<1>1. work[r].pc = "approving" /\ UNCHANGED accountHistory /\ Ended(r) /\ UNCHANGED <<role, email, profiles, personal, booked>>
  BY DEF Approve
<1>2. u \in Users /\ RowOK(u) /\ HasProfile(u) /\ Anonymous(u)
  BY <1>1, Known
<1>3. PICK kinds \in SUBSET profiles[u] : approved' = [approved EXCEPT ![u] = @ \cup kinds]
  BY DEF Approve
<1>4. Tables /\ kinds \in SUBSET Kinds
  BY <1>2 DEF AccountIInv, Tables
<1>5. Tables'
  BY <1>1, <1>3, <1>4 DEF Tables
<1>6. approved'[u] = approved[u] \cup kinds /\ \A x \in Users \ {u} : approved'[x] = approved[x]
  BY <1>2, <1>3, <1>4 DEF Tables
<1>7. RowOK(u)' /\ HasProfile(u)' /\ Anonymous(u)'
  BY <1>1, <1>2, <1>6 DEF RowOK, HasProfile, Anonymous, Exists, Changed, accountHistory
<1>8. /\ work' \in [Requests -> WorkSet]
      /\ \A x \in Requests : work'[x] = work[x] \/ WorkOK(work[x])'
  BY <1>1, EndedWork
<1> QED
  BY <1>1, <1>2, <1>5, <1>6, <1>7, <1>8, QuietRow

LEMMA ChangeUserRoleKeeps ==
  ASSUME AccountIInv, NEW u \in Users, NEW ro \in Roles, ChangeUserRole(u, ro)
  PROVE  AccountIInv'
<1>1. /\ role' = [role EXCEPT ![u] = ro] /\ moved' = moved \cup {u} /\ Exists(u)
      /\ UNCHANGED <<email, profiles, approved, personal, booked, work, departed, broken, reopened>>
  BY DEF ChangeUserRole
<1>2. Tables /\ RowOK(u) /\ Anonymous(u) /\ work \in [Requests -> WorkSet] /\ OneHolder
  BY DEF AccountIInv
<1>3. Tables' /\ role'[u] = ro /\ \A x \in Users \ {u} : role'[x] = role[x]
  BY <1>1, <1>2 DEF Tables
<1>4. RowOK(u)' /\ HasProfile(u)' /\ Anonymous(u)' /\ Changed(u)'
  <2>1. RowOK(u)'
    BY <1>1, <1>2, <1>3 DEF RowOK, Exists, Roles
  <2>2. HasProfile(u)' /\ Changed(u)'
    BY <1>1 DEF HasProfile, Changed
  <2>3. Anonymous(u)'
    BY <1>1, <1>2 DEF Anonymous, Exists
  <2> QED
    BY <2>1, <2>2, <2>3
<1>5. email'[u] \in Emails => \A x \in Users \ {u} : email[x] # email'[u]
  BY <1>1, <1>2 DEF OneHolder
<1>6. u \in departed' \ reopened' => u \in departed \ reopened
  BY <1>1
<1> QED
  BY <1>1, <1>2, <1>3, <1>4, <1>5, <1>6, RowStep

LEMMA BookedKeeps ==
  ASSUME AccountIInv, NEW u \in Users, NEW b \in BOOLEAN, booked' = [booked EXCEPT ![u] = b],
         UNCHANGED <<role, email, profiles, approved, personal, accountHistory>>,
         work' \in [Requests -> WorkSet],
         \A x \in Requests : work'[x] = work[x] \/ WorkOK(work[x])'
  PROVE  AccountIInv'
<1>1. Tables /\ RowOK(u) /\ HasProfile(u) /\ Anonymous(u)
  BY DEF AccountIInv
<1>2. Tables'
  BY <1>1 DEF Tables
<1>3. RowOK(u)' /\ HasProfile(u)' /\ Anonymous(u)'
  BY <1>1 DEF RowOK, HasProfile, Anonymous, Exists, Changed, accountHistory
<1> QED
  BY <1>2, <1>3, QuietRow

LEMMA BookKeeps ==
  ASSUME AccountIInv, NEW u \in Users, Book(u)
  PROVE  AccountIInv'
<1>1. booked' = [booked EXCEPT ![u] = TRUE] /\ UNCHANGED <<role, email, profiles, approved, personal, accountHistory>>
  BY DEF Book
<1>2. work' \in [Requests -> WorkSet] /\ work' = work
  BY DEF Book, AccountIInv
<1> QED
  BY <1>1, <1>2, BookedKeeps

LEMMA DeleteBookingsKeeps ==
  ASSUME AccountIInv, NEW r \in Requests, DeleteBookings(r)
  PROVE  AccountIInv'
<1>a. PICK u : u = work[r].user
  OBVIOUS
<1> USE <1>a
<1>1. /\ work[r].pc = "unbooking" /\ Goto(r, "clearing") /\ booked' = [booked EXCEPT ![u] = FALSE]
      /\ UNCHANGED <<role, email, profiles, approved, personal, accountHistory>>
  BY DEF DeleteBookings
<1>2. u \in Users
  BY <1>1, Known
<1>3. /\ work' \in [Requests -> WorkSet]
      /\ \A x \in Requests : work'[x] = work[x] \/ WorkOK(work[x])'
  BY <1>1, <1>2, GotoWork DEF Stages, accountHistory
<1> QED
  BY <1>1, <1>2, <1>3, BookedKeeps

(* A removal takes rows from the profile tables, or the user's own row.    *)
LEMMA ClearProfileKeeps ==
  ASSUME AccountIInv, NEW r \in Requests, ClearProfile(r)
  PROVE  AccountIInv'
<1>a. PICK u, kind : u = work[r].user /\ kind = FirstOf(work[r].profiles)
  OBVIOUS
<1> USE <1>a
<1>1. /\ work[r].pc = "clearing" /\ broken' = broken \cup {u} /\ UNCHANGED <<role, email, booked, moved, departed, reopened>>
      /\ profiles' = [profiles EXCEPT ![u] = @ \ {kind}] /\ approved' = [approved EXCEPT ![u] = @ \ {kind}]
      /\ personal' = [personal EXCEPT ![u] = @ \ {kind}]
  BY DEF ClearProfile
<1>2. work[r] \in WorkSet /\ u \in Users /\ RowOK(u) /\ Anonymous(u) /\ Fitting(work[r])
  BY <1>1, Known
<1>3. Tables
  BY DEF AccountIInv
<1>4. Tables'
  BY <1>1, <1>3 DEF Tables
<1>5. /\ profiles'[u] = profiles[u] \ {kind} /\ approved'[u] = approved[u] \ {kind}
      /\ personal'[u] = personal[u] \ {kind}
      /\ \A x \in Users \ {u} :
           profiles'[x] = profiles[x] /\ approved'[x] = approved[x] /\ personal'[x] = personal[x]
  BY <1>1, <1>2, <1>3 DEF Tables
<1>6. RowOK(u)' /\ HasProfile(u)' /\ Anonymous(u)' /\ Changed(u)'
  <2>1. RowOK(u)'
    BY <1>1, <1>2, <1>5 DEF RowOK, Exists
  <2>2. HasProfile(u)' /\ Changed(u)'
    BY <1>1 DEF HasProfile, Changed
  <2>3. Anonymous(u)'
    BY <1>1, <1>2, <1>5 DEF Anonymous, Exists
  <2> QED
    BY <2>1, <2>2, <2>3
<1>7. /\ work' \in [Requests -> WorkSet]
      /\ \A x \in Requests : work'[x] = work[x] \/ WorkOK(work[x])'
  <2>1. CASE Ended(r)
    BY <2>1, EndedWork
  <2>2. CASE ~Ended(r)
    <3> DEFINE w == [work[r] EXCEPT !.profiles = @ \ {kind}]
    <3>1. work' = [work EXCEPT ![r] = w]
      BY <2>2 DEF ClearProfile
    <3>2. /\ w \in WorkSet /\ w.pc = work[r].pc /\ w.op = work[r].op /\ w.user = u
          /\ w.role = work[r].role /\ w.email = work[r].email
      BY <1>2 DEF WorkSet
    <3> HIDE DEF w
    <3>3. /\ work' \in [Requests -> WorkSet] /\ work'[r] = w
          /\ \A x \in Requests : x # r => work'[x] = work[x]
      BY <3>1, <3>2, WorkTakes
    <3>4. WorkOK(work[r])
      BY DEF AccountIInv
    <3>5. Fitting(work[r])'
      BY <1>1, <1>2, <3>2, <3>3 DEF Fitting
    <3>6. Seen(work[r])' /\ Apart(work[r])'
      <4>1. Seen(work[r])'
        BY <1>1, <3>2, <3>3 DEF Seen, Changed
      <4>2. Apart(work[r])'
        BY <1>1, <3>2, <3>3, <3>4 DEF WorkOK, Apart
      <4> QED
        BY <4>1, <4>2
    <3> QED
      BY <3>3, <3>5, <3>6 DEF WorkOK
  <2> QED
    BY <2>1, <2>2
<1>8. email'[u] \in Emails => \A x \in Users \ {u} : email[x] # email'[u]
  BY <1>1, <1>2 DEF AccountIInv, OneHolder
<1>9. u \in departed' \ reopened' => u \in departed \ reopened
  BY <1>1
<1> QED
  BY <1>1, <1>2, <1>4, <1>5, <1>6, <1>7, <1>8, <1>9, RowStep

LEMMA DeleteRowKeeps ==
  ASSUME AccountIInv, NEW r \in Requests, DeleteRow(r)
  PROVE  AccountIInv'
<1>a. PICK u : u = work[r].user
  OBVIOUS
<1> USE <1>a
<1>1. /\ work[r].pc = "clearing" /\ broken' = broken \cup {u} /\ UNCHANGED <<booked, moved, departed, reopened>>
      /\ Ended(r)
  BY DEF DeleteRow
<1>2. u \in Users /\ RowOK(u) /\ Anonymous(u) /\ Tables
  BY <1>1, Known DEF AccountIInv
<1>3. /\ work' \in [Requests -> WorkSet]
      /\ \A x \in Requests : work'[x] = work[x] \/ WorkOK(work[x])'
  BY <1>1, EndedWork
<1>4. HasProfile(u)' /\ Changed(u)'
  BY <1>1 DEF HasProfile, Changed
<1>5. u \in departed' \ reopened' => u \in departed \ reopened
  BY <1>1
<1>6. CASE UNCHANGED <<role, email, profiles, approved, personal>>
  <2>1. Tables'
    BY <1>1, <1>2, <1>6 DEF Tables
  <2>2. RowOK(u)' /\ Anonymous(u)'
    BY <1>1, <1>2, <1>6 DEF RowOK, Anonymous, Exists
  <2>3. email'[u] \in Emails => \A x \in Users \ {u} : email[x] # email'[u]
    BY <1>2, <1>6 DEF AccountIInv, OneHolder
  <2> QED
    BY <1>1, <1>2, <1>3, <1>4, <1>5, <1>6, <2>1, <2>2, <2>3, RowStep
<1>7. CASE ~UNCHANGED <<role, email, profiles, approved, personal>>
  <2>1. /\ role' = [role EXCEPT ![u] = "none"] /\ email' = [email EXCEPT ![u] = NoEmail]
        /\ profiles' = [profiles EXCEPT ![u] = {}] /\ approved' = [approved EXCEPT ![u] = {}]
        /\ personal' = [personal EXCEPT ![u] = {}]
    BY <1>7 DEF DeleteRow
  <2>2. Tables'
    BY <1>1, <1>2, <2>1 DEF Tables
  <2>3. /\ role'[u] = "none" /\ email'[u] = NoEmail /\ profiles'[u] = {} /\ approved'[u] = {} /\ personal'[u] = {}
        /\ \A x \in Users \ {u} :
             /\ role'[x] = role[x] /\ email'[x] = email[x] /\ profiles'[x] = profiles[x]
             /\ approved'[x] = approved[x] /\ personal'[x] = personal[x]
    BY <1>2, <2>1 DEF Tables
  <2>4. RowOK(u)' /\ Anonymous(u)'
    BY <2>3 DEF RowOK, Anonymous, Exists
  <2>5. email'[u] \notin Emails
    BY <2>3, AccountsAssumption
  <2> QED
    BY <1>1, <1>2, <1>3, <1>4, <1>5, <2>2, <2>3, <2>4, <2>5, RowStep
<1> QED
  BY <1>6, <1>7


-----------------------------------------------------------------------------
LEMMA AccountStep == AccountIInv /\ [AccountNext]_accountVars => AccountIInv'
<1> SUFFICES ASSUME AccountIInv, [AccountNext]_accountVars PROVE AccountIInv'
  OBVIOUS
<1>1. CASE UNCHANGED accountVars
  <2>1. UNCHANGED tables /\ UNCHANGED <<moved, departed, broken, reopened>> /\ work' = work
    BY <1>1 DEF accountVars, accountHistory, tables
  <2>2. work' \in [Requests -> WorkSet]
    BY <2>1 DEF AccountIInv
  <2> QED
    BY <2>1, <2>2, WorkStep
<1>2. ASSUME NEW r \in Requests, NEW e \in Emails, NEW ro \in SignupRoles, Register(r, e, ro) PROVE AccountIInv'
  BY <1>2, RegisterKeeps
<1>3. ASSUME NEW u \in Users, NEW e \in Emails, NEW ro \in Roles, AdminCreate(u, e, ro) PROVE AccountIInv'
  BY <1>3, AdminCreateKeeps
<1>4. ASSUME NEW r \in Requests, NEW u \in Users,
             GoogleSignIn(r, u) \/ DeleteMe(r, u) \/ ApproveUser(r, u) \/ UpdateMe(r, u)
      PROVE  AccountIInv'
  BY <1>4, GoogleSignInKeeps, ReadersKeep, UpdateMeKeeps
<1>5. ASSUME NEW r \in Requests, NEW u \in Users, NEW e \in Emails \cup {NoEmail}, NEW ro \in Roles,
             UpdateUser(r, u, e, ro)
      PROVE  AccountIInv'
  BY <1>5, UpdateUserKeeps
<1>6. ASSUME NEW r \in Requests, NEW u \in Users, NEW op \in {"deleteUser", "rejectUser", "deleteDriver"},
             StartRemoval(r, op, u)
      PROVE  AccountIInv'
  BY <1>6, StartRemovalKeeps
<1>7. ASSUME NEW r \in Requests, CreateAccount(r) \/ GoogleProfile(r) \/ GoogleAvatar(r) \/ GoogleName(r)
      PROVE  AccountIInv'
  BY <1>7, CreateAccountKeeps, GoogleProfileKeeps, GoogleAvatarKeeps, GoogleNameKeeps
<1>8. ASSUME NEW r \in Requests, NEW e \in Emails, EditEmail(r, e) PROVE AccountIInv'
  BY <1>8, EditEmailKeeps
<1>9. ASSUME NEW r \in Requests, EditProfile(r) \/ Leave(r) \/ SaveProfile(r) \/ Approve(r) PROVE AccountIInv'
  BY <1>9, EditProfileKeeps, LeaveKeeps, SaveProfileKeeps, ApproveKeeps
<1>10. ASSUME NEW r \in Requests, ReadRole(r) \/ LookForRow(r) PROVE AccountIInv'
  BY <1>10, ReadRoleKeeps
<1>11. ASSUME NEW r \in Requests, DeleteBookings(r) \/ ClearProfile(r) \/ DeleteRow(r) PROVE AccountIInv'
  BY <1>11, DeleteBookingsKeeps, ClearProfileKeeps, DeleteRowKeeps
<1>12. ASSUME NEW r \in Requests, Fails(r) PROVE AccountIInv'
  BY <1>12, FailsKeeps DEF Fails
<1>13. ASSUME NEW u \in Users, Book(u) PROVE AccountIInv'
  BY <1>13, BookKeeps
<1>14. ASSUME NEW u \in Users, NEW ro \in Roles, ChangeUserRole(u, ro) PROVE AccountIInv'
  BY <1>14, ChangeUserRoleKeeps
<1> QED
  BY <1>1, <1>2, <1>3, <1>4, <1>5, <1>6, <1>7, <1>8, <1>9, <1>10, <1>11, <1>12, <1>13, <1>14 DEF AccountNext

LEMMA AccountAlways == AccountSpec => []AccountIInv
BY AccountStart, AccountStep, PTL DEF AccountSpec

(* Every user has at most one address, and no two users the same one; a    *)
(* profile, an approval and a person's data belong to an account; and      *)
(* whoever has an account that was not changed by an administrator, left   *)
(* by its owner or begun to be removed has the profile of its role.        *)
THEOREM AccountsHold == AccountSpec => []AccountInv
BY AccountAlways, InvImplied, PTL

(* An account that its owner deleted keeps no address and no data, unless  *)
(* an edit was under way or begun later, however requests overlap.         *)
THEOREM DepartedAnonymous == AccountSpec => []DepartedStaysAnonymous
BY AccountAlways, InvImplied, PTL

(* What a step may take from a user: nothing of the role's profile.        *)
Keeps(u) ==
  /\ ProfileOf(role[u]) \cap profiles[u] \subseteq profiles'[u]
  /\ ProfileOf(role[u]) \cap approved[u] \subseteq approved'[u]

Excused(u) ==
  \/ u \in departed' \cup broken'
  \/ \E r \in Requests : work[r].pc = "editing" /\ work[r].user = u /\ work[r].role # role[u]

LEMMA NewUserTakesNothing ==
  ASSUME AccountIInv, NEW u \in Users, NEW v \in Users, NEW e, NEW ro, NEW kinds,
         ~Exists(v), NewUser(v, e, ro, kinds)
  PROVE  Keeps(u)
<1>1. Tables
  BY DEF AccountIInv
<1>2. approved' = approved /\ (u # v => profiles'[u] = profiles[u])
  BY <1>1 DEF NewUser, Tables
<1>3. u = v => ProfileOf(role[u]) = {}
  BY DEF Exists, ProfileOf
<1> QED
  BY <1>2, <1>3 DEF Keeps

LEMMA KeptStep ==
  ASSUME AccountIInv, AccountNext, NEW u \in Users
  PROVE  Keeps(u) \/ Excused(u)
<1>1. Tables
  BY DEF AccountIInv
<1>2. CASE UNCHANGED <<profiles, approved>>
  BY <1>2 DEF Keeps
<1>3. ASSUME NEW v \in Users, NEW e \in Emails, NEW ro \in Roles, AdminCreate(v, e, ro) PROVE Keeps(u)
  BY <1>3, NewUserTakesNothing DEF AdminCreate
<1>4. ASSUME NEW r \in Requests, CreateAccount(r) PROVE Keeps(u)
  <2>1. CASE UNCHANGED tables
    BY <2>1 DEF tables, Keeps
  <2>2. CASE ~UNCHANGED tables
    BY <1>4, <2>2, NewUserTakesNothing DEF CreateAccount
  <2> QED
    BY <2>1, <2>2
<1>5. ASSUME NEW r \in Requests, GoogleProfile(r) \/ SaveProfile(r) \/ Approve(r), ~UNCHANGED <<profiles, approved>>
      PROVE  Keeps(u)
  <2>a. PICK v, kind, kinds : v = work[r].user /\ kind = CreatedProfile(work[r].role) /\ kinds = ProfileOf(work[r].role)
    OBVIOUS
  <2>1. work[r].pc \in {"profiling", "saving", "approving"}
    BY <1>5 DEF GoogleProfile, SaveProfile, Approve
  <2>2. v \in Users
    BY <2>1, <2>a, Known
  <2>3. CASE GoogleProfile(r)
    <3>1. profiles' = [profiles EXCEPT ![v] = @ \cup {kind}] /\ approved' = approved
      BY <1>5, <2>a, <2>3 DEF GoogleProfile, tables
    <3> QED
      BY <1>1, <2>2, <3>1 DEF Tables, Keeps
  <2>4. CASE SaveProfile(r)
    <3>1. profiles' = [profiles EXCEPT ![v] = @ \cup kinds] /\ approved' = approved
      BY <1>5, <2>a, <2>4 DEF SaveProfile
    <3> QED
      BY <1>1, <2>2, <3>1 DEF Tables, Keeps
  <2>5. CASE Approve(r)
    <3>1. PICK more : approved' = [approved EXCEPT ![v] = @ \cup more]
      BY <2>5, <2>a DEF Approve
    <3>2. profiles' = profiles
      BY <2>5 DEF Approve
    <3> QED
      BY <1>1, <2>2, <3>1, <3>2 DEF Tables, Keeps
  <2> QED
    BY <1>5, <2>3, <2>4, <2>5
<1>6. ASSUME NEW r \in Requests, EditProfile(r), ~UNCHANGED <<profiles, approved>> PROVE Keeps(u) \/ Excused(u)
  <2>a. PICK v, kinds : v = work[r].user /\ kinds = ProfileOf(work[r].role)
    OBVIOUS
  <2>1. /\ work[r].pc = "editing" /\ profiles' = [profiles EXCEPT ![v] = kinds]
        /\ approved' = [approved EXCEPT ![v] = @ \cap kinds]
    BY <1>6, <2>a DEF EditProfile, tables
  <2>2. v \in Users
    BY <2>1, <2>a, Known
  <2>3. CASE u # v
    BY <1>1, <2>1, <2>2, <2>3 DEF Tables, Keeps
  <2>4. CASE u = v /\ kinds = ProfileOf(role[u])
    BY <1>1, <2>1, <2>2, <2>4 DEF Tables, Keeps
  <2>5. CASE u = v /\ kinds # ProfileOf(role[u])
    BY <2>1, <2>a, <2>5 DEF Excused
  <2> QED
    BY <2>3, <2>4, <2>5
<1>7. ASSUME NEW r \in Requests, Leave(r) \/ ClearProfile(r) \/ DeleteRow(r), ~UNCHANGED <<profiles, approved>>
      PROVE  Keeps(u) \/ Excused(u)
  <2>a. PICK v : v = work[r].user
    OBVIOUS
  <2>1. v \in departed' \cup broken'
    BY <1>7, <2>a DEF Leave, ClearProfile, DeleteRow, tables
  <2>2. work[r].pc \in {"leaving", "clearing"}
    BY <1>7 DEF Leave, ClearProfile, DeleteRow
  <2>3. v \in Users
    BY <2>2, <2>a, Known
  <2>4. CASE u = v
    BY <2>1, <2>4 DEF Excused
  <2>5. CASE u # v
    <3>1. profiles'[u] = profiles[u] /\ approved'[u] = approved[u]
      <4>1. CASE Leave(r)
        BY <1>1, <1>7, <2>3, <2>5, <2>a, <4>1 DEF Leave, Tables, tables
      <4>2. CASE ClearProfile(r)
        BY <1>1, <2>3, <2>5, <2>a, <4>2 DEF ClearProfile, Tables
      <4>3. CASE DeleteRow(r)
        BY <1>1, <1>7, <2>3, <2>5, <2>a, <4>3 DEF DeleteRow, Tables
      <4> QED
        BY <1>7, <4>1, <4>2, <4>3
    <3> QED
      BY <3>1 DEF Keeps
  <2> QED
    BY <2>4, <2>5
<1>8. CASE ~UNCHANGED <<profiles, approved>>
  <2>1. \/ \E v \in Users, e \in Emails, ro \in Roles : AdminCreate(v, e, ro)
        \/ \E r \in Requests :
             \/ CreateAccount(r) \/ GoogleProfile(r) \/ SaveProfile(r) \/ Approve(r)
             \/ EditProfile(r) \/ Leave(r) \/ ClearProfile(r) \/ DeleteRow(r)
    BY <1>8 DEF AccountNext, Register, GoogleSignIn, DeleteMe, ApproveUser, UpdateMe, UpdateUser, StartRemoval,
                GoogleAvatar, GoogleName, EditEmail, ReadRole, LookForRow, DeleteBookings, Fails, Book,
                ChangeUserRole, tables
  <2> QED
    BY <1>3, <1>4, <1>5, <1>6, <1>7, <1>8, <2>1
<1> QED
  BY <1>2, <1>8

(* No step takes a user's profile of the role or its approval, but the     *)
(* owner's leaving, a removal, and an edit that had read another role.     *)
THEOREM ProfilesAreKept == AccountSpec => ProfileKept
<1>1. AccountIInv /\ [AccountNext]_accountVars =>
        [\A u \in Users :
           Exists(u)' /\ ((ProfileOf(role[u]) \cap profiles[u]) \ profiles'[u]) \cup ((ProfileOf(role[u]) \cap approved[u]) \ approved'[u]) # {}
           => \/ u \in departed' \cup broken'
              \/ \E r \in Requests : work[r].pc = "editing" /\ work[r].user = u /\ work[r].role # role[u]]_accountVars
  BY KeptStep DEF Keeps, Excused
<1> QED
  BY <1>1, AccountAlways, PTL DEF AccountSpec, ProfileKept

-----------------------------------------------------------------------------
(* SignInPages.  The load of the script: its types, and LoadsShared.       *)
LoadSet ==
  [at : {"unused", "stale", "script", "ready", "called", "done", "failed"}, host : Hosts, found : BOOLEAN]

LoadOK ==
  /\ load \in [Loads -> LoadSet] /\ current \in Loads \cup {NoLoad}
  /\ LoadsShared

(* Nothing is under way, and nothing is there.                             *)
NoScript == api = "none" /\ tag = NoLoad /\ coming = {} /\ \A l \in Loads : ~Loading(l)

AttemptSet ==
  [by : {"form", "google", "passkey"},
   at : {"unused", "executing", "waiting", "sent", "asked", "window", "closed", "exchange", "ended", "refused"},
   on : {"login", "signup", "home"} \cup Dashboards, who : Visitors \cup {Anyone}, here : BOOLEAN,
   waits : Loads \cup {NoLoad}, retried : BOOLEAN, tries : Nat, redeemed : BOOLEAN, lost : BOOLEAN]

(* A code is redeemed once; if it was and is exchanged again, an answer    *)
(* was lost.                                                               *)
AttemptOK(a) ==
  /\ a.at \notin Ends => a.who \in Visitors
  /\ a.at = "window" => ~a.redeemed
  /\ (a.at = "exchange" /\ a.redeemed) \/ a.at = "refused" => a.lost

AttemptsOK == attempt \in [Attempts -> AttemptSet] /\ \A i \in Attempts : AttemptOK(attempt[i])

PageOK ==
  /\ session \in Visitors \cup {Anyone} /\ page \in AuthPages \cup {"home"} \cup Dashboards
  /\ page \in Dashboards => session # Anyone /\ page = DashboardOf[session]
  /\ page \in AuthPages => session = Anyone

(* Elsewhere, unless left with something under way, nothing is under way.  *)
QuietElsewhere ==
  page \notin AuthPages /\ ~parted => NoScript /\ \A i \in Attempts : ~Underway(i)

SignInIInv == LoadOK /\ AttemptsOK /\ PageOK /\ QuietElsewhere

LEMMA SignInImplied == SignInIInv => SignInInv
BY DEF SignInIInv, SignInInv, LoadOK, PageOK, QuietElsewhere, NoScript, AttemptsOK, AttemptOK

LEMMA NotALoad == NoLoad \notin Loads /\ Hosts = {1, 2}
BY LoadsAssumption DEF NoLoad, Loads, Hosts

LEMMA SignInStart == SignInInit => SignInIInv
<1> SUFFICES ASSUME SignInInit PROVE SignInIInv
  OBVIOUS
<1>1. LoadOK /\ NoScript
  BY NotALoad DEF SignInInit, CaptchaInit, LoadOK, LoadSet, LoadsShared, NoScript, Loading
<1>2. Unused \in AttemptSet /\ AttemptOK(Unused) /\ Unused.at \in Ends
  BY DEF Unused, AttemptSet, AttemptOK, Ends
<1>3. AttemptsOK /\ \A i \in Attempts : ~Underway(i)
  BY <1>2 DEF SignInInit, AttemptsOK, Underway
<1>4. PageOK
  BY VisitorsAssumption DEF SignInInit, PageOK, AuthPages
<1> QED
  BY <1>1, <1>3, <1>4 DEF SignInIInv, QuietElsewhere

-----------------------------------------------------------------------------
LEMMA LoadTakes ==
  ASSUME LoadOK, NEW l \in Loads, NEW q \in LoadSet, load' = [load EXCEPT ![l] = q]
  PROVE  load' \in [Loads -> LoadSet] /\ load'[l] = q /\ \A k \in Loads : k # l => load'[k] = load[k]
BY DEF LoadOK

LEMMA LoadStage ==
  ASSUME LoadOK, NEW l \in Loads, NEW stage \in {"called", "done", "ready", "failed"},
         load' = [load EXCEPT ![l].at = stage]
  PROVE  load' \in [Loads -> LoadSet] /\ load'[l].at = stage /\ \A k \in Loads : k # l => load'[k] = load[k]
<1> DEFINE q == [load[l] EXCEPT !.at = stage]
<1>1. load[l] \in LoadSet
  BY DEF LoadOK
<1>2. q \in LoadSet /\ q.at = stage
  BY <1>1 DEF LoadSet
<1>3. load' = [load EXCEPT ![l] = q]
  OBVIOUS
<1> HIDE DEF q
<1> QED
  BY <1>2, <1>3, LoadTakes

LEMMA InjectKeeps ==
  ASSUME LoadOK, NEW l \in Loads, NEW h \in Hosts, Inject(l, h), Loading(l), UNCHANGED <<api, parted, current>>
  PROVE  LoadOK'
<1> DEFINE q == [at |-> "script", host |-> h, found |-> FALSE]
<1>1. q \in LoadSet /\ load' = [load EXCEPT ![l] = q]
  BY DEF LoadSet, Inject
<1>2. load' \in [Loads -> LoadSet] /\ load'[l].at = "script" /\ \A k \in Loads : k # l => load'[k] = load[k]
  BY <1>1, LoadTakes
<1> QED
  BY <1>2, NotALoad DEF LoadOK, LoadsShared, Loading

LEMMA NextHostKeeps ==
  ASSUME LoadOK, NEW l \in Loads, NextHost(l), Loading(l), UNCHANGED <<api, parted>>
  PROVE  LoadOK'
<1>1. load[l] \in LoadSet
  BY DEF LoadOK
<1>2. CASE load[l].found
  BY <1>2, InjectKeeps, NotALoad DEF NextHost
<1>3. CASE ~load[l].found /\ load[l].host = 1
  BY <1>3, InjectKeeps, NotALoad DEF NextHost
<1>4. CASE ~load[l].found /\ load[l].host # 1
  <2>1. load[l].host = 2
    BY <1>1, <1>4, NotALoad DEF LoadSet
  <2>2. load' = [load EXCEPT ![l].at = "failed"] /\ current' = NoLoad
    BY <1>4, <2>1 DEF NextHost
  <2>3. load' \in [Loads -> LoadSet] /\ load'[l].at = "failed" /\ \A k \in Loads : k # l => load'[k] = load[k]
    BY <2>2, LoadStage
  <2> QED
    BY <2>2, <2>3 DEF LoadOK, LoadsShared, Loading
<1> QED
  BY <1>2, <1>3, <1>4

LEMMA CaptchaKeeps ==
  ASSUME LoadOK, CaptchaStep
  PROVE  LoadOK' /\ parted' = parted /\ ~NoScript
<1>1. PICK l \in Loads : \/ ApiStarts(l) \/ ScriptFails(l) \/ LeaveCallback(l) \/ CalledBack(l) \/ ApiFound(l) \/ ApiTimesOut(l)
                         \/ \E h \in Hosts : ScriptRuns(l, h)
  BY DEF CaptchaStep
<1>2. CASE ApiStarts(l)
  BY <1>2 DEF ApiStarts, NoScript, LoadOK, LoadsShared, Loading
<1>3. CASE ScriptFails(l) \/ ApiTimesOut(l)
  <2>1. Loading(l) /\ NextHost(l) /\ UNCHANGED <<api, parted>>
    BY <1>3 DEF ScriptFails, ApiTimesOut, Loading
  <2> QED
    BY <2>1, NextHostKeeps DEF NoScript
<1>4. CASE LeaveCallback(l) \/ CalledBack(l) \/ ApiFound(l)
  <2>1. PICK stage \in {"called", "done", "ready"} :
          /\ load' = [load EXCEPT ![l].at = stage] /\ Loading(l) /\ UNCHANGED <<api, tag, current, coming, parted>>
          /\ stage = "done" => api = "ready"
    BY <1>4 DEF LeaveCallback, CalledBack, ApiFound, Loading
  <2>2. load' \in [Loads -> LoadSet] /\ load'[l].at = stage /\ \A k \in Loads : k # l => load'[k] = load[k]
    BY <2>1, LoadStage
  <2> QED
    BY <2>1, <2>2, NotALoad DEF LoadOK, LoadsShared, Loading, NoScript
<1>5. ASSUME NEW h \in Hosts, ScriptRuns(l, h) PROVE LoadOK' /\ parted' = parted /\ ~NoScript
  <2>1. /\ coming # {} /\ UNCHANGED <<tag, current, parted>> /\ (api = "ready" => api' = "ready")
        /\ load' = load \/ (load' = [load EXCEPT ![l].at = "ready"] /\ load[l].at = "script")
    BY <1>5 DEF ScriptRuns
  <2>2. CASE load' = load
    BY <2>1, <2>2 DEF LoadOK, LoadsShared, Loading, NoScript
  <2>3. CASE load' = [load EXCEPT ![l].at = "ready"] /\ load[l].at = "script"
    <3>1. load' \in [Loads -> LoadSet] /\ load'[l].at = "ready" /\ \A k \in Loads : k # l => load'[k] = load[k]
      BY <2>3, LoadStage
    <3> QED
      BY <2>1, <2>3, <3>1, NotALoad DEF LoadOK, LoadsShared, Loading, NoScript
  <2> QED
    BY <2>1, <2>2, <2>3
<1> QED
  BY <1>1, <1>2, <1>3, <1>4, <1>5

LEMMA BeginLoadKeeps ==
  ASSUME LoadOK, NEW l \in Loads, BeginLoad(l), current = NoLoad
  PROVE  LoadOK' /\ current' = l /\ parted' = parted
<1>1. load[l] \in LoadSet /\ load[l].at = "unused" /\ current' = l /\ UNCHANGED <<api, parted>>
  BY DEF LoadOK, BeginLoad
<1>2. ~parted => \A k \in Loads : ~Loading(k)
  BY NotALoad DEF LoadOK, LoadsShared
<1>3. PICK q \in LoadSet : q.at \in {"stale", "script"} /\ load' = [load EXCEPT ![l] = q]
  <2>1. CASE tag = NoLoad
    <3> DEFINE q == [at |-> "script", host |-> 1, found |-> FALSE]
    <3>1. q \in LoadSet /\ q.at = "script" /\ load' = [load EXCEPT ![l] = q]
      BY <2>1, NotALoad DEF BeginLoad, Inject, LoadSet
    <3> QED
      BY <3>1
  <2>2. CASE tag # NoLoad
    <3> DEFINE p == [load[l] EXCEPT !.at = "stale"]
               q == [p EXCEPT !.found = TRUE]
    <3>1. p \in LoadSet /\ p.at = "stale"
      BY <1>1 DEF LoadSet
    <3>2. q \in LoadSet /\ q.at = "stale"
      BY <3>1 DEF LoadSet
    <3>3. load' = [load EXCEPT ![l] = q]
      BY <2>2 DEF BeginLoad, LoadOK, LoadSet
    <3> HIDE DEF q
    <3> QED
      BY <3>2, <3>3
  <2> QED
    BY <2>1, <2>2
<1>4. load' \in [Loads -> LoadSet] /\ load'[l].at \in {"stale", "script"} /\ \A k \in Loads : k # l => load'[k] = load[k]
  BY <1>3, LoadTakes
<1> QED
  BY <1>1, <1>2, <1>4 DEF LoadOK, LoadsShared, Loading

LEMMA UnloadKeeps ==
  ASSUME LoadOK, NEW busy \in BOOLEAN, Unload(busy)
  PROVE  LoadOK' /\ (~parted' => NoScript' /\ ~busy /\ ~parted)
<1>1. /\ api' = "none" /\ tag' = NoLoad /\ current' = NoLoad /\ load' = load /\ coming' = coming
      /\ ~parted' => ~parted /\ ~busy /\ coming = {} /\ \A l \in Loads : ~Loading(l)
  BY DEF Unload
<1> QED
  BY <1>1 DEF LoadOK, LoadsShared, NoScript, Loading

-----------------------------------------------------------------------------
(* An attempt goes on.                                                     *)
LEMMA AttemptTakes ==
  ASSUME AttemptsOK, NEW i \in Attempts, NEW a \in AttemptSet, AttemptOK(a), attempt' = [attempt EXCEPT ![i] = a]
  PROVE  AttemptsOK' /\ attempt'[i] = a /\ \A j \in Attempts : j # i => attempt'[j] = attempt[j]
<1>1. attempt' \in [Attempts -> AttemptSet] /\ attempt'[i] = a /\ \A j \in Attempts : j # i => attempt'[j] = attempt[j]
  BY DEF AttemptsOK
<1> QED
  BY <1>1 DEF AttemptsOK, AttemptOK

LEMMA AtKeeps ==
  ASSUME AttemptsOK, NEW i \in Attempts, NEW stage \in {"sent", "executing", "asked", "exchange", "closed", "ended"},
         At(i, stage), attempt[i].at \notin Ends,
         stage = "exchange" => attempt[i].at = "window"
  PROVE  AttemptsOK'
<1> DEFINE a == [attempt[i] EXCEPT !.at = stage]
<1>1. attempt[i] \in AttemptSet /\ AttemptOK(attempt[i])
  BY DEF AttemptsOK
<1>2. a \in AttemptSet /\ a.at = stage /\ a.who = attempt[i].who /\ a.redeemed = attempt[i].redeemed /\ a.lost = attempt[i].lost
  BY <1>1 DEF AttemptSet
<1>3. attempt' = [attempt EXCEPT ![i] = a]
  BY DEF At
<1> HIDE DEF a
<1>4. AttemptOK(a)
  BY <1>1, <1>2 DEF AttemptOK, Ends
<1> QED
  BY <1>2, <1>3, <1>4, AttemptTakes

(* A page that is shown as before leaves captcha and session alone.        *)
LEMMA SamePage ==
  ASSUME SignInIInv, AttemptsOK', UNCHANGED <<page, session, captchaVars>>, \E i \in Attempts : Underway(i)
  PROVE  SignInIInv'
<1>1. LoadOK'
  BY DEF SignInIInv, LoadOK, LoadsShared, Loading, captchaVars
<1>2. PageOK'
  BY DEF SignInIInv, PageOK
<1>3. QuietElsewhere'
  BY DEF SignInIInv, QuietElsewhere, captchaVars
<1> QED
  BY <1>1, <1>2, <1>3 DEF SignInIInv

LEMMA StagesKeep ==
  ASSUME SignInIInv, NEW i \in Attempts, LoadEnded(i) \/ WindowEnds(i) \/ AttemptFails(i)
  PROVE  SignInIInv'
<1>1. /\ UNCHANGED <<page, session, captchaVars>> /\ attempt[i].at \notin Ends
      /\ \E stage \in {"sent", "executing", "asked", "exchange", "closed", "ended"} :
           At(i, stage) /\ (stage = "exchange" => attempt[i].at = "window")
  BY DEF LoadEnded, WindowEnds, AttemptFails, Ends
<1>2. AttemptsOK'
  BY <1>1, AtKeeps DEF SignInIInv
<1> QED
  BY <1>1, <1>2, SamePage DEF Underway

LEMMA CheckTokenKeeps ==
  ASSUME SignInIInv, NEW i \in Attempts, NEW answer \in TokenAnswers, CheckToken(i, answer)
  PROVE  SignInIInv'
<1>1. PICK stage \in {"asked", "executing", "ended"}, again \in BOOLEAN :
        attempt' = [attempt EXCEPT ![i].at = stage, ![i].retried = again]
  <2>1. attempt[i].retried \in BOOLEAN
    BY DEF SignInIInv, AttemptsOK, AttemptSet
  <2>2. PICK again : again = (attempt[i].retried \/ ~Verified(answer))
    OBVIOUS
  <2>3. again \in BOOLEAN
    BY <2>1, <2>2
  <2>4. attempt' = [attempt EXCEPT
          ![i].at = CASE Verified(answer) -> "asked"
                      [] ~Verified(answer) /\ ~attempt[i].retried -> "executing"
                      [] ~Verified(answer) /\ attempt[i].retried -> "ended",
          ![i].retried = @ \/ ~Verified(answer)]
    BY DEF CheckToken
  <2>5. PICK stage : stage = CASE Verified(answer) -> "asked"
                               [] ~Verified(answer) /\ ~attempt[i].retried -> "executing"
                               [] ~Verified(answer) /\ attempt[i].retried -> "ended"
    OBVIOUS
  <2>6. stage \in {"asked", "executing", "ended"}
    BY <2>1, <2>5
  <2>7. attempt' = [attempt EXCEPT ![i].at = stage, ![i].retried = again]
    BY <2>2, <2>4, <2>5
  <2> QED
    BY <2>3, <2>6, <2>7
<1>2. attempt[i] \in AttemptSet /\ AttemptOK(attempt[i]) /\ attempt[i].at = "sent"
  BY DEF SignInIInv, AttemptsOK, CheckToken
<1> DEFINE b == [attempt[i] EXCEPT !.at = stage]
           a == [b EXCEPT !.retried = again]
<1>3. b \in AttemptSet /\ b.at = stage /\ b.who = attempt[i].who
  BY <1>2 DEF AttemptSet
<1>4. a \in AttemptSet /\ a.at = stage /\ a.who = attempt[i].who
  BY <1>3 DEF AttemptSet
<1>5. attempt' = [attempt EXCEPT ![i] = a]
  BY <1>1 DEF SignInIInv, AttemptsOK, AttemptSet
<1> HIDE DEF a
<1>6. AttemptOK(a)
  BY <1>2, <1>4 DEF AttemptOK, Ends
<1>7. AttemptsOK'
  BY <1>4, <1>5, <1>6, AttemptTakes DEF SignInIInv
<1> QED
  BY <1>2, <1>7, SamePage DEF CheckToken, Underway, Ends

(* A code that was redeemed without an answer is refused from then on.     *)
LEMMA ExchangeKeeps ==
  ASSUME SignInIInv, NEW i \in Attempts, Exchange(i)
  PROVE  SignInIInv'
<1>1. attempt[i] \in AttemptSet /\ AttemptOK(attempt[i]) /\ attempt[i].at = "exchange"
  BY DEF SignInIInv, AttemptsOK, Exchange
<1>2. PICK arrives \in BOOLEAN, answered \in BOOLEAN, retryable \in BOOLEAN :
        attempt' = [attempt EXCEPT
         ![i].tries = @ + 1,
         ![i].redeemed = @ \/ arrives,
         ![i].lost = @ \/ (arrives /\ ~answered),
         ![i].at = CASE arrives /\ answered -> IF attempt[i].redeemed THEN "refused" ELSE "asked"
                     [] ~(arrives /\ answered) /\ retryable /\ attempt[i].tries + 1 < MaxExchanges -> "exchange"
                     [] OTHER -> "ended"]
  BY DEF Exchange
<1>a. PICK stage, red, los, tri :
        /\ stage = CASE arrives /\ answered -> IF attempt[i].redeemed THEN "refused" ELSE "asked"
                     [] ~(arrives /\ answered) /\ retryable /\ attempt[i].tries + 1 < MaxExchanges -> "exchange"
                     [] OTHER -> "ended"
        /\ red = (attempt[i].redeemed \/ arrives) /\ los = (attempt[i].lost \/ (arrives /\ ~answered))
        /\ tri = attempt[i].tries + 1
  OBVIOUS
<1> DEFINE p == attempt[i]
           a == [by |-> p.by, at |-> stage, on |-> p.on, who |-> p.who, here |-> p.here, waits |-> p.waits,
                 retried |-> p.retried, tries |-> tri, redeemed |-> red, lost |-> los]
<1>3. attempt' = [attempt EXCEPT ![i].tries = tri, ![i].redeemed = red, ![i].lost = los, ![i].at = stage]
  BY <1>2, <1>a
<1>4. attempt' = [attempt EXCEPT ![i] = a]
  <2> DEFINE c1 == [p EXCEPT !.tries = tri]
             c2 == [c1 EXCEPT !.redeemed = red]
             c3 == [c2 EXCEPT !.lost = los]
             c4 == [c3 EXCEPT !.at = stage]
             f1 == [attempt EXCEPT ![i] = c1]
             f2 == [attempt EXCEPT ![i] = c2]
             f3 == [attempt EXCEPT ![i] = c3]
  <2>1. DOMAIN attempt = Attempts /\ attempt = [j \in Attempts |-> attempt[j]]
    BY DEF SignInIInv, AttemptsOK
  <2>2. c4 = a
    <3>1. p = [by |-> p.by, at |-> p.at, on |-> p.on, who |-> p.who, here |-> p.here, waits |-> p.waits,
               retried |-> p.retried, tries |-> p.tries, redeemed |-> p.redeemed, lost |-> p.lost]
      BY <1>1 DEF AttemptSet
    <3> HIDE DEF p
    <3>2. c1 = [by |-> p.by, at |-> p.at, on |-> p.on, who |-> p.who, here |-> p.here, waits |-> p.waits,
                retried |-> p.retried, tries |-> tri, redeemed |-> p.redeemed, lost |-> p.lost]
      BY <3>1
    <3> HIDE DEF c1
    <3>3. c2 = [by |-> p.by, at |-> p.at, on |-> p.on, who |-> p.who, here |-> p.here, waits |-> p.waits,
                retried |-> p.retried, tries |-> tri, redeemed |-> red, lost |-> p.lost]
      BY <3>2
    <3> HIDE DEF c2
    <3>4. c3 = [by |-> p.by, at |-> p.at, on |-> p.on, who |-> p.who, here |-> p.here, waits |-> p.waits,
                retried |-> p.retried, tries |-> tri, redeemed |-> red, lost |-> los]
      BY <3>3
    <3> HIDE DEF c3
    <3> QED
      BY <3>4
  <2>3. [attempt EXCEPT ![i].tries = tri] = f1
    OBVIOUS
  <2> HIDE DEF c1
  <2>4. [f1 EXCEPT ![i].redeemed = red] = f2
    BY <2>1
  <2> HIDE DEF c2
  <2>5. [f2 EXCEPT ![i].lost = los] = f3
    BY <2>1
  <2> HIDE DEF c3
  <2>6. [f3 EXCEPT ![i].at = stage] = [attempt EXCEPT ![i] = c4]
    BY <2>1
  <2> HIDE DEF c4, f1, f2, f3, a
  <2>7. attempt' = [attempt EXCEPT ![i] = c4]
    BY <1>3, <2>3, <2>4, <2>5, <2>6
  <2> QED
    BY <2>2, <2>7
<1>5. /\ red \in BOOLEAN /\ los \in BOOLEAN /\ tri \in Nat
      /\ stage \in {"refused", "asked", "exchange", "ended"}
  BY <1>1, <1>a DEF AttemptSet
<1>6. /\ stage = "refused" => p.redeemed /\ p.lost
      /\ stage = "exchange" /\ red => los
      /\ p.lost => los
  BY <1>1, <1>a DEF AttemptOK, AttemptSet
<1>7. a \in AttemptSet /\ a.at = stage /\ a.who = p.who /\ a.redeemed = red /\ a.lost = los
  BY <1>1, <1>5 DEF AttemptSet
<1>8. AttemptOK(a)
  BY <1>1, <1>5, <1>6, <1>7 DEF AttemptOK, Ends
<1> HIDE DEF a
<1>9. AttemptsOK'
  BY <1>4, <1>7, <1>8, AttemptTakes DEF SignInIInv
<1> QED
  BY <1>1, <1>9, SamePage DEF Exchange, Underway, Ends

LEMMA LeftKeeps ==
  ASSUME NEW attempts \in [Attempts -> AttemptSet], \A i \in Attempts : AttemptOK(attempts[i])
  PROVE  /\ Left(attempts) \in [Attempts -> AttemptSet]
         /\ \A i \in Attempts : AttemptOK(Left(attempts)[i])
         /\ \A i \in Attempts : attempts[i].at \in Ends => Left(attempts)[i].at \in Ends
<1>1. ASSUME NEW i \in Attempts
      PROVE  /\ Left(attempts)[i] \in AttemptSet /\ AttemptOK(Left(attempts)[i])
             /\ attempts[i].at \in Ends => Left(attempts)[i].at \in Ends
  <2> DEFINE a == attempts[i]
             b == [a EXCEPT !.here = FALSE]
             stage == IF b.at = "closed" THEN "ended" ELSE b.at
             c == [b EXCEPT !.at = stage]
  <2>1. a \in AttemptSet /\ AttemptOK(a)
    OBVIOUS
  <2>2. b \in AttemptSet /\ b.at = a.at /\ b.who = a.who /\ b.redeemed = a.redeemed /\ b.lost = a.lost
    BY <2>1 DEF AttemptSet
  <2>3. Left(attempts)[i] = c
    BY DEF Left
  <2> HIDE DEF b
  <2>4. /\ c \in AttemptSet /\ c.at = stage
        /\ c.who = a.who /\ c.redeemed = a.redeemed /\ c.lost = a.lost
    BY <2>2 DEF AttemptSet
  <2>5. stage \in {a.at, "ended"} /\ (a.at \in Ends => stage = a.at)
    BY <2>2 DEF Ends
  <2> HIDE DEF c, stage, a
  <2>6. AttemptOK(c) /\ (a.at \in Ends => c.at \in Ends)
    BY <2>1, <2>4, <2>5 DEF AttemptOK, Ends
  <2> QED
    BY <2>3, <2>4, <2>6 DEF a
<1>2. Left(attempts) = [i \in Attempts |-> Left(attempts)[i]]
  BY DEF Left
<1> QED
  BY <1>1, <1>2

LEMMA GoToKeeps ==
  ASSUME SignInIInv, NEW p \in AuthPages \cup {"home"} \cup Dashboards, NEW attempts \in [Attempts -> AttemptSet],
         \A i \in Attempts : AttemptOK(attempts[i]) /\ (attempts[i].at \notin Ends => Underway(i)),
         GoTo(p, attempts), session' \in Visitors \cup {Anyone},
         p \in Dashboards => session' # Anyone /\ p = DashboardOf[session'],
         p \in AuthPages => session' = Anyone
  PROVE  SignInIInv'
<1>1. page' = p
  BY DEF GoTo
<1>2. PageOK'
  BY <1>1 DEF PageOK
<1>3. AttemptsOK'
  <2>1. CASE p = page
    BY <2>1 DEF GoTo, AttemptsOK
  <2>2. CASE p # page
    BY <2>2, LeftKeeps DEF GoTo, AttemptsOK
  <2> QED
    BY <2>1, <2>2
<1>4. CASE UNCHANGED captchaVars /\ p = page
  <2>1. LoadOK'
    BY <1>4 DEF SignInIInv, LoadOK, LoadsShared, Loading, captchaVars
  <2>2. attempt' = attempts
    BY <1>4 DEF GoTo
  <2>3. QuietElsewhere'
    BY <1>1, <1>4, <2>2 DEF SignInIInv, QuietElsewhere, NoScript, Loading, Underway, captchaVars
  <2> QED
    BY <1>2, <1>3, <2>1, <2>3 DEF SignInIInv
<1>5. CASE UNCHANGED captchaVars /\ p \in AuthPages
  <2>1. LoadOK'
    BY <1>5 DEF SignInIInv, LoadOK, LoadsShared, Loading, captchaVars
  <2>2. QuietElsewhere'
    BY <1>1, <1>5 DEF QuietElsewhere
  <2> QED
    BY <1>2, <1>3, <2>1, <2>2 DEF SignInIInv
<1>6. CASE p # page /\ Unload(\E i \in Attempts : attempts[i].at \notin Ends)
  <2>1. PICK busy : busy = (\E i \in Attempts : attempts[i].at \notin Ends)
    OBVIOUS
  <2>2. busy \in BOOLEAN /\ Unload(busy)
    BY <1>6, <2>1
  <2>3. LoadOK' /\ (~parted' => NoScript' /\ ~busy)
    BY <2>2, UnloadKeeps DEF SignInIInv
  <2>4. attempt' = Left(attempts)
    BY <1>6 DEF GoTo
  <2>5. ~parted' => \A i \in Attempts : attempt'[i].at \in Ends
    BY <2>1, <2>3, <2>4, LeftKeeps
  <2>6. QuietElsewhere'
    BY <2>3, <2>5 DEF QuietElsewhere, Underway
  <2> QED
    BY <1>2, <1>3, <2>3, <2>6 DEF SignInIInv
<1> QED
  BY <1>4, <1>5, <1>6 DEF GoTo

LEMMA VisitKeeps ==
  ASSUME SignInIInv, NEW p \in AuthPages \cup {"home"}, Visit(p)
  PROVE  SignInIInv'
<1>1. PICK q : q = IF p \in AuthPages /\ session # Anyone THEN DashboardOf[session] ELSE p
  OBVIOUS
<1>2. GoTo(q, attempt) /\ session' = session
  BY <1>1 DEF Visit
<1>3. /\ session \in Visitors \cup {Anyone} /\ attempt \in [Attempts -> AttemptSet]
      /\ \A i \in Attempts : AttemptOK(attempt[i]) /\ (attempt[i].at \notin Ends => Underway(i))
  BY DEF SignInIInv, PageOK, AttemptsOK, Underway
<1>4. /\ q \in AuthPages \cup {"home"} \cup Dashboards
      /\ q \in AuthPages => session = Anyone
      /\ q \in Dashboards => session # Anyone /\ q = DashboardOf[session]
  <2>1. session # Anyone => DashboardOf[session] \in Dashboards
    BY <1>3 DEF Dashboards
  <2> QED
    BY <1>1, <2>1, VisitorsAssumption
<1>5. PICK kept : kept = attempt
  OBVIOUS
<1> QED
  BY <1>2, <1>3, <1>4, <1>5, GoToKeeps

LEMMA PressKeeps ==
  ASSUME SignInIInv, NEW i \in Attempts, NEW by \in {"form", "google", "passkey"}, NEW v \in Visitors, Press(i, by, v)
  PROVE  SignInIInv'
<1>1. page \in AuthPages /\ UNCHANGED <<page, session, captchaVars>>
  BY DEF Press
<1>2. PICK stage : stage = CASE by = "form" -> "executing" [] by = "google" -> "window" [] by = "passkey" -> "asked"
  OBVIOUS
<1>3. stage \in {"executing", "window", "asked"}
  BY <1>2
<1>a. PICK shown : shown = page
  OBVIOUS
<1> DEFINE b1 == [Unused EXCEPT !.by = by]
           b2 == [b1 EXCEPT !.on = shown]
           b3 == [b2 EXCEPT !.who = v]
           b4 == [b3 EXCEPT !.here = TRUE]
           a == [b4 EXCEPT !.at = stage]
<1>4. attempt' = [attempt EXCEPT ![i] = a]
  BY <1>2, <1>a DEF Press
<1>5. a \in AttemptSet /\ a.at = stage /\ a.who = v /\ ~a.redeemed
  <2>1. Unused \in AttemptSet /\ ~Unused.redeemed
    BY DEF Unused, AttemptSet
  <2>2. b1 \in AttemptSet /\ ~b1.redeemed
    BY <2>1 DEF AttemptSet
  <2> HIDE DEF b1
  <2>3. b2 \in AttemptSet /\ ~b2.redeemed
    BY <1>1, <1>a, <2>2 DEF AttemptSet, AuthPages
  <2> HIDE DEF b2
  <2>4. b3 \in AttemptSet /\ ~b3.redeemed /\ b3.who = v
    BY <2>3 DEF AttemptSet
  <2> HIDE DEF b3
  <2>5. b4 \in AttemptSet /\ ~b4.redeemed /\ b4.who = v
    BY <2>4 DEF AttemptSet
  <2> HIDE DEF b4
  <2> QED
    BY <1>3, <2>5 DEF AttemptSet
<1> HIDE DEF a
<1>6. AttemptOK(a)
  BY <1>3, <1>5 DEF AttemptOK
<1>7. AttemptsOK'
  BY <1>4, <1>5, <1>6, AttemptTakes DEF SignInIInv
<1>8. LoadOK' /\ PageOK'
  BY <1>1 DEF SignInIInv, LoadOK, LoadsShared, Loading, PageOK, captchaVars
<1>9. QuietElsewhere'
  BY <1>1 DEF QuietElsewhere
<1> QED
  BY <1>7, <1>8, <1>9 DEF SignInIInv

LEMMA AskTokenKeeps ==
  ASSUME SignInIInv, NEW i \in Attempts, AskToken(i)
  PROVE  SignInIInv'
<1>1. attempt[i].at = "executing" /\ UNCHANGED <<page, session>> /\ LoadOK
  BY DEF AskToken, SignInIInv
<1>2. Underway(i)
  BY <1>1 DEF Underway, Ends
<1>3. CASE At(i, "sent") /\ UNCHANGED captchaVars
  <2>1. AttemptsOK'
    BY <1>1, <1>3, AtKeeps DEF SignInIInv, Ends
  <2> QED
    BY <1>1, <1>2, <1>3, <2>1, SamePage
<1>4. CASE attempt' = [attempt EXCEPT ![i].at = "waiting", ![i].waits = current']
  <2>1. /\ LoadOK' /\ parted' = parted
    <3>1. CASE UNCHANGED captchaVars
      BY <1>1, <3>1 DEF LoadOK, LoadsShared, Loading, captchaVars
    <3>2. CASE ~UNCHANGED captchaVars
      <4>1. PICK l \in Loads : BeginLoad(l) /\ current = NoLoad
        BY <3>2 DEF AskToken
      <4> QED
        BY <1>1, <4>1, BeginLoadKeeps
    <3> QED
      BY <3>1, <3>2
  <2>2. PICK w \in Loads \cup {NoLoad} : w = current'
    BY <2>1 DEF LoadOK
  <2>3. attempt[i] \in AttemptSet /\ AttemptOK(attempt[i])
    BY DEF SignInIInv, AttemptsOK
  <2> DEFINE b == [attempt[i] EXCEPT !.at = "waiting"]
             a == [b EXCEPT !.waits = w]
  <2>4. b \in AttemptSet /\ b.at = "waiting" /\ b.who = attempt[i].who
    BY <2>3 DEF AttemptSet
  <2>5. a \in AttemptSet /\ a.at = "waiting" /\ a.who = attempt[i].who
    BY <2>2, <2>4 DEF AttemptSet
  <2>6. attempt' = [attempt EXCEPT ![i] = a]
    BY <1>4, <2>2 DEF SignInIInv, AttemptsOK, AttemptSet
  <2> HIDE DEF a
  <2>7. AttemptOK(a)
    BY <1>1, <2>3, <2>5 DEF AttemptOK, Ends
  <2>8. AttemptsOK'
    BY <2>5, <2>6, <2>7, AttemptTakes DEF SignInIInv
  <2>9. PageOK'
    BY <1>1 DEF SignInIInv, PageOK
  <2>10. QuietElsewhere'
    BY <1>1, <1>2, <2>1 DEF SignInIInv, QuietElsewhere
  <2> QED
    BY <2>1, <2>8, <2>9, <2>10 DEF SignInIInv
<1> QED
  BY <1>3, <1>4 DEF AskToken

LEMMA SignedInKeeps ==
  ASSUME SignInIInv, NEW i \in Attempts, SignedIn(i)
  PROVE  SignInIInv'
<1>1. attempt[i].at = "asked" /\ session' = attempt[i].who
  BY DEF SignedIn
<1>2. attempt[i] \in AttemptSet /\ AttemptOK(attempt[i]) /\ attempt[i].who \in Visitors
  BY <1>1 DEF SignInIInv, AttemptsOK, AttemptOK, Ends
<1>3. CASE attempt[i].by = "form" /\ attempt[i].on = "signup"
  <2>1. /\ page' = "home" /\ api' = "none" /\ tag' = NoLoad /\ current' = NoLoad /\ coming' = {} /\ parted' = parted
        /\ attempt' = [j \in Attempts |-> IF attempt[j].at = "unused" THEN attempt[j]
                                           ELSE [attempt[j] EXCEPT !.at = "ended", !.here = FALSE]]
        /\ load' = [l \in Loads |-> IF Loading(l) THEN [load[l] EXCEPT !.at = "failed"] ELSE load[l]]
    BY <1>3 DEF SignedIn
  <2>2. PageOK'
    BY <1>1, <1>2, <2>1, VisitorsAssumption DEF PageOK, AuthPages
  <2>3. ASSUME NEW l \in Loads PROVE load'[l] \in LoadSet /\ ~Loading(l)'
    <3>1. load[l] \in LoadSet
      BY DEF SignInIInv, LoadOK
    <3>2. CASE Loading(l)
      BY <2>1, <3>1, <3>2 DEF Loading, LoadSet
    <3>3. CASE ~Loading(l)
      BY <2>1, <3>1, <3>3 DEF Loading
    <3> QED
      BY <3>2, <3>3
  <2>4. LoadOK' /\ NoScript'
    <3>1. load' = [l \in Loads |-> load'[l]]
      BY <2>1
    <3> QED
      BY <2>1, <2>3, <3>1 DEF LoadOK, LoadsShared, NoScript
  <2>5. ASSUME NEW j \in Attempts PROVE attempt'[j] \in AttemptSet /\ AttemptOK(attempt'[j]) /\ attempt'[j].at \in Ends
    <3> DEFINE b == [attempt[j] EXCEPT !.at = "ended"]
               a == [b EXCEPT !.here = FALSE]
    <3>1. attempt[j] \in AttemptSet /\ AttemptOK(attempt[j])
      BY DEF SignInIInv, AttemptsOK
    <3>2. CASE attempt[j].at = "unused"
      BY <2>1, <3>1, <3>2 DEF Ends
    <3>3. CASE attempt[j].at # "unused"
      <4>1. attempt'[j] = a
        BY <2>1, <3>3
      <4>2. b \in AttemptSet /\ b.at = "ended"
        BY <3>1 DEF AttemptSet
      <4> HIDE DEF b
      <4>3. a \in AttemptSet /\ a.at = "ended"
        BY <4>2 DEF AttemptSet
      <4> HIDE DEF a
      <4> QED
        BY <4>1, <4>3 DEF AttemptOK, Ends
    <3> QED
      BY <3>2, <3>3
  <2>6. AttemptsOK' /\ \A j \in Attempts : ~Underway(j)'
    <3>1. attempt' = [j \in Attempts |-> attempt'[j]]
      BY <2>1
    <3> QED
      BY <2>5, <3>1 DEF AttemptsOK, Underway
  <2>7. QuietElsewhere'
    BY <2>4, <2>6 DEF QuietElsewhere
  <2> QED
    BY <2>2, <2>4, <2>6, <2>7 DEF SignInIInv
<1>4. CASE ~(attempt[i].by = "form" /\ attempt[i].on = "signup")
  <2>1. PICK p, attempts : p = DashboardOf[attempt[i].who] /\ attempts = [attempt EXCEPT ![i].at = "ended"]
    OBVIOUS
  <2>2. GoTo(p, attempts)
    BY <1>4, <2>1 DEF SignedIn
  <2>3. p \in Dashboards /\ p \notin AuthPages /\ session' \in Visitors /\ session' # Anyone /\ p = DashboardOf[session']
    BY <1>1, <1>2, <2>1, VisitorsAssumption DEF Dashboards
  <2> DEFINE a == [attempt[i] EXCEPT !.at = "ended"]
  <2>4. a \in AttemptSet /\ a.at = "ended" /\ attempts = [attempt EXCEPT ![i] = a]
    BY <1>2, <2>1 DEF AttemptSet
  <2> HIDE DEF a
  <2>5. AttemptOK(a)
    BY <2>4 DEF AttemptOK, Ends
  <2>6. /\ attempts \in [Attempts -> AttemptSet]
        /\ \A j \in Attempts : AttemptOK(attempts[j]) /\ (attempts[j].at \notin Ends => Underway(j))
    BY <2>4, <2>5 DEF SignInIInv, AttemptsOK, Underway, Ends
  <2> QED
    BY <2>2, <2>3, <2>6, GoToKeeps
<1> QED
  BY <1>3, <1>4

LEMMA SignInStep == SignInIInv /\ [SignInNext]_signInVars => SignInIInv'
<1> SUFFICES ASSUME SignInIInv, [SignInNext]_signInVars PROVE SignInIInv'
  OBVIOUS
<1>1. CASE UNCHANGED signInVars
  BY <1>1 DEF SignInIInv, LoadOK, LoadsShared, Loading, AttemptsOK, PageOK, QuietElsewhere, NoScript, Underway,
              signInVars, captchaVars
<1>2. CASE CaptchaStep /\ UNCHANGED <<page, session, attempt>>
  <2>1. LoadOK' /\ parted' = parted /\ ~NoScript
    BY <1>2, CaptchaKeeps DEF SignInIInv
  <2>2. AttemptsOK' /\ PageOK'
    BY <1>2 DEF SignInIInv, AttemptsOK, PageOK
  <2>3. QuietElsewhere'
    BY <1>2, <2>1 DEF SignInIInv, QuietElsewhere
  <2> QED
    BY <2>1, <2>2, <2>3 DEF SignInIInv
<1>3. ASSUME NEW p \in AuthPages \cup {"home"}, Visit(p) PROVE SignInIInv'
  BY <1>3, VisitKeeps
<1>4. ASSUME NEW i \in Attempts, NEW by \in {"form", "google", "passkey"}, NEW v \in Visitors, Press(i, by, v)
      PROVE  SignInIInv'
  BY <1>4, PressKeeps
<1>5. ASSUME NEW i \in Attempts,
             AskToken(i) \/ LoadEnded(i) \/ WindowEnds(i) \/ Exchange(i) \/ AttemptFails(i) \/ SignedIn(i)
      PROVE  SignInIInv'
  BY <1>5, AskTokenKeeps, StagesKeep, ExchangeKeeps, SignedInKeeps
<1>6. ASSUME NEW i \in Attempts, NEW answer \in TokenAnswers, CheckToken(i, answer) PROVE SignInIInv'
  BY <1>6, CheckTokenKeeps
<1> QED
  BY <1>1, <1>2, <1>3, <1>4, <1>5, <1>6 DEF SignInNext

(* A dashboard is that of the account signed in; the pages of signing in   *)
(* are shown to nobody who is; elsewhere there is no reCAPTCHA unless they *)
(* were left with something under way; loads of the script are shared; and *)
(* a code is refused only after an answer that was lost.                   *)
THEOREM SignInHolds == SignInSpec => []SignInInv
BY SignInStart, SignInStep, SignInImplied, PTL DEF SignInSpec
=============================================================================
