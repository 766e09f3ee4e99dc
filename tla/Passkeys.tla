-------------------------------- MODULE Passkeys --------------------------------
(***************************************************************************)
(* Passkey ceremonies: PasskeyService keeps one challenge per account and  *)
(* kind in memory, for five minutes and one answer.  Options and answers   *)
(* of several tabs of one owner overlap, an answer may be sent twice, the  *)
(* server may be restarted.                                                *)
(***************************************************************************)
EXTENDS Sequences, Naturals

CONSTANTS Owners,        \* accounts
          Credentials,   \* passkeys of their devices
          Verifications, \* requests to verify an answer
          NoCredential,
          MaxChallenges  \* bound: challenges made in all

ASSUME PasskeysAssumption == MaxChallenges \in Nat /\ NoCredential \notin Credentials

Keys == {"reg", "auth"} \X Owners
Challenges == 1..MaxChallenges

VARIABLES made,      \* made[i]: the key that challenge i was made for
          kept,      \* kept[key]: the challenge in memory, 0: none
          expired,   \* expired[key]: that challenge is older than five minutes
          passkeys,  \* passkeys[o]: rows of PasskeyCredential
          verifying  \* verifying[v]: a request to verify

(* Observed only. *)
VARIABLES lapsed,    \* challenges older than five minutes or than the server
          answered,  \* challenges an answer to which has arrived
          stray,     \* those answered when their key had a newer one
          wasted,    \* those used up by a request that bore no answer
          accepted,  \* those an accepted answer bore, in order
          turnedAway \* those whose first answer found no challenge or another

passkeyHistory == <<lapsed, answered, stray, wasted, accepted, turnedAway>>
passkeyVars == <<made, kept, expired, passkeys, verifying, passkeyHistory>>

Done == [pc |-> "idle", id |-> 0, matches |-> FALSE, cred |-> NoCredential]

PasskeyInit ==
  /\ made = <<>>
  /\ kept = [key \in Keys |-> 0]
  /\ expired = [key \in Keys |-> FALSE]
  /\ passkeys \in [Owners -> {{}} \cup {{k} : k \in Credentials}]
  /\ \A o, p \in Owners : o # p => passkeys[o] \cap passkeys[p] = {}
  /\ verifying = [v \in Verifications |-> Done]
  /\ lapsed = {} /\ answered = {} /\ stray = {} /\ wasted = {}
  /\ accepted = <<>> /\ turnedAway = {}

Owner(v) == made[verifying[v].id][2]
Kind(v) == made[verifying[v].id][1]

(* generateRegistrationOptions, generateAuthenticationOptions: the new     *)
(* challenge takes the place of an earlier one of the same key.            *)
Options(key) ==
  /\ Len(made) < MaxChallenges
  /\ key[1] = "auth" => passkeys[key[2]] # {}
  /\ made' = Append(made, key)
  /\ kept' = [kept EXCEPT ![key] = Len(made')]
  /\ expired' = [expired EXCEPT ![key] = FALSE]
  /\ UNCHANGED <<passkeys, verifying, passkeyHistory>>

Dropped(key) == kept' = [kept EXCEPT ![key] = 0] /\ expired' = [expired EXCEPT ![key] = FALSE]

(* consumeChallenge: found and in time, it is deleted and returned.        *)
Consumable(key) == kept[key] # 0 /\ ~expired[key]

Newest(key) == CHOOSE i \in DOMAIN made : made[i] = key /\ \A j \in DOMAIN made : made[j] = key => j <= i

(* The answer to challenge i by passkey k arrives.                         *)
AnswerArrives(v, i, k) ==
  LET key == made[i] IN
  /\ verifying[v].pc = "idle"
  /\ Dropped(key)
  /\ verifying' = IF Consumable(key)
       THEN [verifying EXCEPT ![v] = [pc |-> "checking", id |-> i, matches |-> kept[key] = i, cred |-> k]]
       ELSE verifying
  /\ answered' = answered \cup {i}
  /\ stray' = IF Newest(key) # i THEN stray \cup {i} ELSE stray
  /\ turnedAway' = IF i \notin answered /\ ~(Consumable(key) /\ kept[key] = i)
                   THEN turnedAway \cup {i} ELSE turnedAway
  /\ UNCHANGED <<made, passkeys, lapsed, wasted, accepted>>

(* A request to verify that bears no answer to a challenge of the key: the *)
(* sign-in asks only for an address, from anyone, and the challenge is     *)
(* consumed before the body is looked at.  Then it is refused.             *)
Misanswered(key) ==
  /\ kept[key] # 0
  /\ Dropped(key)
  /\ wasted' = wasted \cup {kept[key]}
  /\ UNCHANGED <<made, passkeys, verifying, lapsed, answered, stray, accepted, turnedAway>>

(* The user is read and the answer verified against challenge and passkey. *)
Check(v) ==
  LET j == verifying[v] IN
  /\ j.pc = "checking"
  /\ verifying' = [verifying EXCEPT ![v] =
       IF j.matches /\ (Kind(v) = "auth" => j.cred \in passkeys[Owner(v)])
       THEN [j EXCEPT !.pc = "writing"] ELSE Done]
  /\ UNCHANGED <<made, kept, expired, passkeys, passkeyHistory>>

Registered == UNION {passkeys[o] : o \in Owners}

(* A new row, whose credential is unique; or the counter of the row that   *)
(* was found, which may have been deleted meanwhile, and then the tokens.  *)
Write(v) ==
  LET j == verifying[v] IN
  /\ j.pc = "writing"
  /\ IF Kind(v) = "reg"
     THEN IF j.cred \in Registered THEN UNCHANGED <<passkeys, accepted>>
          ELSE /\ passkeys' = [passkeys EXCEPT ![Owner(v)] = @ \cup {j.cred}]
               /\ accepted' = Append(accepted, j.id)
     ELSE /\ accepted' = IF j.cred \in passkeys[Owner(v)] THEN Append(accepted, j.id) ELSE accepted
          /\ UNCHANGED passkeys
  /\ verifying' = [verifying EXCEPT ![v] = Done]
  /\ UNCHANGED <<made, kept, expired, lapsed, answered, stray, wasted, turnedAway>>

DeletePasskey(o, k) ==
  /\ k \in passkeys[o]
  /\ passkeys' = [passkeys EXCEPT ![o] = @ \ {k}]
  /\ UNCHANGED <<made, kept, expired, verifying, passkeyHistory>>

(* Five minutes pass.                                                      *)
Age(key) ==
  /\ kept[key] # 0 /\ ~expired[key]
  /\ expired' = [expired EXCEPT ![key] = TRUE]
  /\ lapsed' = lapsed \cup {kept[key]}
  /\ UNCHANGED <<made, kept, passkeys, verifying, answered, stray, wasted, accepted, turnedAway>>

(* Mutant: every challenge is dropped.                                     *)
CleanupAll ==
  /\ \E key \in Keys : kept[key] # 0
  /\ kept' = [key \in Keys |-> 0] /\ expired' = [key \in Keys |-> FALSE]
  /\ UNCHANGED <<made, passkeys, verifying, passkeyHistory>>

(* cleanupChallenges, every five minutes.                                  *)
CleanupChallenges ==
  /\ \E key \in Keys : expired[key]
  /\ kept' = [key \in Keys |-> IF expired[key] THEN 0 ELSE kept[key]]
  /\ expired' = [key \in Keys |-> FALSE]
  /\ UNCHANGED <<made, passkeys, verifying, passkeyHistory>>

(* The server is restarted: memory and requests are gone.                  *)
RestartServer ==
  /\ kept' = [key \in Keys |-> 0] /\ expired' = [key \in Keys |-> FALSE]
  /\ verifying' = [v \in Verifications |-> Done]
  /\ lapsed' = DOMAIN made
  /\ UNCHANGED <<made, passkeys, answered, stray, wasted, accepted, turnedAway>>

PasskeyNext ==
  \/ \E key \in Keys : Options(key) \/ Age(key) \/ Misanswered(key)
  \/ \E v \in Verifications, i \in DOMAIN made, k \in Credentials : AnswerArrives(v, i, k)
  \/ \E v \in Verifications : Check(v) \/ Write(v)
  \/ \E o \in Owners, k \in Credentials : DeletePasskey(o, k)
  \/ CleanupChallenges \/ RestartServer

PasskeySpec == PasskeyInit /\ [][PasskeyNext]_passkeyVars

-----------------------------------------------------------------------------
PasskeyTypeOK ==
  /\ made \in Seq(Keys) /\ Len(made) <= MaxChallenges
  /\ kept \in [Keys -> 0..Len(made)]
  /\ expired \in [Keys -> BOOLEAN]
  /\ passkeys \in [Owners -> SUBSET Credentials]
  /\ verifying \in [Verifications -> [pc : {"idle", "checking", "writing"}, id : 0..Len(made),
                                      matches : BOOLEAN, cred : Credentials \cup {NoCredential}]]
  /\ lapsed \cup answered \cup stray \cup wasted \cup turnedAway \subseteq DOMAIN made
  /\ accepted \in Seq(DOMAIN made)

(* However often an answer is sent and however the requests overlap, at    *)
(* most one is accepted per challenge (consumeChallenge, single-use).      *)
AcceptedOnce == \A x, y \in DOMAIN accepted : accepted[x] = accepted[y] => x = y

(* The first answer to a challenge finds it, unless five minutes passed,   *)
(* the server was restarted, a newer ceremony of the kind was begun for    *)
(* the same account, an older one of it was answered late, or a request    *)
(* that bore no answer used it up.  Other accounts, the other kind and the *)
(* cleanup do not matter.                                                  *)
TurnedAwayForCause ==
  \A i \in turnedAway :
    \/ i \in lapsed \cup wasted
    \/ \E j \in DOMAIN made \ {i} : made[j] = made[i] /\ (j > i \/ j \in stray)
(* A challenge is answered once, and by its own answer.                    *)
PasskeyInv == PasskeyTypeOK /\ AcceptedOnce /\ TurnedAwayForCause
=============================================================================
