---------------------------- MODULE Identity_proofs ----------------------------
(***************************************************************************)
(* Proofs about Passkeys and ClientSession, for any accounts, passkeys,    *)
(* tabs and calls, and any number of challenges and tokens.                *)
(***************************************************************************)
EXTENDS ClientSession, Passkeys, TLAPS

(* Passkeys: what the ceremonies keep to. *)

Busied(v) == verifying[v].pc # "idle"

Requests ==
  [pc : {"idle", "checking", "writing"}, id : 0..Len(made),
   matches : BOOLEAN, cred : Credentials \cup {NoCredential}]

(* The challenge in memory is the newest that its key was made for, and    *)
(* one marked as old has lapsed.                                           *)
KeptIsNewest ==
  \A key \in Keys :
    /\ kept[key] # 0 => /\ made[kept[key]] = key
                        /\ \A j \in DOMAIN made : made[j] = key => j <= kept[key]
    /\ expired[key] => kept[key] # 0 /\ kept[key] \in lapsed

(* A challenge is in one place: in memory, at one request that answered    *)
(* it, or among the accepted ones.                                         *)
InOnePlace ==
  /\ \A v \in Verifications :
       /\ Busied(v) => verifying[v].id \in DOMAIN made /\ verifying[v].cred \in Credentials
       /\ verifying[v].pc = "writing" => verifying[v].matches
  /\ \A v \in Verifications : Busied(v) /\ verifying[v].matches =>
       /\ \A key \in Keys : kept[key] # verifying[v].id
       /\ \A x \in DOMAIN accepted : accepted[x] # verifying[v].id
       /\ \A w \in Verifications \ {v} :
            Busied(w) /\ verifying[w].matches => verifying[w].id # verifying[v].id
  /\ \A x \in DOMAIN accepted, key \in Keys : kept[key] # accepted[x]

Superseded(i) ==
  \E j \in DOMAIN made \ {i} : made[j] = made[i] /\ (j > i \/ j \in stray)

(* A challenge that nobody answered is in memory unless there is a cause.  *)
GoneForCause ==
  \A i \in DOMAIN made :
    kept[made[i]] = i \/ i \in lapsed \/ i \in wasted \/ i \in answered \/ Superseded(i)

PasskeyIInv == PasskeyInv /\ KeptIsNewest /\ InOnePlace /\ GoneForCause

LEMMA PasskeyStart == PasskeyInit => PasskeyIInv
<1> SUFFICES ASSUME PasskeyInit PROVE PasskeyIInv
  OBVIOUS
<1> USE DEF PasskeyInit
<1>1. PasskeyTypeOK
  <2>1. Len(made) = 0 /\ made \in Seq(Keys) /\ accepted \in Seq(DOMAIN made)
    OBVIOUS
  <2>2. passkeys \in [Owners -> SUBSET Credentials]
    OBVIOUS
  <2>3. 0 <= MaxChallenges
    BY PasskeysAssumption
  <2> QED
    BY <2>1, <2>2, <2>3 DEF PasskeyTypeOK, Done
<1>2. AcceptedOnce /\ TurnedAwayForCause
  BY DEF AcceptedOnce, TurnedAwayForCause
<1>3. KeptIsNewest /\ InOnePlace /\ GoneForCause
  BY DEF KeptIsNewest, InOnePlace, GoneForCause, Busied, Done
<1> QED
  BY <1>1, <1>2, <1>3 DEF PasskeyIInv, PasskeyInv

(* A sequence over a set is one over every larger set.                     *)
LEMMA LargerRange ==
  ASSUME NEW S, NEW T, S \subseteq T, NEW s \in Seq(S)
  PROVE  s \in Seq(T)
<1>1. \A x \in 1..Len(s) : s[x] \in T
  OBVIOUS
<1> QED
  BY <1>1

(* A request that takes a new value of the right type.                     *)
LEMMA RequestTakes ==
  ASSUME PasskeyTypeOK, NEW v \in Verifications, NEW q \in Requests,
         verifying' = [verifying EXCEPT ![v] = q]
  PROVE  /\ verifying' \in [Verifications -> Requests] /\ verifying'[v] = q
         /\ \A w \in Verifications \ {v} : verifying'[w] = verifying[w]
BY DEF PasskeyTypeOK, Requests

LEMMA DoneIsRequest == PasskeyTypeOK => Done \in Requests
BY DEF PasskeyTypeOK, Requests, Done

(* Newest is what its name says.                                           *)
LEMMA NewestIsKept ==
  ASSUME PasskeyTypeOK, KeptIsNewest, NEW key \in Keys, kept[key] # 0
  PROVE  Newest(key) = kept[key]
<1>1. /\ kept[key] \in DOMAIN made /\ made[kept[key]] = key
      /\ \A j \in DOMAIN made : made[j] = key => j <= kept[key]
  BY DEF KeptIsNewest, PasskeyTypeOK
<1>2. DOMAIN made \subseteq Nat
  BY DEF PasskeyTypeOK
<1>3. /\ Newest(key) \in DOMAIN made /\ made[Newest(key)] = key
      /\ \A j \in DOMAIN made : made[j] = key => j <= Newest(key)
  BY <1>1 DEF Newest
<1>4. kept[key] <= Newest(key) /\ Newest(key) <= kept[key]
  BY <1>1, <1>3
<1>5. kept[key] \in Nat /\ Newest(key) \in Nat
  BY <1>1, <1>2, <1>3
<1> HIDE DEF Newest
<1> QED
  BY <1>4, <1>5

LEMMA OptionsKeep ==
  ASSUME PasskeyIInv, NEW key \in Keys, Options(key)
  PROVE  PasskeyIInv'
<1> DEFINE n == Len(made) + 1
<1> USE DEF PasskeyIInv, PasskeyInv
<1>0. PasskeyTypeOK
  OBVIOUS
<1>1. /\ made' \in Seq(Keys) /\ Len(made') = n /\ n \in Nat /\ n <= MaxChallenges
      /\ DOMAIN made' = DOMAIN made \cup {n} /\ n \notin DOMAIN made
      /\ DOMAIN made = 1..Len(made)
      /\ n # 0 /\ \A j \in DOMAIN made' : j <= n
      /\ \A j \in DOMAIN made : made'[j] = made[j]
      /\ made'[n] = key
  BY <1>0, PasskeysAssumption DEF Options, PasskeyTypeOK
<1>2. /\ \A k \in Keys : kept'[k] = IF k = key THEN n ELSE kept[k]
      /\ \A k \in Keys : expired'[k] = IF k = key THEN FALSE ELSE expired[k]
      /\ kept' \in [Keys -> 0..Len(made')] /\ expired' \in [Keys -> BOOLEAN]
  BY <1>0, <1>1 DEF Options, PasskeyTypeOK
<1>3. UNCHANGED <<passkeys, verifying, lapsed, answered, stray, wasted, accepted, turnedAway>>
  BY DEF Options, passkeyHistory
<1> HIDE DEF n
<1>4. PasskeyTypeOK'
  <2>1. accepted' \in Seq(DOMAIN made')
    <3>1. accepted \in Seq(DOMAIN made) /\ DOMAIN made \subseteq DOMAIN made'
      BY <1>0, <1>1 DEF PasskeyTypeOK
    <3> QED
      BY <1>3, <3>1, LargerRange
  <2>2. verifying' \in [Verifications -> [pc : {"idle", "checking", "writing"}, id : 0..Len(made'),
                                      matches : BOOLEAN, cred : Credentials \cup {NoCredential}]]
    <3>1. Len(made) \in Nat /\ 0..Len(made) \subseteq 0..Len(made')
      BY <1>0, <1>1 DEF PasskeyTypeOK
    <3>2. \A v \in Verifications : verifying[v] \in
            [pc : {"idle", "checking", "writing"}, id : 0..Len(made'),
             matches : BOOLEAN, cred : Credentials \cup {NoCredential}]
      BY <1>0, <3>1 DEF PasskeyTypeOK
    <3> QED
      BY <1>0, <1>3, <3>2 DEF PasskeyTypeOK
  <2> QED
    BY <1>0, <1>1, <1>2, <1>3, <2>1, <2>2 DEF PasskeyTypeOK
<1>5. AcceptedOnce'
  BY <1>3 DEF AcceptedOnce
<1>6. TurnedAwayForCause'
  BY <1>0, <1>1, <1>3 DEF TurnedAwayForCause, PasskeyTypeOK
<1>7. KeptIsNewest'
  <2> SUFFICES ASSUME NEW k \in Keys
               PROVE  /\ kept'[k] # 0 => /\ made'[kept'[k]] = k
                                         /\ \A j \in DOMAIN made' : made'[j] = k => j <= kept'[k]
                      /\ expired'[k] => kept'[k] # 0 /\ kept'[k] \in lapsed'
    BY DEF KeptIsNewest
  <2>1. CASE k = key
    BY <1>1, <1>2, <2>1
  <2>2. CASE k # key
    <3>1. kept'[k] = kept[k] /\ expired'[k] = expired[k] /\ kept[k] \in 0..Len(made)
      BY <1>0, <1>2, <2>2 DEF PasskeyTypeOK
    <3> QED
      BY <1>1, <1>3, <2>2, <3>1 DEF KeptIsNewest
  <2> QED
    BY <2>1, <2>2
<1>8. InOnePlace'
  <2>1. \A x \in DOMAIN accepted : accepted[x] \in DOMAIN made
    BY <1>0 DEF PasskeyTypeOK
  <2>2. \A x \in DOMAIN accepted, k \in Keys : kept'[k] # accepted[x]
    BY <1>1, <1>2, <2>1 DEF InOnePlace
  <2>3. \A v \in Verifications : Busied(v) => /\ verifying[v].id \in DOMAIN made
                                             /\ verifying[v].cred \in Credentials
    BY DEF InOnePlace
  <2>4. \A v \in Verifications : Busied(v) /\ verifying[v].matches =>
          \A k \in Keys : kept'[k] # verifying[v].id
    BY <1>1, <1>2, <2>3 DEF InOnePlace
  <2>5. \A v \in Verifications : Busied(v)' <=> Busied(v)
    BY <1>3 DEF Busied
  <2> QED
    BY <1>1, <1>3, <2>2, <2>3, <2>4, <2>5 DEF InOnePlace
<1>9. GoneForCause'
  <2> SUFFICES ASSUME NEW i \in DOMAIN made'
               PROVE  kept'[made'[i]] = i \/ i \in lapsed' \/ i \in wasted' \/ i \in answered' \/ Superseded(i)'
    BY DEF GoneForCause
  <2>1. CASE i = n
    BY <1>1, <1>2, <2>1
  <2>2. CASE i # n /\ made[i] = key
    BY <1>1, <2>2 DEF Superseded
  <2>3. CASE i # n /\ made[i] # key
    <3>1. i \in DOMAIN made /\ made'[i] = made[i] /\ made[i] \in Keys
      BY <1>0, <1>1, <2>3 DEF PasskeyTypeOK
    <3>2. Superseded(i) => Superseded(i)'
      BY <1>1, <1>3, <3>1 DEF Superseded
    <3> QED
      BY <1>2, <1>3, <2>3, <3>1, <3>2 DEF GoneForCause
  <2> QED
    BY <2>1, <2>2, <2>3
<1> QED
  BY <1>4, <1>5, <1>6, <1>7, <1>8, <1>9

LEMMA AnswerArrivesKeeps ==
  ASSUME PasskeyIInv, NEW v \in Verifications, NEW i \in DOMAIN made, NEW k \in Credentials,
         AnswerArrives(v, i, k)
  PROVE  PasskeyIInv'
<1> USE DEF PasskeyIInv, PasskeyInv
<1> DEFINE key == made[i]
           job0 == [pc |-> "checking", id |-> i, matches |-> kept[key] = i, cred |-> k]
<1>0. PasskeyTypeOK
  OBVIOUS
<1>1. key \in Keys /\ DOMAIN made = 1..Len(made) /\ Len(made) \in Nat
  BY <1>0 DEF PasskeyTypeOK
<1>2. /\ kept' \in [Keys -> 0..Len(made)] /\ expired' \in [Keys -> BOOLEAN]
      /\ \A x \in Keys : kept'[x] = IF x = key THEN 0 ELSE kept[x]
      /\ \A x \in Keys : expired'[x] = IF x = key THEN FALSE ELSE expired[x]
  BY <1>0, <1>1 DEF AnswerArrives, Dropped, PasskeyTypeOK
<1>3. UNCHANGED <<made, passkeys, lapsed, wasted, accepted>> /\ answered' = answered \cup {i}
  BY DEF AnswerArrives
<1>4. /\ stray' = IF Newest(key) # i THEN stray \cup {i} ELSE stray
      /\ turnedAway' = IF i \notin answered /\ ~(Consumable(key) /\ kept[key] = i)
                       THEN turnedAway \cup {i} ELSE turnedAway
  BY DEF AnswerArrives
<1>5. /\ verifying[v].pc = "idle"
      /\ Consumable(key) => verifying' = [verifying EXCEPT ![v] = job0]
      /\ ~Consumable(key) => verifying' = verifying
  BY DEF AnswerArrives
<1>6. \A w \in Verifications :
        \/ verifying'[w] = verifying[w]
        \/ w = v /\ verifying'[w] = job0
  BY <1>0, <1>5 DEF PasskeyTypeOK
<1>7. stray \subseteq stray' /\ stray' \subseteq stray \cup {i}
  BY <1>4
<1>8. job0.cred = k /\ job0.id = i /\ job0.pc = "checking" /\ job0.matches = (kept[key] = i)
  OBVIOUS
<1>9. \A j \in DOMAIN made : Superseded(j) => Superseded(j)'
  BY <1>3, <1>7 DEF Superseded
<1> HIDE DEF job0
<1>10. PasskeyTypeOK'
  <2>1. job0 \in [pc : {"idle", "checking", "writing"}, id : 0..Len(made),
                  matches : BOOLEAN, cred : Credentials \cup {NoCredential}]
    BY <1>1 DEF job0
  <2>2. verifying' \in [Verifications -> [pc : {"idle", "checking", "writing"}, id : 0..Len(made),
                                      matches : BOOLEAN, cred : Credentials \cup {NoCredential}]]
    BY <1>0, <1>5, <2>1 DEF PasskeyTypeOK
  <2>3. lapsed' \cup answered' \cup stray' \cup wasted' \cup turnedAway' \subseteq DOMAIN made
    BY <1>0, <1>3, <1>4 DEF PasskeyTypeOK
  <2> QED
    BY <1>0, <1>2, <1>3, <2>2, <2>3 DEF PasskeyTypeOK
<1>11. AcceptedOnce'
  BY <1>3 DEF AcceptedOnce
<1>12. KeptIsNewest'
  BY <1>2, <1>3 DEF KeptIsNewest
<1>13. InOnePlace'
  <2>1. \A w \in Verifications : Busied(w)' =>
          \/ Busied(w) /\ verifying'[w] = verifying[w]
          \/ w = v /\ verifying'[w] = job0
    BY <1>6 DEF Busied
  <2>2. \A w \in Verifications :
          /\ Busied(w)' => verifying'[w].id \in DOMAIN made' /\ verifying'[w].cred \in Credentials
          /\ verifying'[w].pc = "writing" => verifying'[w].matches
    BY <1>3, <1>6, <1>8, <2>1 DEF InOnePlace
  <2>3. ~Busied(v)
    BY <1>5 DEF Busied
  <2>4. \A x \in Keys : kept[x] = i => x = key
    BY <1>1 DEF KeptIsNewest
  <2>5. ASSUME NEW w \in Verifications, Busied(w)', verifying'[w].matches
        PROVE  /\ \A x \in Keys : kept'[x] # verifying'[w].id
               /\ \A x \in DOMAIN accepted' : accepted'[x] # verifying'[w].id
               /\ \A u \in Verifications \ {w} :
                    Busied(u)' /\ verifying'[u].matches => verifying'[u].id # verifying'[w].id
    <3>1. CASE Busied(w) /\ verifying'[w] = verifying[w]
      <4>1. /\ \A x \in Keys : kept[x] # verifying[w].id
            /\ \A x \in DOMAIN accepted : accepted[x] # verifying[w].id
            /\ \A u \in Verifications \ {w} :
                    Busied(u) /\ verifying[u].matches => verifying[u].id # verifying[w].id
        BY <2>5, <3>1 DEF InOnePlace
      <4>2. verifying[w].id \in DOMAIN made
        BY <3>1 DEF InOnePlace
      <4>3. \A x \in Keys : kept'[x] # verifying[w].id
        BY <1>1, <1>2, <4>1, <4>2
      <4>4. ASSUME NEW u \in Verifications \ {w}, Busied(u)', verifying'[u].matches
            PROVE  verifying'[u].id # verifying[w].id
        <5>1. CASE Busied(u) /\ verifying'[u] = verifying[u]
          BY <4>1, <4>4, <5>1
        <5>2. CASE verifying'[u] = job0
          BY <1>1, <1>8, <4>1, <4>4, <5>2
        <5>3. u \in Verifications
          OBVIOUS
        <5> QED
          BY <2>1, <4>4, <5>1, <5>2, <5>3
      <4> QED
        BY <1>3, <3>1, <4>1, <4>3, <4>4
    <3>2. CASE w = v /\ verifying'[w] = job0
      <4>1. kept[key] = i /\ verifying'[w].id = i
        BY <1>8, <2>5, <3>2
      <4>2. \A x \in Keys : kept'[x] # i
        BY <1>1, <1>2, <2>4
      <4>3. \A x \in DOMAIN accepted : accepted[x] # i
        BY <1>1, <4>1 DEF InOnePlace
      <4>4. ASSUME NEW u \in Verifications \ {w}, Busied(u)', verifying'[u].matches
            PROVE  verifying'[u].id # i
        <5>1. Busied(u) /\ verifying'[u] = verifying[u]
          BY <2>1, <3>2, <4>4
        <5> QED
          BY <1>1, <4>1, <4>4, <5>1 DEF InOnePlace
      <4> QED
        BY <1>3, <4>1, <4>2, <4>3, <4>4
    <3> QED
      BY <2>1, <2>5, <3>1, <3>2
  <2>6. \A x \in DOMAIN accepted', y \in Keys : kept'[y] # accepted'[x]
    <3>1. \A x \in DOMAIN accepted : accepted[x] \in DOMAIN made
      BY <1>0 DEF PasskeyTypeOK
    <3> QED
      BY <1>1, <1>2, <1>3, <3>1 DEF InOnePlace
  <2> QED
    BY <2>2, <2>5, <2>6 DEF InOnePlace
<1>14. GoneForCause'
  <2> SUFFICES ASSUME NEW j \in DOMAIN made
               PROVE  kept'[made[j]] = j \/ j \in lapsed \/ j \in wasted \/ j \in answered' \/ Superseded(j)'
    BY <1>3 DEF GoneForCause
  <2>1. made[j] \in Keys
    BY <1>0 DEF PasskeyTypeOK
  <2>2. CASE made[j] # key
    BY <1>2, <1>3, <1>9, <2>1, <2>2 DEF GoneForCause
  <2>3. CASE made[j] = key /\ kept[key] = j /\ i # j
    <3>1. Newest(key) = j
      BY <1>1, <2>3, NewestIsKept
    <3>2. i \in stray'
      BY <1>4, <2>3, <3>1
    <3> QED
      BY <1>3, <2>3, <3>2 DEF Superseded
  <2>4. CASE made[j] = key /\ kept[key] # j
    BY <1>3, <1>9, <2>4 DEF GoneForCause
  <2> QED
    BY <1>3, <2>2, <2>3, <2>4
<1>15. TurnedAwayForCause'
  <2>1. \A j \in turnedAway : j \in DOMAIN made /\ (j \in lapsed \cup wasted \/ Superseded(j))
    BY <1>0 DEF TurnedAwayForCause, Superseded, PasskeyTypeOK
  <2>2. ASSUME i \notin answered, ~(Consumable(key) /\ kept[key] = i)
        PROVE  i \in lapsed \cup wasted \/ Superseded(i)
    <3>1. CASE kept[key] # i
      BY <2>2, <3>1 DEF GoneForCause
    <3>2. CASE kept[key] = i
      <4>1. expired[key]
        BY <1>1, <2>2, <3>2 DEF Consumable
      <4> QED
        BY <1>1, <3>2, <4>1 DEF KeptIsNewest
    <3> QED
      BY <3>1, <3>2
  <2>3. \A j \in turnedAway' : j \in lapsed \cup wasted \/ Superseded(j)
    BY <1>4, <2>1, <2>2
  <2>4. \A j \in turnedAway' : j \in DOMAIN made
    BY <1>4, <2>1
  <2> QED
    BY <1>3, <1>9, <2>3, <2>4 DEF TurnedAwayForCause, Superseded
<1> QED
  BY <1>10, <1>11, <1>12, <1>13, <1>14, <1>15

(* A step that leaves the challenges and their answers alone.              *)
LEMMA CeremoniesRest ==
  ASSUME PasskeyIInv, passkeys' \in [Owners -> SUBSET Credentials],
         UNCHANGED <<made, kept, expired, verifying, passkeyHistory>>
  PROVE  PasskeyIInv'
BY DEF PasskeyIInv, PasskeyInv, PasskeyTypeOK, AcceptedOnce, TurnedAwayForCause, KeptIsNewest,
       InOnePlace, GoneForCause, Superseded, Busied, passkeyHistory

(* A step after which fewer challenges are in memory: the rest lapsed or   *)
(* was used up.                                                            *)
LEMMA MemoryFades ==
  ASSUME PasskeyIInv, UNCHANGED <<made, passkeys, answered, stray, accepted, turnedAway>>,
         \/ UNCHANGED verifying
         \/ verifying' = [v \in Verifications |-> Done],
         kept' \in [Keys -> 0..Len(made)], expired' \in [Keys -> BOOLEAN],
         lapsed \subseteq lapsed', lapsed' \subseteq DOMAIN made,
         wasted \subseteq wasted', wasted' \subseteq DOMAIN made,
         \A key \in Keys : \/ kept'[key] = kept[key]
                           \/ kept'[key] = 0 /\ (kept[key] # 0 => kept[key] \in lapsed' \cup wasted'),
         \A key \in Keys : expired'[key] => kept'[key] # 0 /\ kept'[key] \in lapsed'
  PROVE  PasskeyIInv'
<1> USE DEF PasskeyIInv, PasskeyInv
<1>0. PasskeyTypeOK
  OBVIOUS
<1>1. \A v \in Verifications : Busied(v)' => Busied(v) /\ verifying'[v] = verifying[v]
  BY DEF Busied, Done
<1>2. PasskeyTypeOK'
  <2>1. verifying' \in [Verifications -> Requests]
    BY <1>0, DoneIsRequest DEF PasskeyTypeOK, Requests
  <2> QED
    BY <1>0, <2>1 DEF PasskeyTypeOK, Requests
<1>3. AcceptedOnce'
  BY DEF AcceptedOnce
<1>4. TurnedAwayForCause'
  BY DEF TurnedAwayForCause
<1>5. KeptIsNewest'
  BY DEF KeptIsNewest
<1>6. InOnePlace'
  <2>1. \A v \in Verifications : verifying'[v].pc = "writing" => Busied(v)'
    BY DEF Busied
  <2>2. \A v \in Verifications : /\ Busied(v)' => /\ verifying'[v].id \in DOMAIN made'
                                                 /\ verifying'[v].cred \in Credentials
                                 /\ verifying'[v].pc = "writing" => verifying'[v].matches
    BY <1>1, <2>1 DEF InOnePlace
  <2>3. ASSUME NEW v \in Verifications, Busied(v)', verifying'[v].matches
        PROVE  /\ \A key \in Keys : kept'[key] # verifying'[v].id
               /\ \A x \in DOMAIN accepted' : accepted'[x] # verifying'[v].id
               /\ \A w \in Verifications \ {v} :
                    Busied(w)' /\ verifying'[w].matches => verifying'[w].id # verifying'[v].id
    <3>1. verifying'[v].id \in DOMAIN made /\ 0 \notin DOMAIN made
      BY <1>0, <1>1, <2>2, <2>3 DEF PasskeyTypeOK
    <3>2. Busied(v) /\ verifying'[v] = verifying[v]
      BY <1>1, <2>3
    <3>3. /\ \A key \in Keys : kept[key] # verifying[v].id
          /\ \A x \in DOMAIN accepted : accepted[x] # verifying[v].id
          /\ \A w \in Verifications \ {v} :
                    Busied(w) /\ verifying[w].matches => verifying[w].id # verifying[v].id
      BY <2>3, <3>2 DEF InOnePlace
    <3>4. \A key \in Keys : kept'[key] # verifying[v].id
      BY <3>1, <3>2, <3>3
    <3> QED
      BY <1>1, <3>2, <3>3, <3>4
  <2>4. \A x \in DOMAIN accepted', key \in Keys : kept'[key] # accepted'[x]
    <3>1. \A x \in DOMAIN accepted : accepted[x] \in DOMAIN made /\ accepted[x] # 0
      BY <1>0 DEF PasskeyTypeOK
    <3> QED
      BY <3>1 DEF InOnePlace
  <2> QED
    BY <2>2, <2>3, <2>4 DEF InOnePlace
<1>7. GoneForCause'
  <2>1. \A i \in DOMAIN made : made[i] \in Keys /\ i # 0
    BY <1>0 DEF PasskeyTypeOK
  <2> QED
    BY <2>1 DEF GoneForCause, Superseded
<1> QED
  BY <1>2, <1>3, <1>4, <1>5, <1>6, <1>7

LEMMA CheckKeeps ==
  ASSUME PasskeyIInv, NEW v \in Verifications, Check(v)
  PROVE  PasskeyIInv'
<1> USE DEF PasskeyIInv, PasskeyInv
<1>0. PasskeyTypeOK
  OBVIOUS
<1>1. UNCHANGED <<made, kept, expired, passkeys, lapsed, answered, stray, wasted, accepted, turnedAway>>
  BY DEF Check, passkeyHistory
<1>2. /\ \A w \in Verifications :
         \/ verifying'[w] = verifying[w]
         \/ w = v /\ verifying'[w] = Done
         \/ w = v /\ verifying[w].pc = "checking" /\ verifying[w].matches
              /\ verifying'[w] = [verifying[w] EXCEPT !.pc = "writing"]
      /\ verifying' \in [Verifications -> Requests]
  <2> DEFINE q == [verifying[v] EXCEPT !.pc = "writing"]
  <2>1. verifying[v] \in Requests /\ verifying[v].pc = "checking"
    BY <1>0 DEF Check, PasskeyTypeOK, Requests
  <2>2. q \in Requests /\ Done \in Requests
    BY <1>0, <2>1, DoneIsRequest DEF Requests
  <2>3. \/ verifying' = [verifying EXCEPT ![v] = Done]
        \/ verifying' = [verifying EXCEPT ![v] = q] /\ verifying[v].matches
    BY DEF Check
  <2> HIDE DEF q
  <2>4. /\ verifying' \in [Verifications -> Requests]
        /\ verifying'[v] = Done \/ (verifying'[v] = q /\ verifying[v].matches)
        /\ \A w \in Verifications \ {v} : verifying'[w] = verifying[w]
    BY <1>0, <2>2, <2>3, RequestTakes
  <2> SUFFICES ASSUME NEW w \in Verifications
               PROVE  \/ verifying'[w] = verifying[w]
                      \/ w = v /\ verifying'[w] = Done
                      \/ w = v /\ verifying[w].pc = "checking" /\ verifying[w].matches
                           /\ verifying'[w] = [verifying[w] EXCEPT !.pc = "writing"]
    BY <2>4
  <2> QED
    BY <2>1, <2>4 DEF q
<1>3. \A w \in Verifications :
        /\ Busied(w)' => Busied(w) /\ verifying'[w].id = verifying[w].id
                                   /\ verifying'[w].matches = verifying[w].matches
                                   /\ verifying'[w].cred = verifying[w].cred
        /\ verifying'[w].pc = "writing" => verifying'[w].matches
  <2>1. \A w \in Verifications : verifying[w] \in Requests
    BY <1>0 DEF PasskeyTypeOK, Requests
  <2>2. \A w \in Verifications : verifying[w].pc = "writing" => verifying[w].matches
    BY DEF InOnePlace
  <2> QED
    BY <1>2, <2>1, <2>2 DEF Busied, Done, Requests
<1>4. PasskeyTypeOK'
  BY <1>0, <1>1, <1>2 DEF PasskeyTypeOK, Requests
<1>5. InOnePlace'
  BY <1>1, <1>3 DEF InOnePlace
<1>6. AcceptedOnce' /\ TurnedAwayForCause' /\ KeptIsNewest' /\ GoneForCause'
  BY <1>1 DEF AcceptedOnce, TurnedAwayForCause, KeptIsNewest, GoneForCause, Superseded
<1> QED
  BY <1>4, <1>5, <1>6

LEMMA LongerBy ==
  ASSUME NEW S, NEW s \in Seq(S), NEW e \in S
  PROVE  Append(s, e) \in Seq(S)
OBVIOUS

LEMMA WriteKeeps ==
  ASSUME PasskeyIInv, NEW v \in Verifications, Write(v)
  PROVE  PasskeyIInv'
<1> USE DEF PasskeyIInv, PasskeyInv
<1> DEFINE i == verifying[v].id
<1>0. PasskeyTypeOK
  OBVIOUS
<1>1. /\ UNCHANGED <<made, kept, expired, lapsed, answered, stray, wasted, turnedAway>>
      /\ verifying[v].pc = "writing"
      /\ verifying' = [verifying EXCEPT ![v] = Done]
      /\ accepted' = accepted \/ accepted' = Append(accepted, i)
  BY DEF Write
<1>2. /\ i \in DOMAIN made /\ verifying[v].matches /\ verifying[v].cred \in Credentials /\ Busied(v)
      /\ \A key \in Keys : kept[key] # i
      /\ \A x \in DOMAIN accepted : accepted[x] # i
      /\ \A w \in Verifications \ {v} : Busied(w) /\ verifying[w].matches => verifying[w].id # i
  BY <1>1 DEF InOnePlace, Busied
<1>3. \A w \in Verifications : \/ w = v /\ ~Busied(w)' /\ verifying'[w].pc = "idle"
                               \/ w # v /\ verifying'[w] = verifying[w]
  BY <1>0, <1>1 DEF PasskeyTypeOK, Busied, Done
<1>4. passkeys' \in [Owners -> SUBSET Credentials]
  <2>1. made[i] \in Keys
    BY <1>0, <1>2 DEF PasskeyTypeOK
  <2>2. CASE Kind(v) = "auth" \/ passkeys' = passkeys
    BY <1>0, <2>2 DEF Write, PasskeyTypeOK
  <2>3. CASE Kind(v) = "reg" /\ passkeys' # passkeys
    <3>1. passkeys' = [passkeys EXCEPT ![Owner(v)] = @ \cup {verifying[v].cred}]
      BY <2>3 DEF Write
    <3>2. verifying[v].cred \in Credentials
      BY <1>2
    <3> QED
      BY <1>0, <3>1, <3>2 DEF PasskeyTypeOK
  <2> QED
    BY <2>1, <2>2, <2>3 DEF Keys, Kind
<1>5. PasskeyTypeOK'
  <2>1. accepted' \in Seq(DOMAIN made)
    <3>1. accepted \in Seq(DOMAIN made) /\ i \in DOMAIN made
      BY <1>0, <1>2 DEF PasskeyTypeOK
    <3> HIDE DEF i
    <3> QED
      BY <1>1, <3>1, LongerBy
  <2>2. verifying' \in [Verifications -> Requests]
    BY <1>0, <1>1, DoneIsRequest, RequestTakes
  <2> QED
    BY <1>0, <1>1, <1>4, <2>1, <2>2 DEF PasskeyTypeOK, Requests
<1>6. \A x \in DOMAIN accepted' :
        \/ x \in DOMAIN accepted /\ accepted'[x] = accepted[x]
        \/ x = Len(accepted) + 1 /\ accepted'[x] = i
  <2>1. accepted \in Seq(DOMAIN made)
    BY <1>0 DEF PasskeyTypeOK
  <2> HIDE DEF i
  <2>2. CASE accepted' = accepted
    BY <2>2
  <2>3. CASE accepted' = Append(accepted, i)
    BY <2>1, <2>3
  <2> QED
    BY <1>1, <2>2, <2>3
<1> HIDE DEF i
<1>7. AcceptedOnce'
  BY <1>2, <1>6 DEF AcceptedOnce
<1>8. InOnePlace'
  <2>1. \A w \in Verifications :
          /\ Busied(w)' => w # v /\ Busied(w) /\ verifying'[w] = verifying[w]
          /\ verifying'[w].pc = "writing" => Busied(w)'
    BY <1>3 DEF Busied
  <2>2. \A w \in Verifications :
          /\ Busied(w)' => verifying'[w].id \in DOMAIN made' /\ verifying'[w].cred \in Credentials
          /\ verifying'[w].pc = "writing" => verifying'[w].matches
    BY <1>1, <2>1 DEF InOnePlace
  <2>3. \A x \in DOMAIN accepted', key \in Keys : kept'[key] # accepted'[x]
    BY <1>1, <1>2, <1>6 DEF InOnePlace
  <2>4. ASSUME NEW w \in Verifications, Busied(w)', verifying'[w].matches
        PROVE  /\ \A key \in Keys : kept'[key] # verifying'[w].id
               /\ \A x \in DOMAIN accepted' : accepted'[x] # verifying'[w].id
               /\ \A u \in Verifications \ {w} :
                    Busied(u)' /\ verifying'[u].matches => verifying'[u].id # verifying'[w].id
    <3>1. w # v /\ Busied(w) /\ verifying'[w] = verifying[w]
      BY <2>1, <2>4
    <3>2. /\ \A key \in Keys : kept[key] # verifying[w].id
          /\ \A x \in DOMAIN accepted : accepted[x] # verifying[w].id
          /\ \A u \in Verifications \ {w} :
                    Busied(u) /\ verifying[u].matches => verifying[u].id # verifying[w].id
          /\ verifying[w].id # i
      BY <1>2, <2>4, <3>1 DEF InOnePlace
    <3> QED
      BY <1>1, <1>6, <2>1, <3>1, <3>2
  <2> QED
    BY <2>2, <2>3, <2>4 DEF InOnePlace
<1>9. TurnedAwayForCause' /\ KeptIsNewest' /\ GoneForCause'
  BY <1>1 DEF TurnedAwayForCause, KeptIsNewest, GoneForCause, Superseded
<1> QED
  BY <1>5, <1>7, <1>8, <1>9

LEMMA PasskeyStep == PasskeyIInv /\ [PasskeyNext]_passkeyVars => PasskeyIInv'
<1> SUFFICES ASSUME PasskeyIInv, [PasskeyNext]_passkeyVars PROVE PasskeyIInv'
  OBVIOUS
<1>0. PasskeyTypeOK /\ KeptIsNewest
  BY DEF PasskeyIInv, PasskeyInv
<1>1. CASE \E key \in Keys : Options(key)
  BY <1>1, OptionsKeep
<1>2. ASSUME NEW key \in Keys, Age(key) PROVE PasskeyIInv'
  <2>1. /\ expired' \in [Keys -> BOOLEAN] /\ kept[key] # 0
        /\ \A k \in Keys : expired'[k] = (k = key \/ expired[k])
    BY <1>0, <1>2 DEF Age, PasskeyTypeOK
  <2>2. lapsed' = lapsed \cup {kept[key]} /\ kept[key] \in DOMAIN made
    BY <1>0, <1>2 DEF Age, PasskeyTypeOK
  <2>3. /\ lapsed' \subseteq DOMAIN made /\ kept' \in [Keys -> 0..Len(made)]
        /\ UNCHANGED <<made, passkeys, answered, stray, wasted, accepted, turnedAway, kept, verifying>>
        /\ wasted \subseteq DOMAIN made
    BY <1>0, <1>2, <2>2 DEF Age, PasskeyTypeOK
  <2>4. \A k \in Keys : expired'[k] => kept'[k] # 0 /\ kept'[k] \in lapsed'
    BY <1>0, <2>1, <2>2, <2>3 DEF KeptIsNewest
  <2> QED
    BY <2>1, <2>2, <2>3, <2>4, MemoryFades
<1>3. CASE \E v \in Verifications, i \in DOMAIN made, k \in Credentials : AnswerArrives(v, i, k)
  BY <1>3, AnswerArrivesKeeps
<1>4. CASE \E v \in Verifications : Check(v)
  BY <1>4, CheckKeeps
<1>5. CASE \E v \in Verifications : Write(v)
  BY <1>5, WriteKeeps
<1>6. CASE \E o \in Owners, k \in Credentials : DeletePasskey(o, k)
  BY <1>0, <1>6, CeremoniesRest DEF DeletePasskey, PasskeyTypeOK
<1>7. CASE CleanupChallenges
  <2>1. /\ kept' \in [Keys -> 0..Len(made)] /\ expired' \in [Keys -> BOOLEAN]
        /\ \A k \in Keys : ~expired'[k] /\ kept'[k] = IF expired[k] THEN 0 ELSE kept[k]
    BY <1>0, <1>7 DEF CleanupChallenges, PasskeyTypeOK
  <2>2. UNCHANGED <<made, passkeys, answered, stray, wasted, accepted, turnedAway, verifying, lapsed>>
        /\ lapsed \subseteq DOMAIN made /\ wasted \subseteq DOMAIN made
    BY <1>0, <1>7 DEF CleanupChallenges, PasskeyTypeOK, passkeyHistory
  <2> QED
    BY <1>0, <2>1, <2>2, MemoryFades DEF KeptIsNewest
<1>8. CASE RestartServer
  <2>1. /\ kept' \in [Keys -> 0..Len(made)] /\ expired' \in [Keys -> BOOLEAN]
        /\ \A k \in Keys : ~expired'[k] /\ kept'[k] = 0
    BY <1>0, <1>8 DEF RestartServer, PasskeyTypeOK
  <2>2. UNCHANGED <<made, passkeys, answered, stray, wasted, accepted, turnedAway>>
        /\ lapsed' = DOMAIN made /\ lapsed \subseteq DOMAIN made /\ wasted \subseteq DOMAIN made
        /\ verifying' = [v \in Verifications |-> Done]
    BY <1>0, <1>8 DEF RestartServer, PasskeyTypeOK
  <2>3. \A k \in Keys : kept[k] # 0 => kept[k] \in DOMAIN made
    BY <1>0 DEF PasskeyTypeOK
  <2> QED
    BY <2>1, <2>2, <2>3, MemoryFades
<1>9. ASSUME NEW key \in Keys, Misanswered(key) PROVE PasskeyIInv'
  <2>1. /\ kept' \in [Keys -> 0..Len(made)] /\ expired' \in [Keys -> BOOLEAN]
        /\ \A k \in Keys : expired'[k] => k # key /\ expired[k]
        /\ \A k \in Keys : kept'[k] = IF k = key THEN 0 ELSE kept[k]
    BY <1>0, <1>9 DEF Misanswered, Dropped, PasskeyTypeOK
  <2>2. /\ UNCHANGED <<made, passkeys, answered, stray, lapsed, accepted, turnedAway, verifying>>
        /\ lapsed \subseteq DOMAIN made /\ wasted' = wasted \cup {kept[key]}
        /\ wasted' \subseteq DOMAIN made
    BY <1>0, <1>9 DEF Misanswered, PasskeyTypeOK
  <2>3. \A k \in Keys : expired'[k] => kept'[k] # 0 /\ kept'[k] \in lapsed'
    BY <1>0, <2>1, <2>2 DEF KeptIsNewest
  <2> QED
    BY <2>1, <2>2, <2>3, MemoryFades
<1>10. CASE UNCHANGED passkeyVars
  BY <1>0, <1>10, CeremoniesRest DEF passkeyVars, PasskeyTypeOK
<1> QED
  BY <1>1, <1>2, <1>3, <1>4, <1>5, <1>6, <1>7, <1>8, <1>9, <1>10 DEF PasskeyNext

(* PasskeyService: however requests, repeated answers, cleanups and        *)
(* restarts interleave, one answer at most is accepted per challenge, and  *)
(* the first answer is turned away for one of the stated causes only.      *)
THEOREM CeremoniesHold == PasskeySpec => []PasskeyInv
<1>1. PasskeyIInv => PasskeyInv
  BY DEF PasskeyIInv
<1> QED
  BY <1>1, PasskeyStart, PasskeyStep, PTL DEF PasskeySpec
-----------------------------------------------------------------------------
(* ClientSession: what keeps the copies of one session together.           *)

JobOf(op) == IF op \in SignIns \cup {"logout"} THEN op ELSE "read"

Issuing == SignIns \cup {"refresh"}

(* A job does what its call asked for, and holds a token when it may.      *)
Fits(r, j) ==
  /\ r.pc = "refreshing" => j.op = "refresh"
  /\ r.pc = "waiting" => j.op = JobOf(r.op)
  /\ j.op \in SignIns => j.token.acct \in Accounts
  /\ j.op = "refresh" => j.token \in Tokens \cup {NoToken}
  /\ j.pc = "checked" => j.op \in Issuing
  /\ j.op = "refresh" /\ j.pc = "checked" => j.token \in Tokens
  /\ j.op \in Issuing /\ j.pc = "ok" => j.token \in Tokens
  /\ j.pc = "none" => j.op = "read"
  /\ j.pc = "captcha" => j.op \in SignIns

JobsFit == \A c \in Calls : Fits(call[c], job[c])

(* A token that the browser holds, uses or is about to receive is good for *)
(* a refresh, unless its account was logged out.                           *)
Good(token) == token # NoToken => hash[token.acct] # 0 \/ token.acct \in outs

Honoured ==
  /\ Good(store.refresh) /\ Good(cookie)
  /\ \A c \in Calls :
       \/ job[c].op = "refresh"
       \/ job[c].pc = "ok" /\ job[c].op \in SignIns
       => Good(job[c].token)

(* After a logout no refresh has anything to go by.                        *)
EndedIsOver ==
  ended =>
    /\ store.access = Nobody /\ store.refresh = NoToken /\ cookie = NoToken
    /\ \A c \in Calls : call[c].pc = "refreshing" => job[c].token = NoToken

(* A logout was served, and its answer is on its way to the page.          *)
LogoutDone ==
  \E c \in Calls : /\ call[c].op = "logout" /\ call[c].pc = "waiting"
                   /\ job[c].op = "logout" /\ job[c].pc = "ok"

SignedIn(a) == a # Nobody /\ hash[a] = 0 => LogoutDone

CalmIsOrderly ==
  calm =>
    /\ store.user = store.access /\ store.refresh.acct = store.access
    /\ SignedIn(store.access) /\ SignedIn(cookie.acct)
    /\ \A c \in Calls :
         /\ job[c].op = "logout" => call[c].op = "logout" /\ call[c].pc = "waiting"
         /\ call[c].op \in {"me", "profile"} /\ call[c].pc = "waiting"
              => job[c].token.acct = store.access
         /\ call[c].pc = "refreshing" /\ store.access # Nobody
              => job[c].token.acct = store.access
         /\ job[c].op \in Issuing /\ job[c].pc = "ok" => SignedIn(job[c].token.acct)

(* The inductive invariant, by parts.                                      *)
SessionIInv ==
  /\ SessionTypeOK /\ LoadingIsAsked /\ RefreshesSideBySide
  /\ JobsFit /\ Honoured /\ EndedIsOver /\ CalmIsOrderly

Jobs == [op : JobOps, live : BOOLEAN, token : [acct : Who, n : 0..MaxIssued],
         pc : {"none", "arrived", "checked", "ok", "denied", "captcha", "error"}]

CallRecords == [op : SignIns \cup {"api", "me", "profile", "logout"}, retry : BOOLEAN,
                tab : Tabs \cup {Nobody}, pc : {"idle", "waiting", "refreshing"}]

LEMMA SessionTypes ==
  SessionTypeOK <=>
    /\ issued \in 0..MaxIssued
    /\ hash \in [Accounts -> 0..MaxIssued]
    /\ job \in [Calls -> Jobs]
    /\ store \in [access : Who, live : BOOLEAN, refresh : Tokens \cup {NoToken}, user : Who]
    /\ cookie \in Tokens \cup {NoToken}
    /\ shown \in [Tabs -> Who]
    /\ loading \in [Tabs -> BOOLEAN]
    /\ call \in [Calls -> CallRecords]
    /\ calm \in BOOLEAN /\ ended \in BOOLEAN /\ outs \subseteq Accounts
BY DEF SessionTypeOK, Jobs, CallRecords

LEMMA TokenFacts ==
  /\ Nobody \notin Accounts /\ 0..MaxIssued \subseteq Nat /\ MaxIssued \in Nat
  /\ NoToken \notin Tokens /\ NoToken.acct = Nobody
  /\ NoToken \in [acct : Who, n : 0..MaxIssued] /\ Tokens \subseteq [acct : Who, n : 0..MaxIssued]
  /\ \A k \in Tokens : k.acct \in Accounts
  /\ \A k \in Tokens \cup {NoToken} : k # NoToken => k \in Tokens
  /\ NoJob \in Jobs /\ Idle \in CallRecords /\ Empty.refresh = NoToken
  /\ Empty \in [access : Who, live : BOOLEAN, refresh : Tokens \cup {NoToken}, user : Who]
BY SessionsAssumption DEF NoToken, Tokens, Who, NoJob, Idle, Empty, Jobs, CallRecords, JobOps, SignIns

LEMMA SessionStart == SessionInit => SessionIInv
<1> SUFFICES ASSUME SessionInit PROVE SessionIInv
  OBVIOUS
<1> USE DEF SessionInit, ServerInit
<1>1. \A c \in Calls : job[c] = NoJob /\ call[c] = Idle
  OBVIOUS
<1>2. SessionTypeOK
  <2>1. job \in [Calls -> Jobs] /\ call \in [Calls -> CallRecords]
    BY TokenFacts
  <2>2. hash \in [Accounts -> 0..MaxIssued] /\ issued \in 0..MaxIssued
    BY SessionsAssumption
  <2>3. shown \in [Tabs -> Who] /\ loading \in [Tabs -> BOOLEAN]
    BY DEF Who
  <2> QED
    BY <2>1, <2>2, <2>3, SessionTypes, TokenFacts
<1>3. LoadingIsAsked
  BY DEF LoadingIsAsked
<1>4. RefreshesSideBySide /\ JobsFit /\ EndedIsOver
  BY <1>1 DEF RefreshesSideBySide, JobsFit, Fits, EndedIsOver, NoJob, Idle, JobOf, SignIns, Issuing
<1>5. Honoured
  BY <1>1, TokenFacts DEF Honoured, Good, NoJob, SignIns
<1>6. CalmIsOrderly
  BY <1>1, TokenFacts DEF CalmIsOrderly, SignedIn, NoJob, Idle, Empty, Issuing, SignIns
<1> QED
  BY <1>2, <1>3, <1>4, <1>5, <1>6 DEF SessionIInv

(* A job that takes another state, of the right type.                      *)
LEMMA JobTakes ==
  ASSUME SessionTypeOK, NEW c \in Calls, NEW q \in Jobs, job' = [job EXCEPT ![c] = q]
  PROVE  /\ job' \in [Calls -> Jobs] /\ job'[c] = q
         /\ \A d \in Calls : d # c => job'[d] = job[d]
BY SessionTypes

LEMMA CallTakes ==
  ASSUME SessionTypeOK, NEW c \in Calls, NEW q \in CallRecords, call' = [call EXCEPT ![c] = q]
  PROVE  /\ call' \in [Calls -> CallRecords] /\ call'[c] = q
         /\ \A d \in Calls : d # c => call'[d] = call[d]
BY SessionTypes

(* A server's step that reads: the state of one job changes.               *)
LEMMA AnswerKeeps ==
  ASSUME SessionIInv, NEW c \in Calls, NEW pc \in {"checked", "ok", "denied", "captcha", "error"},
         Answer(c, pc), job[c].pc \in {"arrived", "checked"},
         UNCHANGED <<issued, hash, storeVars, loading, call, calm, ended, outs>>,
         pc = "ok" => job[c].op \notin Issuing,
         pc = "checked" => job[c].op \in Issuing,
         pc = "captcha" => job[c].op \in SignIns,
         pc = "checked" /\ job[c].op = "refresh" => job[c].token \in Tokens,
         pc = "denied" /\ job[c].op = "refresh" /\ job[c].token # NoToken
           => job[c].token.acct \in outs
  PROVE  SessionIInv'
<1> USE DEF SessionIInv
<1> DEFINE q == [job[c] EXCEPT !.pc = pc]
<1>0. SessionTypeOK /\ job[c] \in Jobs
  BY SessionTypes
<1>1. /\ q \in Jobs /\ q.pc = pc /\ q.op = job[c].op /\ q.token = job[c].token
      /\ job' = [job EXCEPT ![c] = q]
  BY <1>0 DEF Jobs, Answer
<1> HIDE DEF q
<1>2. /\ job' \in [Calls -> Jobs] /\ job'[c] = q
      /\ \A d \in Calls : d # c => job'[d] = job[d]
  BY <1>0, <1>1, JobTakes
<1>3. UNCHANGED <<issued, hash, store, cookie, shown, loading, call, calm, ended, outs>>
  BY DEF storeVars
<1>4. \A d \in Calls : /\ job'[d].op = job[d].op /\ job'[d].token = job[d].token
                       /\ d # c => job'[d].pc = job[d].pc
  BY <1>1, <1>2
<1>5. job'[c].pc = pc
  BY <1>1, <1>2
<1>6. SessionTypeOK'
  <2> HIDE DEF SessionIInv
  <2> QED
    BY <1>0, <1>2, <1>3 DEF SessionTypeOK, Jobs
<1>7. LoadingIsAsked'
  BY <1>3 DEF LoadingIsAsked
<1>8. RefreshesSideBySide'
  BY <1>3, <1>4, <1>5 DEF RefreshesSideBySide
<1>9. JobsFit'
  BY <1>3, <1>4, <1>5 DEF JobsFit, Fits
<1>10. Honoured'
  BY <1>3, <1>4, <1>5 DEF Honoured, Good, Issuing
<1>11. EndedIsOver'
  BY <1>3, <1>4 DEF EndedIsOver
<1>12. LogoutDone => LogoutDone'
  BY <1>3, <1>4 DEF LogoutDone
<1>13. CalmIsOrderly'
  BY <1>3, <1>4, <1>5, <1>12 DEF CalmIsOrderly, SignedIn
<1> QED
  BY <1>6, <1>7, <1>8, <1>9, <1>10, <1>11, <1>13

LEMMA IssueTokensKeeps ==
  ASSUME SessionIInv, NEW c \in Calls, IssueTokens(c),
         UNCHANGED <<storeVars, loading, call, calm, ended>>,
         outs' = outs \cup {a \in Accounts : hash[a] # 0 /\ hash'[a] = 0}
  PROVE  SessionIInv'
<1> USE DEF SessionIInv
<1> DEFINE q == [op |-> job[c].op, live |-> job[c].live, pc |-> "ok",
                 token |-> [acct |-> job[c].token.acct, n |-> issued']]
           a == job[c].token.acct
<1>0. SessionTypeOK /\ job[c] \in Jobs /\ job[c].op \in Issuing /\ a \in Accounts /\ issued \in 0..MaxIssued
  BY SessionTypes, TokenFacts DEF JobsFit, Fits, IssueTokens, Issuing
<1>1. issued' \in 1..MaxIssued /\ issued' # 0
  BY <1>0, SessionsAssumption DEF IssueTokens, Later
<1>2. job' = [job EXCEPT ![c] = q]
  <2>1. job' = [job EXCEPT ![c] = [job[c] EXCEPT !.pc = "ok", !.token = [job[c].token EXCEPT !.n = issued']]]
    BY <1>0 DEF IssueTokens
  <2>2. [job[c] EXCEPT !.pc = "ok", !.token = [job[c].token EXCEPT !.n = issued']] = q
    <3>1. job[c].token \in [acct : Who, n : 0..MaxIssued]
      BY <1>0 DEF Jobs
    <3>2. [job[c].token EXCEPT !.n = issued'] = [acct |-> job[c].token.acct, n |-> issued']
      BY <3>1
    <3> DEFINE tk == [acct |-> job[c].token.acct, n |-> issued']
    <3> HIDE DEF tk
    <3>3. [job[c] EXCEPT !.pc = "ok", !.token = tk]
          = [op |-> job[c].op, live |-> job[c].live, pc |-> "ok", token |-> tk]
      <4> DEFINE j == [job[c] EXCEPT !.pc = "ok"]
      <4>1. /\ j = [op |-> job[c].op, live |-> job[c].live, pc |-> "ok", token |-> job[c].token]
        BY <1>0 DEF Jobs
      <4> HIDE DEF j
      <4>2. [j EXCEPT !.token = tk] = [op |-> j.op, live |-> j.live, pc |-> j.pc, token |-> tk]
        BY <4>1
      <4> QED
        BY <4>1, <4>2 DEF j
    <3> QED
      BY <3>2, <3>3 DEF tk
  <2> QED
    BY <2>1, <2>2
<1>3. q \in Jobs
  BY <1>0, <1>1, TokenFacts DEF Jobs, Who
<1>4. q.pc = "ok" /\ q.op = job[c].op /\ q.token.acct = a /\ q.token \in Tokens
  BY <1>0, <1>1, TokenFacts DEF Tokens
<1> HIDE DEF q, a
<1>5. /\ job' \in [Calls -> Jobs] /\ job'[c] = q
      /\ \A d \in Calls : d # c => job'[d] = job[d]
  BY <1>0, <1>2, <1>3, JobTakes
<1>6. UNCHANGED <<store, cookie, shown, loading, call, calm, ended>>
  BY DEF storeVars
<1>7. /\ hash' \in [Accounts -> 0..MaxIssued] /\ hash'[a] = issued'
      /\ \A x \in Accounts : x # a => hash'[x] = hash[x]
  <2>1. hash \in [Accounts -> 0..MaxIssued] /\ hash' = [hash EXCEPT ![a] = issued'] /\ issued' \in 0..MaxIssued
    BY <1>0, <1>1, SessionTypes DEF IssueTokens, a
  <2> QED
    BY <1>0, <2>1
<1>8. outs' = outs
  BY <1>1, <1>7
<1>9. \A d \in Calls : /\ job'[d].op = job[d].op /\ job'[d].token.acct = job[d].token.acct
                       /\ d # c => job'[d] = job[d]
  BY <1>4, <1>5 DEF a
<1>10. job'[c].pc = "ok" /\ job'[c].token \in Tokens /\ job'[c].token.acct = a
  BY <1>4, <1>5
<1>11. SessionTypeOK'
  <2>1. issued' \in 0..MaxIssued
    BY <1>1
  <2> HIDE DEF SessionIInv
  <2> QED
    BY <1>0, <1>5, <1>6, <1>7, <1>8, <2>1 DEF SessionTypeOK, Jobs
<1>12. LoadingIsAsked'
  BY <1>6 DEF LoadingIsAsked
<1>13. RefreshesSideBySide'
  BY <1>8, <1>9, <1>10 DEF RefreshesSideBySide
<1>14. JobsFit'
  BY <1>6, <1>9, <1>10, TokenFacts DEF JobsFit, Fits
<1>15. Honoured'
  <2>1. \A k \in Tokens \cup {NoToken} : Good(k) => Good(k)'
    BY <1>1, <1>7, <1>8, TokenFacts DEF Good
  <2>2. Good(store.refresh)' /\ Good(cookie)'
    BY <1>0, <1>6, <2>1, SessionTypes DEF Honoured
  <2>3. Good(job[c].token)'
    BY <1>1, <1>7, <1>10 DEF Good
  <2>4. ASSUME NEW d \in Calls, d # c,
               job'[d].op = "refresh" \/ (job'[d].pc = "ok" /\ job'[d].op \in SignIns)
        PROVE  Good(job[d].token)'
    <3>1. Good(job[d].token) /\ job[d].token \in Tokens \cup {NoToken}
      BY <1>9, <2>4 DEF Honoured, JobsFit, Fits, Issuing
    <3> QED
      BY <1>9, <2>1, <2>4, <3>1
  <2> QED
    BY <2>2, <2>3, <2>4 DEF Honoured
<1>16. EndedIsOver'
  <2>1. ended /\ call[c].pc = "refreshing" => FALSE
    <3> SUFFICES ASSUME ended, call[c].pc = "refreshing" PROVE FALSE
      OBVIOUS
    <3>1. job[c].op = "refresh" /\ job[c].token = NoToken /\ job[c].pc = "checked"
      BY DEF JobsFit, Fits, EndedIsOver, IssueTokens
    <3> QED
      BY <3>1, TokenFacts DEF JobsFit, Fits
  <2> QED
    BY <1>6, <1>9, <2>1 DEF EndedIsOver
<1>17. LogoutDone => LogoutDone'
  BY <1>0, <1>6, <1>9 DEF LogoutDone, IssueTokens
<1>18. CalmIsOrderly'
  <2>1. \A x \in Who : SignedIn(x) => SignedIn(x)'
    BY <1>1, <1>7, <1>17 DEF SignedIn, Who
  <2>2. SignedIn(job[c].token.acct)'
    BY <1>1, <1>7, <1>10 DEF SignedIn
  <2>3. store.access \in Who /\ cookie.acct \in Who /\ \A d \in Calls : job[d].token.acct \in Who
    BY <1>0, SessionTypes, TokenFacts DEF Jobs, Who
  <2>4. ASSUME calm, NEW d \in Calls
        PROVE  /\ job'[d].op = "logout" => call[d].op = "logout" /\ call[d].pc = "waiting"
               /\ call[d].op \in {"me", "profile"} /\ call[d].pc = "waiting"
                    => job'[d].token.acct = store.access
               /\ call[d].pc = "refreshing" /\ store.access # Nobody
                    => job'[d].token.acct = store.access
               /\ job'[d].op \in Issuing /\ job'[d].pc = "ok" => SignedIn(job[d].token.acct)'
    BY <1>9, <2>1, <2>2, <2>3, <2>4 DEF CalmIsOrderly
  <2>5. calm => /\ store.user = store.access /\ store.refresh.acct = store.access
                /\ SignedIn(store.access)' /\ SignedIn(cookie.acct)'
    BY <1>6, <2>1, <2>3 DEF CalmIsOrderly
  <2> QED
    BY <1>6, <2>4, <2>5 DEF CalmIsOrderly
<1> QED
  BY <1>11, <1>12, <1>13, <1>14, <1>15, <1>16, <1>18

LEMMA ServeLogoutKeeps ==
  ASSUME SessionIInv, NEW c \in Calls, ServeLogout(c), job[c].live,
         UNCHANGED <<storeVars, loading, call, calm, ended>>,
         outs' = outs \cup {a \in Accounts : hash[a] # 0 /\ hash'[a] = 0}
  PROVE  SessionIInv'
<1> USE DEF SessionIInv
<1> DEFINE q == [job[c] EXCEPT !.pc = "ok"]
           a == job[c].token.acct
<1>0. SessionTypeOK /\ job[c] \in Jobs /\ job[c].op = "logout"
  BY SessionTypes DEF ServeLogout
<1>1. /\ q \in Jobs /\ q.pc = "ok" /\ q.op = "logout" /\ q.token = job[c].token
      /\ job' = [job EXCEPT ![c] = q]
  BY <1>0 DEF Jobs, Answer, ServeLogout
<1> HIDE DEF q, a
<1>2. /\ job' \in [Calls -> Jobs] /\ job'[c] = q
      /\ \A d \in Calls : d # c => job'[d] = job[d]
  BY <1>0, <1>1, JobTakes
<1>3. UNCHANGED <<issued, store, cookie, shown, loading, call, calm, ended>>
  BY DEF storeVars, ServeLogout
<1>4. /\ hash' \in [Accounts -> 0..MaxIssued]
      /\ \A x \in Accounts : hash'[x] = IF x = a THEN 0 ELSE hash[x]
  <2>1. hash \in [Accounts -> 0..MaxIssued] /\ hash' = [hash EXCEPT ![a] = 0] /\ 0 \in 0..MaxIssued
    BY <1>0, SessionTypes, SessionsAssumption DEF ServeLogout, a
  <2> QED
    BY <2>1
<1>5. /\ outs \subseteq outs' /\ outs' \subseteq Accounts
      /\ \A x \in Accounts : hash[x] # 0 => hash'[x] # 0 \/ x \in outs'
  BY <1>0, <1>4, SessionTypes
<1>6. \A d \in Calls : /\ job'[d].op = job[d].op /\ job'[d].token = job[d].token
                       /\ d # c => job'[d] = job[d]
  BY <1>0, <1>1, <1>2
<1>7. job'[c].pc = "ok"
  BY <1>1, <1>2
<1>8. "logout" \notin Issuing
  BY DEF Issuing, SignIns
<1>9. SessionTypeOK'
  <2> HIDE DEF SessionIInv
  <2> QED
    BY <1>0, <1>2, <1>3, <1>4, <1>5 DEF SessionTypeOK, Jobs
<1>10. LoadingIsAsked'
  BY <1>3 DEF LoadingIsAsked
<1>11. RefreshesSideBySide'
  BY <1>5, <1>6, <1>7 DEF RefreshesSideBySide
<1>12. JobsFit'
  BY <1>0, <1>3, <1>6, <1>7, <1>8 DEF JobsFit, Fits
<1>13. Honoured'
  <2>1. \A k \in Tokens \cup {NoToken} : (k # NoToken => hash[k.acct] # 0 \/ k.acct \in outs)
                                       => (k # NoToken => hash'[k.acct] # 0 \/ k.acct \in outs')
    BY <1>5, TokenFacts
  <2>2. Good(store.refresh)' /\ Good(cookie)'
    BY <1>0, <1>3, <2>1, SessionTypes DEF Honoured, Good
  <2>3. ASSUME NEW d \in Calls,
               job'[d].op = "refresh" \/ (job'[d].pc = "ok" /\ job'[d].op \in SignIns)
        PROVE  Good(job[d].token)'
    <3>1. d # c
      BY <1>0, <1>6, <2>3 DEF SignIns
    <3>2. Good(job[d].token) /\ job[d].token \in Tokens \cup {NoToken}
      BY <1>6, <2>3, <3>1 DEF Honoured, JobsFit, Fits, Issuing
    <3> QED
      BY <1>6, <2>1, <3>2 DEF Good
  <2> QED
    BY <2>2, <2>3 DEF Honoured
<1>14. EndedIsOver'
  BY <1>3, <1>6 DEF EndedIsOver
<1>15. calm => LogoutDone'
  BY <1>0, <1>3, <1>6, <1>7 DEF CalmIsOrderly, LogoutDone
<1>16. CalmIsOrderly'
  BY <1>0, <1>3, <1>6, <1>7, <1>8, <1>15 DEF CalmIsOrderly, SignedIn
<1> QED
  BY <1>9, <1>10, <1>11, <1>12, <1>13, <1>14, <1>16

LEMMA ServeKeeps ==
  ASSUME SessionIInv, NEW c \in Calls, Serve(c)
  PROVE  SessionIInv'
<1>0. SessionTypeOK /\ job[c] \in Jobs
  BY SessionTypes DEF SessionIInv
<1>1. /\ UNCHANGED <<storeVars, loading, call, calm, ended>>
      /\ outs' = outs \cup {a \in Accounts : hash[a] # 0 /\ hash'[a] = 0}
      /\ hash' = hash => outs' = outs
  BY DEF Serve
<1>2. "refresh" \in Issuing /\ SignIns \subseteq Issuing /\ "read" \notin Issuing /\ "logout" \notin Issuing
      /\ "refresh" \notin SignIns
  BY DEF Issuing, SignIns
<1>3. CASE ServeRead(c)
  BY <1>1, <1>2, <1>3, AnswerKeeps DEF ServeRead
<1>4. CASE CheckSignIn(c)
  <2>1. PICK pc \in {"checked", "denied", "captcha"} : Answer(c, pc)
    BY <1>4 DEF CheckSignIn
  <2> QED
    BY <1>1, <1>2, <1>4, <2>1, AnswerKeeps DEF CheckSignIn
<1>5. CASE CheckRefresh(c)
  <2> DEFINE token == job[c].token
             pc == IF /\ token # NoToken
                      /\ hash[token.acct] # 0
                      /\ Compared(token) = Compared(Stored(token.acct))
                   THEN "checked" ELSE "denied"
  <2>1. token \in Tokens \cup {NoToken} /\ Good(token)
    BY <1>5 DEF SessionIInv, JobsFit, Fits, Honoured, CheckRefresh
  <2>2. Compared(token) = Compared(Stored(token.acct))
    BY DEF Compared, Stored
  <2>3. job[c].op = "refresh" /\ job[c].pc = "arrived"
    BY <1>5 DEF CheckRefresh
  <2>4. pc = "checked" => token \in Tokens
    BY <2>1
  <2>5. pc = "denied" /\ token # NoToken => token.acct \in outs
    BY <2>1, <2>2 DEF Good
  <2>6. UNCHANGED <<issued, hash>>
    BY <1>5 DEF CheckRefresh
  <2>7. Answer(c, "error") \/ Answer(c, pc)
    BY <1>5 DEF CheckRefresh
  <2>8. pc \in {"checked", "denied"}
    OBVIOUS
  <2> HIDE DEF pc
  <2>9. CASE Answer(c, "error")
    BY <1>1, <1>2, <2>3, <2>6, <2>9, AnswerKeeps
  <2>10. CASE Answer(c, pc)
    BY <1>1, <1>2, <2>3, <2>4, <2>5, <2>6, <2>8, <2>10, AnswerKeeps
  <2> QED
    BY <2>7, <2>9, <2>10
<1>6. CASE IssueTokens(c)
  BY <1>1, <1>6, IssueTokensKeeps
<1>7. CASE ServeLogout(c) /\ job[c].live
  BY <1>1, <1>7, ServeLogoutKeeps
<1>8. CASE ServeLogout(c) /\ ~job[c].live
  BY <1>1, <1>2, <1>8, AnswerKeeps DEF ServeLogout
<1>9. CASE ServerFails(c)
  BY <1>1, <1>2, <1>9, AnswerKeeps DEF ServerFails
<1> QED
  BY <1>3, <1>4, <1>5, <1>6, <1>7, <1>8, <1>9 DEF Serve, ServerStep

(* A step of the browser: one call and its job take new values that fit,   *)
(* and what the browser holds is good.                                     *)
LEMMA BrowserStep ==
  ASSUME SessionIInv, NEW c \in Calls, NEW r \in CallRecords, NEW j \in Jobs,
         call' = [call EXCEPT ![c] = r], job' = [job EXCEPT ![c] = j],
         UNCHANGED <<issued, hash, outs>>,
         store' \in [access : Who, live : BOOLEAN, refresh : Tokens \cup {NoToken}, user : Who],
         cookie' \in Tokens \cup {NoToken},
         shown' \in [Tabs -> Who], loading' \in [Tabs -> BOOLEAN], calm' \in BOOLEAN, ended' \in BOOLEAN,
         Fits(r, j),
         j.op = "refresh" /\ j.pc = "denied" /\ j.token # NoToken => j.token.acct \in outs,
         j.op = "refresh" \/ (j.pc = "ok" /\ j.op \in SignIns) => Good(j.token),
         Good(store'.refresh), Good(cookie'),
         LoadingIsAsked', EndedIsOver', CalmIsOrderly'
  PROVE  SessionIInv'
<1>0. SessionTypeOK
  BY DEF SessionIInv
<1>1. /\ job' \in [Calls -> Jobs] /\ job'[c] = j
      /\ \A d \in Calls : d # c => job'[d] = job[d]
  BY <1>0, JobTakes
<1>2. /\ call' \in [Calls -> CallRecords] /\ call'[c] = r
      /\ \A d \in Calls : d # c => call'[d] = call[d]
  BY <1>0, CallTakes
<1>3. SessionTypeOK'
  BY <1>0, <1>1, <1>2 DEF SessionTypeOK, Jobs, CallRecords
<1>4. RefreshesSideBySide'
  BY <1>1 DEF RefreshesSideBySide, SessionIInv
<1>5. JobsFit'
  <2>1. ASSUME NEW d \in Calls PROVE Fits(call'[d], job'[d])
    BY <1>1, <1>2, <2>1 DEF SessionIInv, JobsFit
  <2> QED
    BY <2>1 DEF JobsFit, Fits
<1>6. Honoured'
  <2>1. \A k : Good(k) <=> (k # NoToken => hash'[k.acct] # 0 \/ k.acct \in outs')
    BY DEF Good
  <2>2. ASSUME NEW d \in Calls,
               job'[d].op = "refresh" \/ (job'[d].pc = "ok" /\ job'[d].op \in SignIns)
        PROVE  Good(job'[d].token)
    BY <1>1, <2>2 DEF SessionIInv, Honoured
  <2> QED
    BY <2>1, <2>2 DEF Honoured, Good
<1> QED
  BY <1>3, <1>4, <1>5, <1>6 DEF SessionIInv

(* Pages that wait to learn who is signed in go on waiting for the same.   *)
LEMMA StillAsked ==
  ASSUME SessionIInv, NEW c \in Calls, NEW r \in CallRecords,
         call' = [call EXCEPT ![c] = r],
         \A t \in Tabs : loading'[t] => loading[t],
         \/ call[c].pc = "idle"
         \/ call[c].op # "me"
         \/ r.op = call[c].op /\ r.tab = call[c].tab /\ r.pc # "idle"
         \/ \A t \in Tabs : t = call[c].tab => ~loading'[t]
  PROVE  LoadingIsAsked'
<1>1. /\ call'[c] = r /\ \A d \in Calls : d # c => call'[d] = call[d]
  BY CallTakes DEF SessionIInv
<1> SUFFICES ASSUME NEW t \in Tabs, loading'[t]
             PROVE  \E d \in Calls : call'[d].op = "me" /\ call'[d].tab = t /\ call'[d].pc # "idle"
  BY DEF LoadingIsAsked
<1>2. PICK d \in Calls : call[d].op = "me" /\ call[d].tab = t /\ call[d].pc # "idle"
  BY DEF SessionIInv, LoadingIsAsked
<1>3. CASE d # c
  BY <1>1, <1>2, <1>3
<1>4. CASE d = c
  BY <1>1, <1>2, <1>4
<1> QED
  BY <1>3, <1>4

(* Calm stays orderly when the session stays as it is.                     *)
LEMMA CalmStays ==
  ASSUME SessionIInv, NEW c \in Calls, NEW r \in CallRecords, NEW j \in Jobs,
         call' = [call EXCEPT ![c] = r], job' = [job EXCEPT ![c] = j],
         UNCHANGED <<hash, cookie>>, calm' => calm,
         store'.access = store.access, store'.refresh = store.refresh,
         calm' => store'.user = store'.access,
         calm' => ~(call[c].pc = "waiting" /\ job[c].op = "logout" /\ job[c].pc = "ok"),
         calm' => /\ j.op = "logout" => r.op = "logout" /\ r.pc = "waiting"
                  /\ r.op \in {"me", "profile"} /\ r.pc = "waiting" => j.token.acct = store.access
                  /\ r.pc = "refreshing" /\ store.access # Nobody => j.token.acct = store.access
                  /\ j.op \in Issuing /\ j.pc = "ok" => job[c].op \in Issuing /\ job[c].pc = "ok"
                                                        /\ j.token = job[c].token
  PROVE  CalmIsOrderly'
<1>1. /\ job'[c] = j /\ \A d \in Calls : d # c => job'[d] = job[d]
      /\ call'[c] = r /\ \A d \in Calls : d # c => call'[d] = call[d]
  BY CallTakes, JobTakes DEF SessionIInv
<1> SUFFICES ASSUME calm' PROVE CalmIsOrderly'
  BY DEF CalmIsOrderly
<1>2. LogoutDone => LogoutDone'
  BY <1>1 DEF LogoutDone
<1>3. \A a : (a # Nobody /\ hash[a] = 0 => LogoutDone)
             => (a # Nobody /\ hash'[a] = 0 => LogoutDone')
  BY <1>2
<1>4. calm /\ CalmIsOrderly
  BY DEF SessionIInv
<1>5. ASSUME NEW d \in Calls
      PROVE  /\ job'[d].op = "logout" => call'[d].op = "logout" /\ call'[d].pc = "waiting"
             /\ call'[d].op \in {"me", "profile"} /\ call'[d].pc = "waiting"
                  => job'[d].token.acct = store'.access
             /\ call'[d].pc = "refreshing" /\ store'.access # Nobody
                  => job'[d].token.acct = store'.access
             /\ job'[d].op \in Issuing /\ job'[d].pc = "ok"
                  => SignedIn(job[d].token.acct)'
  <2>1. CASE d = c
    BY <1>1, <1>3, <1>4, <2>1 DEF CalmIsOrderly, SignedIn
  <2>2. CASE d # c
    BY <1>1, <1>3, <1>4, <2>2 DEF CalmIsOrderly, SignedIn
  <2> QED
    BY <2>1, <2>2
<1>6. /\ store'.user = store'.access /\ store'.refresh.acct = store'.access
      /\ SignedIn(store.access)' /\ SignedIn(cookie.acct)'
  BY <1>3, <1>4 DEF CalmIsOrderly, SignedIn
<1> QED
  BY <1>5, <1>6 DEF CalmIsOrderly

(* Calm stays orderly when a session begins or ends with no other call.    *)
LEMMA CalmAlone ==
  ASSUME SessionIInv, NEW c \in Calls, NEW r \in CallRecords, NEW j \in Jobs,
         call' = [call EXCEPT ![c] = r], job' = [job EXCEPT ![c] = j],
         UNCHANGED hash, calm' => calm /\ Alone(c),
         calm' => /\ store'.user = store'.access /\ store'.refresh.acct = store'.access
                  /\ \A a \in {store'.access, cookie'.acct} : a # Nobody => hash[a] # 0
                  /\ j.op = "logout" => r.op = "logout" /\ r.pc = "waiting"
                  /\ r.op \in {"me", "profile"} /\ r.pc = "waiting" => j.token.acct = store'.access
                  /\ r.pc # "refreshing"
                  /\ j.op \in Issuing /\ j.pc = "ok" /\ j.token.acct # Nobody => hash[j.token.acct] # 0
  PROVE  CalmIsOrderly'
<1>1. /\ job'[c] = j /\ \A d \in Calls : d # c => job'[d] = job[d]
      /\ call'[c] = r /\ \A d \in Calls : d # c => call'[d] = call[d]
  BY CallTakes, JobTakes DEF SessionIInv
<1> SUFFICES ASSUME calm' PROVE CalmIsOrderly'
  BY DEF CalmIsOrderly
<1>2. \A d \in Calls : d # c => call[d].pc = "idle" /\ job[d].pc = "none" /\ job[d].op = "read"
  BY DEF Alone, Busy, SessionIInv, JobsFit, Fits
<1>3. ASSUME NEW d \in Calls
      PROVE  /\ job'[d].op = "logout" => call'[d].op = "logout" /\ call'[d].pc = "waiting"
             /\ call'[d].op \in {"me", "profile"} /\ call'[d].pc = "waiting"
                  => job'[d].token.acct = store'.access
             /\ call'[d].pc = "refreshing" /\ store'.access # Nobody
                  => job'[d].token.acct = store'.access
             /\ job'[d].op \in Issuing /\ job'[d].pc = "ok"
                  => SignedIn(job[d].token.acct)'
  BY <1>1, <1>2, <1>3 DEF SignedIn
<1>4. /\ store'.user = store'.access /\ store'.refresh.acct = store'.access
      /\ SignedIn(store.access)' /\ SignedIn(cookie.acct)'
  BY DEF SignedIn
<1> QED
  BY <1>3, <1>4 DEF CalmIsOrderly

(* With no other call under way, nobody's logout is being answered.        *)
LEMMA AloneSigned ==
  ASSUME SessionIInv, calm, NEW c \in Calls, Alone(c),
         call[c].op # "logout" \/ call[c].pc # "waiting"
  PROVE  /\ \A a \in {store.access, cookie.acct} : a # Nobody => hash[a] # 0
         /\ job[c].op \in Issuing /\ job[c].pc = "ok" /\ job[c].token.acct # Nobody
              => hash[job[c].token.acct] # 0
<1>1. ~LogoutDone
  BY DEF LogoutDone, Alone, Busy
<1> QED
  BY <1>1 DEF SessionIInv, CalmIsOrderly, SignedIn

LEMMA StoreFacts ==
  ASSUME SessionTypeOK
  PROVE  /\ store \in [access : Who, live : BOOLEAN, refresh : Tokens \cup {NoToken}, user : Who]
         /\ store.access \in Who /\ store.user \in Who /\ store.live \in BOOLEAN
         /\ store.refresh \in Tokens \cup {NoToken} /\ cookie \in Tokens \cup {NoToken}
         /\ \A c \in Calls : /\ job[c] \in Jobs /\ call[c] \in CallRecords
                             /\ job[c].token.acct \in Who
         /\ \A c \in Calls : /\ call = [call EXCEPT ![c] = call[c]]
                             /\ job = [job EXCEPT ![c] = job[c]]
         /\ shown \in [Tabs -> Who] /\ loading \in [Tabs -> BOOLEAN]
         /\ calm \in BOOLEAN /\ ended \in BOOLEAN
BY SessionTypes DEF Jobs, Who

(* What a new attempt puts on its way.                                     *)
LEMMA AttemptFacts ==
  ASSUME SessionTypeOK, NEW c \in Calls, NEW t \in Tabs \cup {Nobody},
         NEW op \in SignIns \cup {"api", "me", "profile", "logout"},
         NEW a \in Who, NEW live \in BOOLEAN, NEW retry \in BOOLEAN,
         op \in SignIns => a \in Accounts
  PROVE  LET r == [op |-> op, pc |-> "waiting", tab |-> t, retry |-> retry]
             j == [op |-> JobOf(op), pc |-> "arrived",
                   token |-> [acct |-> a, n |-> 0], live |-> live]
         IN /\ r \in CallRecords /\ j \in Jobs /\ Fits(r, j) /\ j.op # "refresh"
            /\ r.op = op /\ r.pc = "waiting" /\ r.tab = t
            /\ j.op = JobOf(op) /\ j.pc = "arrived" /\ j.token.acct = a
<1> DEFINE r == [op |-> op, pc |-> "waiting", tab |-> t, retry |-> retry]
           j == [op |-> JobOf(op), pc |-> "arrived",
                 token |-> [acct |-> a, n |-> 0], live |-> live]
<1>1. JobOf(op) \in JobOps /\ JobOf(op) # "refresh" /\ (JobOf(op) \in SignIns => op \in SignIns)
  BY DEF JobOf, JobOps, SignIns
<1>2. r \in CallRecords
  BY DEF CallRecords
<1>3. [acct |-> a, n |-> 0] \in [acct : Who, n : 0..MaxIssued]
  BY SessionsAssumption
<1>4. j \in Jobs
  BY <1>1, <1>3 DEF Jobs
<1>5. Fits(r, j)
  BY <1>1 DEF Fits
<1> QED
  BY <1>1, <1>2, <1>4, <1>5

LEMMA BeginKeeps ==
  ASSUME SessionIInv, NEW c \in Calls, NEW t \in Tabs \cup {Nobody},
         NEW op \in SignIns \cup {"api", "me", "profile", "logout"},
         NEW a \in Who, NEW live \in BOOLEAN, NEW retry \in BOOLEAN,
         Attempt(c, t, op, a, live, retry),
         op \in SignIns => a \in Accounts,
         op \in {"me", "profile"} => a = store.access,
         \/ Idling(c)
         \/ call[c].op \in SignIns /\ op \in SignIns /\ job[c].op # "logout",
         UNCHANGED <<issued, hash, storeVars, loading, watched>>
  PROVE  SessionIInv'
<1> DEFINE r == [op |-> op, pc |-> "waiting", tab |-> t, retry |-> retry]
           j == [op |-> JobOf(op), pc |-> "arrived",
                 token |-> [acct |-> a, n |-> 0], live |-> live]
<1>0. SessionTypeOK
  BY DEF SessionIInv
<1>1. call' = [call EXCEPT ![c] = r] /\ job' = [job EXCEPT ![c] = j]
  BY DEF Attempt, JobOf
<1>2. /\ r \in CallRecords /\ j \in Jobs /\ Fits(r, j) /\ j.op # "refresh"
      /\ r.op = op /\ r.pc = "waiting" /\ r.tab = t
      /\ j.op = JobOf(op) /\ j.pc = "arrived" /\ j.token.acct = a
  BY <1>0, AttemptFacts
<1> HIDE DEF r, j
<1>3. UNCHANGED <<issued, hash, outs, store, cookie, shown, loading, calm, ended>>
  BY DEF storeVars, watched
<1>4. LoadingIsAsked'
  BY <1>1, <1>2, <1>3, StillAsked DEF Idling, SignIns
<1>5. EndedIsOver'
  <2>1. \A d \in Calls : /\ d # c => call'[d] = call[d] /\ job'[d] = job[d]
                         /\ call'[c].pc # "refreshing"
    BY <1>0, <1>1, <1>2, CallTakes, JobTakes
  <2> QED
    BY <1>3, <2>1 DEF SessionIInv, EndedIsOver
<1>6. CalmIsOrderly'
  <2>1. JobOf(op) = "logout" => op = "logout"
    BY DEF JobOf, SignIns
  <2>2. calm => store.user = store.access
    BY DEF SessionIInv, CalmIsOrderly
  <2>3. call[c].op = "logout" => call[c].pc # "waiting"
    BY DEF Idling, SignIns
  <2>4. ~(call[c].pc = "waiting" /\ job[c].op = "logout" /\ job[c].pc = "ok")
    BY DEF Idling
  <2> QED
    BY <1>1, <1>2, <1>3, <2>1, <2>2, <2>4, CalmStays
<1>7. Good(store.refresh) /\ Good(cookie)
  BY DEF SessionIInv, Honoured
<1> QED
  BY <1>0, <1>1, <1>2, <1>3, <1>4, <1>5, <1>6, <1>7, StoreFacts, BrowserStep

LEMMA RequestKeeps ==
  ASSUME SessionIInv, NEW c \in Calls, NEW t \in Tabs, NEW op \in {"api", "profile", "logout"},
         Request(c, t, op)
  PROVE  SessionIInv'
<1>1. store.access \in Who /\ store.live \in BOOLEAN /\ op \notin SignIns
  BY StoreFacts DEF SessionIInv, SignIns
<1> QED
  BY <1>1, BeginKeeps DEF Request

LEMMA SignInKeeps ==
  ASSUME SessionIInv, NEW c \in Calls, NEW t \in Tabs, NEW a \in Accounts, NEW op \in SignIns,
         SignIn(c, t, op, a)
  PROVE  SessionIInv'
<1>1. a \in Who /\ op \notin {"me", "profile"}
  BY DEF Who, SignIns
<1> QED
  BY <1>1, BeginKeeps DEF SignIn

LEMMA AskAgainKeeps ==
  ASSUME SessionIInv, NEW c \in Calls, AskAgain(c)
  PROVE  SessionIInv'
<1>1. job[c].op \in SignIns /\ job[c].token.acct \in Accounts /\ job[c].op = JobOf(call[c].op)
  BY DEF AskAgain, MayAskAgain, Answered, SessionIInv, JobsFit, Fits
<1>2. call[c].op \in SignIns
  BY <1>1 DEF JobOf, SignIns
<1>3. call[c] \in CallRecords /\ job[c].token.acct \in Who
  BY StoreFacts DEF SessionIInv
<1>4. /\ call[c].tab \in Tabs \cup {Nobody} /\ call[c].op \notin {"me", "profile"}
      /\ job[c].op # "logout"
  BY <1>1, <1>2, <1>3 DEF CallRecords, SignIns
<1> QED
  BY <1>1, <1>2, <1>3, <1>4, BeginKeeps DEF AskAgain

(* The end of a call and of its job.                                       *)
LEMMA EndFacts ==
  /\ Idle \in CallRecords /\ NoJob \in Jobs /\ Fits(Idle, NoJob)
  /\ Idle.pc = "idle" /\ NoJob.op = "read" /\ NoJob.pc = "none"
BY TokenFacts DEF Idle, NoJob, Fits, SignIns, Issuing

LEMMA ForgetKeeps ==
  ASSUME SessionIInv, NEW c \in Calls, Forget(c)
  PROVE  SessionIInv'
<1>0. SessionTypeOK
  BY DEF SessionIInv
<1> DEFINE r == call[c]
<1>1. call' = [call EXCEPT ![c] = r] /\ job' = [job EXCEPT ![c] = NoJob] /\ r \in CallRecords
  BY <1>0, StoreFacts DEF Forget
<1>2. r.pc = "idle" /\ Fits(r, NoJob)
  BY EndFacts DEF Forget, Fits, SignIns, Issuing
<1>3. UNCHANGED <<issued, hash, outs, store, cookie, shown, loading, calm, ended>>
  BY DEF storeVars, watched, Forget
<1> HIDE DEF r
<1>4. LoadingIsAsked'
  BY <1>1, <1>3, StillAsked DEF Forget
<1>5. EndedIsOver'
  <2>1. \A d \in Calls : /\ d # c => call'[d] = call[d] /\ job'[d] = job[d]
                         /\ call'[c].pc # "refreshing"
    BY <1>0, <1>1, <1>2, CallTakes, JobTakes, EndFacts
  <2> QED
    BY <1>3, <2>1 DEF SessionIInv, EndedIsOver
<1>6. CalmIsOrderly'
  <2>1. calm => store.user = store.access
    BY DEF SessionIInv, CalmIsOrderly
  <2> QED
    BY <1>1, <1>2, <1>3, <2>1, CalmStays, EndFacts DEF Forget
<1>7. Good(store.refresh) /\ Good(cookie)
  BY DEF SessionIInv, Honoured
<1> QED
  BY <1>0, <1>1, <1>2, <1>3, <1>4, <1>5, <1>6, <1>7, StoreFacts, BrowserStep, EndFacts

(* A call ends, and what the browser holds of the session stays, or all of *)
(* it changes with no other call under way.                                *)
LEMMA EndKeeps ==
  ASSUME SessionIInv, NEW c \in Calls, End(c), call[c].pc # "idle",
         UNCHANGED <<issued, hash, outs>>,
         store' \in [access : Who, live : BOOLEAN, refresh : Tokens \cup {NoToken}, user : Who],
         cookie' \in Tokens \cup {NoToken}, Good(store'.refresh), Good(cookie'),
         shown' \in [Tabs -> Who], loading' \in [Tabs -> BOOLEAN], calm' \in BOOLEAN, ended' \in BOOLEAN,
         \A t \in Tabs : loading'[t] => loading[t],
         call[c].op = "me" => \A t \in Tabs : t = call[c].tab => ~loading'[t],
         ended' => /\ store'.access = Nobody /\ store'.refresh = NoToken /\ cookie' = NoToken
                   /\ ended \/ ~RefreshUnderWay(c),
         \/ /\ calm' => calm /\ ~(call[c].op = "logout" /\ call[c].pc = "waiting")
            /\ store'.access = store.access /\ store'.refresh = store.refresh /\ cookie' = cookie
            /\ calm' => store'.user = store'.access
         \/ calm' => /\ calm /\ Alone(c)
                     /\ store'.user = store'.access /\ store'.refresh.acct = store'.access
                     /\ \A a \in {store'.access, cookie'.acct} : a # Nobody => hash[a] # 0
  PROVE  SessionIInv'
<1>0. SessionTypeOK
  BY DEF SessionIInv
<1>1. call' = [call EXCEPT ![c] = Idle] /\ job' = [job EXCEPT ![c] = NoJob]
  BY DEF End
<1>2. LoadingIsAsked'
  BY <1>1, StillAsked, EndFacts
<1>3. EndedIsOver'
  <2>1. \A d \in Calls : /\ d # c => call'[d] = call[d] /\ job'[d] = job[d]
                         /\ call'[c].pc # "refreshing"
    BY <1>0, <1>1, CallTakes, JobTakes, EndFacts
  <2> QED
    BY <2>1 DEF SessionIInv, EndedIsOver, RefreshUnderWay
<1>4. CalmIsOrderly'
  <2>1. "read" \notin Issuing
    BY DEF Issuing, SignIns
  <2>2. CASE /\ calm' => calm /\ ~(call[c].op = "logout" /\ call[c].pc = "waiting")
             /\ store'.access = store.access /\ store'.refresh = store.refresh /\ cookie' = cookie
             /\ calm' => store'.user = store'.access
    <3>1. calm' => ~(call[c].pc = "waiting" /\ job[c].op = "logout" /\ job[c].pc = "ok")
      BY <2>2 DEF SessionIInv, CalmIsOrderly
    <3> QED
      BY <1>1, <2>1, <2>2, <3>1, CalmStays, EndFacts
  <2>3. CASE calm' => /\ calm /\ Alone(c)
                      /\ store'.user = store'.access /\ store'.refresh.acct = store'.access
                      /\ \A a \in {store'.access, cookie'.acct} : a # Nobody => hash[a] # 0
    BY <1>1, <2>1, <2>3, CalmAlone, EndFacts
  <2> QED
    BY <2>2, <2>3
<1>5. NoJob.op # "refresh" /\ NoJob.op \notin SignIns
  BY EndFacts DEF SignIns
<1> QED
  BY <1>1, <1>2, <1>3, <1>4, <1>5, BrowserStep, EndFacts

LEMMA TakeDataKeeps ==
  ASSUME SessionIInv, NEW c \in Calls, TakeData(c)
  PROVE  SessionIInv'
<1>1. /\ End(c) /\ call[c].pc # "idle" /\ call[c].op = "api"
      /\ UNCHANGED <<issued, hash, outs, store, cookie, shown, loading, calm, ended>>
  BY DEF TakeData, Answered, storeVars, watched
<1>2. /\ SessionTypeOK /\ Good(store.refresh) /\ Good(cookie)
      /\ calm => store.user = store.access
      /\ ended => store.access = Nobody /\ store.refresh = NoToken /\ cookie = NoToken
  BY DEF SessionIInv, Honoured, CalmIsOrderly, EndedIsOver
<1> QED
  BY <1>1, <1>2, StoreFacts, EndKeeps

LEMMA TakeUserKeeps ==
  ASSUME SessionIInv, NEW c \in Calls, TakeUser(c)
  PROVE  SessionIInv'
<1> DEFINE a == job[c].token.acct
           t == call[c].tab
<1>0. SessionTypeOK
  BY DEF SessionIInv
<1>1. /\ End(c) /\ call[c].pc = "waiting" /\ call[c].op \in {"me", "profile"} /\ a \in Who
      /\ UNCHANGED <<issued, hash, outs, cookie, calm, ended>>
      /\ store' = [store EXCEPT !.user = a] /\ shown' = [shown EXCEPT ![t] = a]
      /\ loading' = IF call[c].op = "me" THEN [loading EXCEPT ![t] = FALSE] ELSE loading
  BY <1>0, StoreFacts DEF TakeUser, Answered, watched, UpdateStoredUser, Show
<1>2. /\ Good(store.refresh) /\ Good(cookie)
      /\ calm => a = store.access
      /\ ended => store.access = Nobody /\ store.refresh = NoToken /\ cookie = NoToken
  BY <1>1 DEF SessionIInv, Honoured, CalmIsOrderly, EndedIsOver
<1> HIDE DEF a, t
<1>3. /\ store' \in [access : Who, live : BOOLEAN, refresh : Tokens \cup {NoToken}, user : Who]
      /\ store'.access = store.access /\ store'.refresh = store.refresh /\ store'.user = a
  BY <1>0, <1>1, StoreFacts
<1>4. /\ shown' \in [Tabs -> Who] /\ loading' \in [Tabs -> BOOLEAN]
      /\ \A x \in Tabs : loading'[x] => loading[x]
      /\ call[c].op = "me" => \A x \in Tabs : x = t => ~loading'[x]
  BY <1>0, <1>1, StoreFacts
<1>5. cookie' \in Tokens \cup {NoToken} /\ calm' \in BOOLEAN /\ ended' \in BOOLEAN
  BY <1>0, <1>1, StoreFacts
<1> QED
  BY <1>1, <1>2, <1>3, <1>4, <1>5, EndKeeps DEF t

LEMMA TakeSessionKeeps ==
  ASSUME SessionIInv, NEW c \in Calls, TakeSession(c)
  PROVE  SessionIInv'
<1> DEFINE k == job[c].token
           t == call[c].tab
<1>0. SessionTypeOK
  BY DEF SessionIInv
<1>1. /\ End(c) /\ call[c].pc = "waiting" /\ call[c].op \in SignIns /\ job[c].pc = "ok"
      /\ UNCHANGED <<issued, hash, outs, loading>> /\ ~ended' /\ ended' \in BOOLEAN
      /\ store' = [access |-> k.acct, live |-> TRUE, refresh |-> k, user |-> k.acct]
      /\ shown' = [shown EXCEPT ![t] = k.acct]
      /\ cookie' \in {k, cookie} /\ calm' = (calm /\ Alone(c))
  BY DEF TakeSession, Answered, SetAuth, Show
<1>2. job[c].op \in SignIns /\ k \in Tokens /\ k.acct \in Accounts /\ Good(k)
  BY <1>1, TokenFacts DEF SessionIInv, JobsFit, Fits, JobOf, Issuing, Honoured
<1>3. Good(cookie)
  BY DEF SessionIInv, Honoured
<1>4. call[c].op \notin {"me", "logout"}
  BY <1>1 DEF SignIns
<1>5. calm' => \A a \in {k.acct, cookie.acct} : a # Nobody => hash[a] # 0
  BY <1>1, <1>2, <1>4, AloneSigned DEF Issuing
<1> HIDE DEF k, t
<1>6. /\ store' \in [access : Who, live : BOOLEAN, refresh : Tokens \cup {NoToken}, user : Who]
      /\ store'.access = k.acct /\ store'.refresh = k /\ store'.user = k.acct
  BY <1>1, <1>2 DEF Who
<1>7. shown' \in [Tabs -> Who]
  BY <1>0, <1>1, <1>2, StoreFacts DEF Who
<1>8. cookie' \in Tokens \cup {NoToken} /\ calm' \in BOOLEAN /\ loading' \in [Tabs -> BOOLEAN]
      /\ Good(cookie') /\ Good(store'.refresh)
  BY <1>0, <1>1, <1>2, <1>3, <1>6, StoreFacts
<1>9. calm' => \A a \in {store'.access, cookie'.acct} : a # Nobody => hash[a] # 0
  BY <1>1, <1>5, <1>6
<1> QED
  BY <1>1, <1>4, <1>6, <1>7, <1>8, <1>9, EndKeeps

LEMMA ClearFacts ==
  ASSUME SessionTypeOK, NEW t, ClearAuth(t)
  PROVE  /\ store' \in [access : Who, live : BOOLEAN, refresh : Tokens \cup {NoToken}, user : Who]
         /\ store'.access = Nobody /\ store'.refresh = NoToken /\ store'.user = Nobody
         /\ store'.refresh.acct = Nobody /\ Good(store'.refresh)
         /\ shown' \in [Tabs -> Who]
<1>1. store' = Empty /\ shown' = [shown EXCEPT ![t] = Nobody] /\ Nobody \in Who
  BY DEF ClearAuth, Show, Who
<1>2. shown' \in [Tabs -> Who]
  BY <1>1, StoreFacts
<1> QED
  BY <1>1, <1>2, TokenFacts DEF Empty, Good

LEMMA TakeLogoutKeeps ==
  ASSUME SessionIInv, NEW c \in Calls, TakeLogout(c)
  PROVE  SessionIInv'
<1>0. SessionTypeOK
  BY DEF SessionIInv
<1>1. /\ End(c) /\ call[c].pc = "waiting" /\ call[c].op = "logout" /\ ClearAuth(call[c].tab)
      /\ UNCHANGED <<issued, hash, outs, loading>> /\ cookie' = NoToken
      /\ calm' = (calm /\ Alone(c)) /\ ended' = ~RefreshUnderWay(c)
  BY DEF TakeLogout, Answered
<1>2. Good(cookie') /\ cookie'.acct = Nobody
  BY <1>1, TokenFacts DEF Good
<1>3. calm' \in BOOLEAN /\ ended' \in BOOLEAN /\ loading' \in [Tabs -> BOOLEAN]
  BY <1>0, <1>1, StoreFacts
<1>4. /\ store' \in [access : Who, live : BOOLEAN, refresh : Tokens \cup {NoToken}, user : Who]
      /\ store'.access = Nobody /\ store'.refresh = NoToken /\ store'.user = Nobody
      /\ store'.refresh.acct = Nobody /\ Good(store'.refresh)
      /\ shown' \in [Tabs -> Who]
  BY <1>0, <1>1, ClearFacts
<1> QED
  BY <1>1, <1>2, <1>3, <1>4, EndKeeps

(* What a failed call leaves behind.                                       *)
SessionAsItWas(c) ==
  /\ call[c].op \notin {"me", "logout"}
  /\ UNCHANGED <<store, shown, loading, calm, ended>>

SessionCleared(c) ==
  /\ store'.access = Nobody /\ store'.refresh = NoToken /\ store'.user = Nobody
  /\ store'.refresh.acct = Nobody
  /\ calm' => calm /\ Alone(c) /\ call[c].op = "me"

LEMMA FailureFacts ==
  ASSUME SessionIInv, NEW c \in Calls, AfterFailure(c)
  PROVE  /\ store' \in [access : Who, live : BOOLEAN, refresh : Tokens \cup {NoToken}, user : Who]
         /\ Good(store'.refresh)
         /\ shown' \in [Tabs -> Who] /\ loading' \in [Tabs -> BOOLEAN]
         /\ calm' \in BOOLEAN /\ ended' \in BOOLEAN
         /\ \A t \in Tabs : loading'[t] => loading[t]
         /\ call[c].op = "me" => \A t \in Tabs : t = call[c].tab => ~loading'[t]
         /\ ended' => ended /\ store'.access = Nobody /\ store'.refresh = NoToken
         /\ SessionAsItWas(c) \/ SessionCleared(c)
<1> DEFINE t == call[c].tab
<1>0. SessionTypeOK
  BY DEF SessionIInv
<1>1. CASE call[c].op = "me"
  <2>1. /\ ClearAuth(t) /\ loading' = [loading EXCEPT ![t] = FALSE]
        /\ calm' = (calm /\ Alone(c)) /\ ended' = ended
    BY <1>1 DEF AfterFailure
  <2> HIDE DEF t
  <2>2. /\ store' \in [access : Who, live : BOOLEAN, refresh : Tokens \cup {NoToken}, user : Who]
        /\ store'.access = Nobody /\ store'.refresh = NoToken /\ store'.user = Nobody
        /\ store'.refresh.acct = Nobody /\ Good(store'.refresh)
        /\ shown' \in [Tabs -> Who]
    BY <1>0, <2>1, ClearFacts
  <2>3. /\ loading' \in [Tabs -> BOOLEAN] /\ \A x \in Tabs : loading'[x] => loading[x]
        /\ \A x \in Tabs : x = t => ~loading'[x]
    BY <1>0, <2>1, StoreFacts
  <2>4. calm' \in BOOLEAN /\ ended' \in BOOLEAN
    BY <1>0, <2>1, StoreFacts
  <2> QED
    BY <1>1, <2>1, <2>2, <2>3, <2>4 DEF t, SessionCleared
<1>2. CASE call[c].op = "logout"
  <2>1. /\ ClearAuth(t) /\ loading' = loading /\ ~calm' /\ ~ended'
        /\ calm' \in BOOLEAN /\ ended' \in BOOLEAN
    BY <1>2 DEF AfterFailure
  <2>2. /\ store' \in [access : Who, live : BOOLEAN, refresh : Tokens \cup {NoToken}, user : Who]
        /\ store'.access = Nobody /\ store'.refresh = NoToken /\ store'.user = Nobody
        /\ store'.refresh.acct = Nobody /\ Good(store'.refresh)
        /\ shown' \in [Tabs -> Who]
    BY <1>0, <2>1, ClearFacts
  <2> QED
    BY <1>0, <1>2, <2>1, <2>2, StoreFacts DEF SessionCleared
<1>3. CASE call[c].op \notin {"me", "logout"}
  <2>1. UNCHANGED <<store, shown, loading, calm, ended>>
    BY <1>3 DEF AfterFailure
  <2>2. /\ Good(store.refresh)
        /\ ended => store.access = Nobody /\ store.refresh = NoToken /\ cookie = NoToken
    BY DEF SessionIInv, Honoured, EndedIsOver
  <2> QED
    BY <1>0, <1>3, <2>1, <2>2, StoreFacts DEF SessionAsItWas
<1> QED
  BY <1>1, <1>2, <1>3

(* A call that failed, with its job.                                       *)
LEMMA FailedEndKeeps ==
  ASSUME SessionIInv, NEW c \in Calls, AfterFailure(c), End(c), call[c].pc # "idle",
         UNCHANGED <<issued, hash, cookie, outs>>
  PROVE  SessionIInv'
<1>0. SessionTypeOK /\ Good(cookie) /\ cookie \in Tokens \cup {NoToken}
  BY StoreFacts DEF SessionIInv, Honoured
<1>1. ended => cookie = NoToken
  BY DEF SessionIInv, EndedIsOver
<1>2. calm => store.user = store.access
  BY DEF SessionIInv, CalmIsOrderly
<1>3. SessionCleared(c) => (calm' => \A a \in {store'.access, cookie.acct} : a # Nobody => hash[a] # 0)
  BY AloneSigned DEF SessionCleared
<1>4. CASE SessionAsItWas(c)
  BY <1>0, <1>1, <1>2, <1>4, FailureFacts, EndKeeps DEF SessionAsItWas
<1>5. CASE SessionCleared(c)
  BY <1>0, <1>1, <1>3, <1>5, FailureFacts, EndKeeps DEF SessionCleared
<1> QED
  BY <1>4, <1>5, FailureFacts

LEMMA RefusedKeeps ==
  ASSUME SessionIInv, NEW c \in Calls, Refused(c)
  PROVE  SessionIInv'
BY FailedEndKeeps DEF Refused, Answered

(* A call that is given up while its job goes on.                          *)
LEMMA GiveUpKeeps ==
  ASSUME SessionIInv, NEW c \in Calls, GiveUp(c)
  PROVE  SessionIInv'
<1> DEFINE j == job[c]
<1>0. SessionTypeOK /\ Good(cookie) /\ cookie \in Tokens \cup {NoToken}
  BY StoreFacts DEF SessionIInv, Honoured
<1>1. /\ AfterFailure(c) /\ call[c].pc # "idle" /\ call' = [call EXCEPT ![c] = Idle]
      /\ UNCHANGED <<issued, hash, cookie, outs>>
      /\ job' = [job EXCEPT ![c] = NoJob] \/ job' = job
  BY DEF GiveUp
<1>2. CASE job' = [job EXCEPT ![c] = NoJob]
  BY <1>1, <1>2, FailedEndKeeps DEF End
<1>3. CASE job' = job
  <2>1. job' = [job EXCEPT ![c] = j] /\ j \in Jobs
    BY <1>0, <1>3, StoreFacts
  <2>2. Fits(Idle, j)
    BY EndFacts DEF SessionIInv, JobsFit, Fits
  <2>3. /\ j.op = "refresh" /\ j.pc = "denied" /\ j.token # NoToken => j.token.acct \in outs
        /\ j.op = "refresh" \/ (j.pc = "ok" /\ j.op \in SignIns) => Good(j.token)
    BY DEF SessionIInv, RefreshesSideBySide, Honoured
  <2>4. LoadingIsAsked'
    BY <1>1, FailureFacts, StillAsked, EndFacts
  <2>5. EndedIsOver'
    <3>1. \A d \in Calls : /\ d # c => call'[d] = call[d] /\ job'[d] = job[d]
                           /\ call'[c].pc # "refreshing"
      BY <1>0, <1>1, <1>3, CallTakes, EndFacts
    <3> QED
      BY <1>1, <3>1, FailureFacts DEF SessionIInv, EndedIsOver
  <2>6. CalmIsOrderly'
    <3>1. calm /\ call[c].op # "logout" => j.op # "logout"
      BY DEF SessionIInv, CalmIsOrderly
    <3>2. CASE SessionAsItWas(c)
      <4>1. calm => store.user = store.access
        BY DEF SessionIInv, CalmIsOrderly
      <4> QED
        BY <1>1, <2>1, <3>1, <3>2, <4>1, CalmStays, EndFacts DEF SessionAsItWas
    <3>3. CASE SessionCleared(c)
      <4>1. calm' => /\ \A a \in {store'.access, cookie.acct} : a # Nobody => hash[a] # 0
                     /\ j.op \in Issuing /\ j.pc = "ok" /\ j.token.acct # Nobody => hash[j.token.acct] # 0
        BY <3>3, AloneSigned DEF SessionCleared
      <4> HIDE DEF j
      <4> QED
        BY <1>1, <2>1, <3>1, <3>3, <4>1, CalmAlone, EndFacts DEF SessionCleared
    <3> QED
      BY <1>1, <3>2, <3>3, FailureFacts
  <2> HIDE DEF j
  <2> QED
    BY <1>0, <1>1, <2>1, <2>2, <2>3, <2>4, <2>5, <2>6, FailureFacts, EndFacts, BrowserStep
<1> QED
  BY <1>1, <1>2, <1>3

LEMMA StartRefreshKeeps ==
  ASSUME SessionIInv, NEW c \in Calls, StartRefresh(c)
  PROVE  SessionIInv'
<1> DEFINE k == IF store.refresh # NoToken THEN store.refresh ELSE cookie
           r == [call[c] EXCEPT !.pc = "refreshing"]
           j == [op |-> "refresh", pc |-> "arrived", live |-> FALSE, token |-> k]
<1>0. SessionTypeOK /\ call[c] \in CallRecords
  BY StoreFacts DEF SessionIInv
<1>1. call' = [call EXCEPT ![c] = r] /\ job' = [job EXCEPT ![c] = j]
  BY DEF StartRefresh
<1>2. k \in Tokens \cup {NoToken} /\ Good(k)
  BY <1>0, StoreFacts DEF SessionIInv, Honoured
<1>3. r \in CallRecords /\ r.pc = "refreshing" /\ r.op = call[c].op /\ r.tab = call[c].tab
  BY <1>0 DEF CallRecords
<1>4. ended => k = NoToken
  BY DEF SessionIInv, EndedIsOver
<1>5. calm /\ store.access # Nobody => k.acct = store.access
  BY TokenFacts DEF SessionIInv, CalmIsOrderly
<1> HIDE DEF k
<1>6. j \in Jobs /\ j.op = "refresh" /\ j.pc = "arrived" /\ j.token = k /\ Fits(r, j)
  <2>1. k \in [acct : Who, n : 0..MaxIssued]
    BY <1>2, TokenFacts
  <2>2. j \in Jobs
    BY <2>1 DEF Jobs, JobOps
  <2>3. Fits(r, j)
    BY <1>2, <1>3 DEF Fits, SignIns
  <2> QED
    BY <2>2, <2>3
<1> HIDE DEF r, j
<1>7. UNCHANGED <<issued, hash, outs, store, cookie, shown, loading, calm, ended>>
  BY DEF storeVars, watched, StartRefresh
<1>8. LoadingIsAsked'
  BY <1>1, <1>3, <1>7, StillAsked
<1>9. EndedIsOver'
  <2>1. \A d \in Calls : /\ d # c => call'[d] = call[d] /\ job'[d] = job[d]
                         /\ job'[c].token = k
    BY <1>0, <1>1, <1>3, <1>6, CallTakes, JobTakes
  <2> QED
    BY <1>4, <1>7, <2>1 DEF SessionIInv, EndedIsOver
<1>10. CalmIsOrderly'
  <2>1. calm => store.user = store.access
    BY DEF SessionIInv, CalmIsOrderly
  <2>2. job[c].pc = "denied"
    BY DEF StartRefresh, MayRefresh, Answered
  <2> QED
    BY <1>1, <1>3, <1>5, <1>6, <1>7, <2>1, <2>2, CalmStays
<1>11. Good(store.refresh) /\ Good(cookie)
  BY DEF SessionIInv, Honoured
<1> QED
  BY <1>0, <1>1, <1>2, <1>3, <1>6, <1>7, <1>8, <1>9, <1>10, <1>11, StoreFacts, BrowserStep

(* The refreshed token of a calm session belongs to the session.           *)
LEMMA RenewedIsHeld ==
  ASSUME SessionIInv, NEW c \in Calls, call[c].pc = "refreshing", job[c].pc = "ok"
  PROVE  /\ job[c].op = "refresh" /\ job[c].token \in Tokens /\ job[c].token.acct \in Accounts
         /\ Good(job[c].token) /\ ~ended
         /\ calm /\ store.access # Nobody => job[c].token.acct = store.access
<1>1. job[c].op = "refresh" /\ job[c].token \in Tokens /\ job[c].token.acct \in Accounts
  BY TokenFacts DEF SessionIInv, JobsFit, Fits, Issuing
<1>2. Good(job[c].token) /\ (calm /\ store.access # Nobody => job[c].token.acct = store.access)
  BY <1>1 DEF SessionIInv, Honoured, CalmIsOrderly
<1>3. ~ended
  BY <1>1, TokenFacts DEF SessionIInv, EndedIsOver
<1> QED
  BY <1>1, <1>2, <1>3

LEMMA TakeTokensKeeps ==
  ASSUME SessionIInv, NEW c \in Calls, TakeTokens(c)
  PROVE  SessionIInv'
<1> DEFINE k == job[c].token
           op == call[c].op
           t == call[c].tab
           r == [op |-> op, pc |-> "waiting", tab |-> t, retry |-> FALSE]
           j == [op |-> JobOf(op), pc |-> "arrived",
                 token |-> [acct |-> k.acct, n |-> 0], live |-> TRUE]
<1>0. SessionTypeOK /\ call[c] \in CallRecords
  BY StoreFacts DEF SessionIInv
<1>1. /\ call[c].pc = "refreshing" /\ job[c].pc = "ok"
      /\ call' = [call EXCEPT ![c] = r] /\ job' = [job EXCEPT ![c] = j]
      /\ store' = [access |-> k.acct, live |-> TRUE, refresh |-> k, user |-> k.acct]
      /\ shown' = [shown EXCEPT ![t] = k.acct] /\ cookie' = k
      /\ IF store.access = k.acct THEN calm' = calm ELSE calm' = (calm /\ Alone(c))
      /\ UNCHANGED <<issued, hash, loading, ended, outs>>
  BY DEF TakeTokens, SetAuth, Show, Attempt, JobOf
<1>2. job[c].op = "refresh" /\ k \in Tokens /\ k.acct \in Accounts /\ Good(k) /\ ~ended
  BY <1>1, RenewedIsHeld
<1>3. /\ op \in SignIns \cup {"api", "me", "profile", "logout"} /\ t \in Tabs \cup {Nobody}
      /\ k.acct \in Who
  BY <1>0, <1>2 DEF CallRecords, Who
<1>4. /\ r \in CallRecords /\ j \in Jobs /\ Fits(r, j) /\ j.op # "refresh"
      /\ r.op = op /\ r.pc = "waiting" /\ r.tab = t
      /\ j.op = JobOf(op) /\ j.pc = "arrived" /\ j.token.acct = k.acct
  <2> HIDE DEF k, op, t
  <2> QED
    BY <1>0, <1>2, <1>3, AttemptFacts DEF r, j
<1>5. calm /\ store.access # k.acct /\ Alone(c)
        => \A a \in {k.acct} : a # Nobody => hash[a] # 0
  BY <1>1, <1>2, AloneSigned DEF Issuing
<1>6. calm => (k.acct # Nobody /\ hash[k.acct] = 0 => LogoutDone)
  BY <1>1, <1>2 DEF SessionIInv, CalmIsOrderly, SignedIn, Issuing
<1>7. JobOf(op) = "logout" => op = "logout"
  BY DEF JobOf, SignIns
<1> HIDE DEF k, t, r, j, op
<1>8. /\ store' \in [access : Who, live : BOOLEAN, refresh : Tokens \cup {NoToken}, user : Who]
      /\ store'.access = k.acct /\ store'.refresh = k /\ store'.user = k.acct
  BY <1>1, <1>2, <1>3
<1>9. shown' \in [Tabs -> Who] /\ cookie' \in Tokens \cup {NoToken} /\ loading' \in [Tabs -> BOOLEAN]
      /\ calm' \in BOOLEAN /\ ended' \in BOOLEAN
  BY <1>0, <1>1, <1>2, <1>3, StoreFacts
<1>10. LoadingIsAsked'
  BY <1>1, <1>4, StillAsked DEF op, t
<1>11. EndedIsOver'
  BY <1>1, <1>2 DEF EndedIsOver
<1>12. CalmIsOrderly'
  <2>1. CASE store.access # k.acct
    BY <1>1, <1>4, <1>5, <1>7, <1>8, <2>1, CalmAlone
  <2>2. CASE store.access = k.acct
    <3>1. /\ job'[c] = j /\ \A d \in Calls : d # c => job'[d] = job[d]
          /\ call'[c] = r /\ \A d \in Calls : d # c => call'[d] = call[d]
      BY <1>0, <1>1, <1>4, CallTakes, JobTakes
    <3> SUFFICES ASSUME calm PROVE CalmIsOrderly'
      BY <1>1, <2>2 DEF CalmIsOrderly
    <3>2. LogoutDone => LogoutDone'
      BY <1>1, <3>1 DEF LogoutDone
    <3>3. ASSUME NEW d \in Calls
          PROVE  /\ job'[d].op = "logout" => call'[d].op = "logout" /\ call'[d].pc = "waiting"
                 /\ call'[d].op \in {"me", "profile"} /\ call'[d].pc = "waiting"
                      => job'[d].token.acct = store'.access
                 /\ call'[d].pc = "refreshing" /\ store'.access # Nobody
                      => job'[d].token.acct = store'.access
                 /\ job'[d].op \in Issuing /\ job'[d].pc = "ok"
                      => SignedIn(job[d].token.acct)'
      <4>1. CASE d = c
        BY <1>4, <1>7, <1>8, <3>1, <4>1
      <4>2. CASE d # c
        BY <1>1, <1>8, <2>2, <3>1, <3>2, <4>2 DEF SessionIInv, CalmIsOrderly, SignedIn
      <4> QED
        BY <4>1, <4>2
    <3>4. /\ store'.user = store'.access /\ store'.refresh.acct = store'.access
          /\ SignedIn(store.access)' /\ SignedIn(cookie.acct)'
      <4>1. store'.refresh.acct = k.acct /\ cookie'.acct = k.acct
        BY <1>1, <1>8
      <4> QED
        BY <1>1, <1>6, <1>8, <3>2, <4>1 DEF SignedIn
    <3> QED
      BY <3>3, <3>4 DEF CalmIsOrderly
  <2> QED
    BY <2>1, <2>2
<1>13. Good(store'.refresh) /\ Good(cookie')
  BY <1>1, <1>2, <1>8
<1> QED
  BY <1>1, <1>4, <1>8, <1>9, <1>10, <1>11, <1>12, <1>13, BrowserStep

LEMMA ExpireKeeps ==
  ASSUME SessionIInv, Expire
  PROVE  SessionIInv'
<1>0. SessionTypeOK
  BY DEF SessionIInv
<1>1. /\ UNCHANGED <<issued, hash, job, cookie, shown, loading, call, calm, ended, outs>>
      /\ store' = [store EXCEPT !.live = FALSE]
  BY DEF Expire, serverVars, watched
<1>2. /\ store' \in [access : Who, live : BOOLEAN, refresh : Tokens \cup {NoToken}, user : Who]
      /\ store'.access = store.access /\ store'.refresh = store.refresh /\ store'.user = store.user
  BY <1>0, <1>1, StoreFacts
<1>3. SessionTypeOK'
  BY <1>0, <1>1, <1>2 DEF SessionTypeOK
<1>4. LoadingIsAsked' /\ RefreshesSideBySide' /\ JobsFit'
  BY <1>1 DEF SessionIInv, LoadingIsAsked, RefreshesSideBySide, JobsFit, Fits
<1>5. Honoured' /\ EndedIsOver'
  BY <1>1, <1>2 DEF SessionIInv, Honoured, Good, EndedIsOver
<1>6. LogoutDone => LogoutDone'
  BY <1>1 DEF LogoutDone
<1>7. CalmIsOrderly'
  BY <1>1, <1>2, <1>6 DEF SessionIInv, CalmIsOrderly, SignedIn
<1> QED
  BY <1>3, <1>4, <1>5, <1>7 DEF SessionIInv

(* The page that is opened drops the calls of its tab; their jobs go on.   *)
LEMMA OpenPageKeeps ==
  ASSUME SessionIInv, NEW c \in Calls, NEW t \in Tabs, OpenPage(c, t)
  PROVE  SessionIInv'
<1> DEFINE staying == [d \in Calls |-> IF call[d].tab = t THEN Idle ELSE call[d]]
           r == [op |-> "me", pc |-> "waiting", tab |-> t, retry |-> TRUE]
           j == [op |-> JobOf("me"), pc |-> "arrived",
                 token |-> [acct |-> store.access, n |-> 0], live |-> store.live]
           asks == store.access # Nobody
<1>0. SessionTypeOK
  BY DEF SessionIInv
<1>1. /\ call[c].pc = "idle" /\ job[c].pc = "none"
      /\ shown' = [shown EXCEPT ![t] = store.user]
      /\ loading' = [loading EXCEPT ![t] = asks]
      /\ ~asks => call' = staying /\ job' = job
      /\ asks => call' = [staying EXCEPT ![c] = r] /\ job' = [job EXCEPT ![c] = j]
      /\ calm' = (calm /\ \A d \in Calls : call[d].tab = t => call[d].op # "logout")
      /\ UNCHANGED <<issued, hash, store, cookie, ended, outs>>
  <2>1. JobOf("me") = "read"
    BY DEF SignIns, JobOf
  <2> QED
    BY <2>1 DEF OpenPage, Idling, Show
<1>2. /\ r \in CallRecords /\ j \in Jobs /\ Fits(r, j) /\ j.op = "read"
      /\ r.op = "me" /\ r.pc = "waiting" /\ r.tab = t
      /\ j.pc = "arrived" /\ j.token.acct = store.access
  <2>1. /\ "me" \in SignIns \cup {"api", "me", "profile", "logout"} /\ JobOf("me") = "read"
        /\ "me" \notin SignIns
    BY DEF SignIns, JobOf
  <2>2. store.access \in Who /\ store.live \in BOOLEAN /\ t \in Tabs \cup {Nobody}
    BY <1>0, StoreFacts
  <2>3. r \in CallRecords
    BY <2>1, <2>2 DEF CallRecords
  <2>4. [acct |-> store.access, n |-> 0] \in [acct : Who, n : 0..MaxIssued]
    BY <2>2, SessionsAssumption
  <2>5. j \in Jobs
    BY <2>1, <2>2, <2>4 DEF Jobs, JobOps
  <2>6. Fits(r, j)
    BY <2>1 DEF Fits, SignIns
  <2> QED
    BY <2>1, <2>3, <2>5, <2>6
<1> HIDE DEF r, j
<1>3. /\ staying \in [Calls -> CallRecords]
      /\ \A d \in Calls : staying[d] = IF call[d].tab = t THEN Idle ELSE call[d]
  BY <1>0, StoreFacts, EndFacts
<1> HIDE DEF staying
<1>4. /\ call' \in [Calls -> CallRecords] /\ job' \in [Calls -> Jobs]
      /\ \A d \in Calls : d # c => /\ job'[d] = job[d]
                                   /\ call'[d] = IF call[d].tab = t THEN Idle ELSE call[d]
      /\ asks => call'[c] = r /\ job'[c] = j
      /\ ~asks => call'[c].pc = "idle" /\ job'[c] = job[c]
  <2>1. CASE ~asks
    BY <1>0, <1>1, <1>3, <2>1, SessionTypes, EndFacts
  <2>2. CASE asks
    BY <1>0, <1>1, <1>2, <1>3, <2>2, SessionTypes
  <2> QED
    BY <2>1, <2>2
<1>5. SessionTypeOK'
  <2>1. shown' \in [Tabs -> Who] /\ loading' \in [Tabs -> BOOLEAN] /\ calm' \in BOOLEAN
    BY <1>0, <1>1, StoreFacts
  <2> QED
    BY <1>0, <1>1, <1>4, <2>1 DEF SessionTypeOK, Jobs, CallRecords
<1>6. LoadingIsAsked'
  <2> SUFFICES ASSUME NEW x \in Tabs, loading'[x]
               PROVE  \E d \in Calls : call'[d].op = "me" /\ call'[d].tab = x /\ call'[d].pc # "idle"
    BY DEF LoadingIsAsked
  <2>1. CASE x = t
    <3>1. asks
      BY <1>0, <1>1, <2>1, StoreFacts
    <3> QED
      BY <1>2, <1>4, <2>1, <3>1
  <2>2. CASE x # t
    <3>1. loading[x]
      BY <1>0, <1>1, <2>2, StoreFacts
    <3>2. PICK d \in Calls : call[d].op = "me" /\ call[d].tab = x /\ call[d].pc # "idle"
      BY <3>1 DEF SessionIInv, LoadingIsAsked
    <3>3. d # c
      BY <1>1, <3>2
    <3> QED
      BY <1>4, <2>2, <3>2, <3>3
  <2> QED
    BY <2>1, <2>2
<1>7. RefreshesSideBySide'
  BY <1>1, <1>2, <1>4 DEF SessionIInv, RefreshesSideBySide
<1>8. JobsFit'
  <2>1. \A d \in Calls : Fits(Idle, job[d])
    BY EndFacts DEF SessionIInv, JobsFit, Fits
  <2>2. ASSUME NEW d \in Calls PROVE Fits(call'[d], job'[d])
    <3>1. CASE d # c
      BY <1>4, <2>1, <3>1 DEF SessionIInv, JobsFit
    <3>2. CASE d = c /\ asks
      BY <1>2, <1>4, <3>2
    <3>3. CASE d = c /\ ~asks
      BY <1>4, <3>3 DEF SessionIInv, JobsFit, Fits
    <3> QED
      BY <3>1, <3>2, <3>3
  <2> QED
    BY <2>2 DEF JobsFit, Fits
<1>9. Honoured'
  <2>1. /\ Good(store.refresh)' /\ Good(cookie)'
    BY <1>1 DEF SessionIInv, Honoured, Good
  <2>2. ASSUME NEW d \in Calls,
               job'[d].op = "refresh" \/ (job'[d].pc = "ok" /\ job'[d].op \in SignIns)
        PROVE  job'[d] = job[d]
    BY <1>2, <1>4, <2>2
  <2> QED
    BY <1>1, <2>1, <2>2 DEF SessionIInv, Honoured, Good
<1>10. EndedIsOver'
  BY <1>1, <1>2, <1>4, EndFacts DEF SessionIInv, EndedIsOver
<1>11. CalmIsOrderly'
  <2> SUFFICES ASSUME calm' PROVE CalmIsOrderly'
    BY DEF CalmIsOrderly
  <2>1. calm /\ CalmIsOrderly /\ \A d \in Calls : call[d].tab = t => call[d].op # "logout"
    BY <1>1 DEF SessionIInv
  <2>2. LogoutDone => LogoutDone'
    BY <1>1, <1>4, <2>1 DEF LogoutDone
  <2>3. ASSUME NEW d \in Calls
        PROVE  /\ job'[d].op = "logout" => call'[d].op = "logout" /\ call'[d].pc = "waiting"
               /\ call'[d].op \in {"me", "profile"} /\ call'[d].pc = "waiting"
                    => job'[d].token.acct = store'.access
               /\ call'[d].pc = "refreshing" /\ store'.access # Nobody
                    => job'[d].token.acct = store'.access
               /\ job'[d].op \in Issuing /\ job'[d].pc = "ok"
                    => SignedIn(job[d].token.acct)'
    <3>1. CASE d # c
      BY <1>1, <1>4, <2>1, <2>2, <3>1, EndFacts DEF CalmIsOrderly, SignedIn
    <3>2. CASE d = c /\ asks
      BY <1>1, <1>2, <1>4, <3>2
    <3>3. CASE d = c /\ ~asks
      <4>1. job[c].op = "read"
        BY <1>1 DEF SessionIInv, JobsFit, Fits
      <4> QED
        BY <1>1, <1>4, <3>3, <4>1 DEF Issuing, SignIns
    <3> QED
      BY <3>1, <3>2, <3>3
  <2>4. /\ store'.user = store'.access /\ store'.refresh.acct = store'.access
        /\ SignedIn(store.access)' /\ SignedIn(cookie.acct)'
    BY <1>1, <2>1, <2>2 DEF CalmIsOrderly, SignedIn
  <2> QED
    BY <2>3, <2>4 DEF CalmIsOrderly
<1> QED
  BY <1>5, <1>6, <1>7, <1>8, <1>9, <1>10, <1>11 DEF SessionIInv

LEMMA SessionStep == SessionIInv /\ [SessionNext]_sessionVars => SessionIInv'
<1> SUFFICES ASSUME SessionIInv, [SessionNext]_sessionVars PROVE SessionIInv'
  OBVIOUS
<1>1. CASE Expire
  BY <1>1, ExpireKeeps
<1>2. CASE \E c \in Calls : Serve(c) \/ Forget(c) \/ GiveUp(c)
  BY <1>2, ServeKeeps, ForgetKeeps, GiveUpKeeps
<1>3. CASE \E c \in Calls : TakeAnswer(c)
  BY <1>3, TakeSessionKeeps, TakeUserKeeps, TakeDataKeeps, TakeLogoutKeeps, StartRefreshKeeps,
     TakeTokensKeeps, AskAgainKeeps, RefusedKeeps DEF TakeAnswer
<1>4. CASE \E c \in Calls, t \in Tabs : OpenPage(c, t)
  BY <1>4, OpenPageKeeps
<1>5. CASE \E c \in Calls, t \in Tabs : \E op \in {"api", "profile", "logout"} : Request(c, t, op)
  BY <1>5, RequestKeeps
<1>6. CASE \E c \in Calls, t \in Tabs : \E a \in Accounts, op \in SignIns : SignIn(c, t, op, a)
  BY <1>6, SignInKeeps
<1>7. CASE UNCHANGED sessionVars
  <2>1. UNCHANGED <<issued, hash, job, store, cookie, shown, loading, call, calm, ended, outs>>
    BY <1>7 DEF sessionVars, serverVars, storeVars, watched
  <2> QED
    BY <2>1 DEF SessionIInv, SessionTypeOK, LoadingIsAsked, RefreshesSideBySide, JobsFit, Fits,
       Honoured, Good, EndedIsOver, CalmIsOrderly, SignedIn, LogoutDone
<1> QED
  BY <1>1, <1>2, <1>3, <1>4, <1>5, <1>6, <1>7 DEF SessionNext

LEMMA SessionAlways == SessionSpec => []SessionIInv
BY SessionStart, SessionStep, PTL DEF SessionSpec

(* AuthService and lib/api.ts: in every state of one browser's session no  *)
(* refresh is turned away by another, a logout that was confirmed lasts,   *)
(* and a page that shows nothing yet has asked who is signed in.           *)
THEOREM SessionHolds == SessionSpec => []SessionInv
<1>1. SessionIInv => SessionInv
  BY DEF SessionIInv, SessionInv, LogoutLasts, EndedIsOver
<1> QED
  BY <1>1, SessionAlways, PTL

(* The four copies of "who is signed in" agree while sessions begin and    *)
(* end on their own.                                                       *)
THEOREM CopiesAlwaysAgree == SessionSpec => []CopiesAgree
<1>1. SessionIInv => CopiesAgree
  BY DEF SessionIInv, CopiesAgree, CalmIsOrderly, SignedIn, LogoutDone
<1> QED
  BY <1>1, SessionAlways, PTL

(* apiFetch: a refresh never puts another account's session in the place   *)
(* of the one the browser holds.                                           *)
THEOREM RefreshKeepsAccount == SessionSpec => SwitchBySignIn
<1>1. SessionIInv /\ [SessionNext]_sessionVars
      => [store'.access \notin {store.access, Nobody} /\ store.access # Nobody
           => ~calm \/ \E c \in Calls : Answered(c, {"ok"}) /\ call[c].op \in SignIns]_sessionVars
  <2> SUFFICES ASSUME SessionIInv, SessionNext, calm,
                      store'.access \notin {store.access, Nobody}, store.access # Nobody
               PROVE  \E c \in Calls : Answered(c, {"ok"}) /\ call[c].op \in SignIns
    OBVIOUS
  <2>0. SessionTypeOK
    BY DEF SessionIInv
  <2>1. ASSUME NEW c \in Calls, TakeTokens(c) PROVE FALSE
    <3>1. store'.access = job[c].token.acct /\ call[c].pc = "refreshing" /\ job[c].pc = "ok"
      BY <2>1 DEF TakeTokens, SetAuth
    <3> QED
      BY <3>1, RenewedIsHeld
  <2>2. ASSUME NEW c \in Calls, AfterFailure(c) PROVE FALSE
    BY <2>2, FailureFacts DEF SessionAsItWas, SessionCleared
  <2>3. ASSUME NEW t, NEW a, UpdateStoredUser(t, a) PROVE FALSE
    BY <2>0, <2>3, StoreFacts DEF UpdateStoredUser
  <2>4. ASSUME NEW c \in Calls, TakeLogout(c) PROVE FALSE
    BY <2>0, <2>4, ClearFacts DEF TakeLogout
  <2>5. ASSUME Expire PROVE FALSE
    BY <2>0, <2>5, StoreFacts DEF Expire
  <2>6. ASSUME store' = store PROVE FALSE
    BY <2>6
  <2>7. ASSUME NEW c \in Calls, TakeSession(c) PROVE Answered(c, {"ok"}) /\ call[c].op \in SignIns
    BY <2>7 DEF TakeSession
  <2>8. ASSUME NEW c \in Calls, TakeAnswer(c) PROVE Answered(c, {"ok"}) /\ call[c].op \in SignIns
    <3>1. ASSUME TakeUser(c) PROVE FALSE
      BY <2>3, <3>1 DEF TakeUser
    <3>2. ASSUME TakeData(c) \/ StartRefresh(c) \/ AskAgain(c) PROVE FALSE
      BY <2>6, <3>2 DEF TakeData, StartRefresh, AskAgain, storeVars
    <3>3. ASSUME Refused(c) PROVE FALSE
      BY <2>2, <3>3 DEF Refused
    <3> QED
      BY <2>1, <2>4, <2>7, <2>8, <3>1, <3>2, <3>3 DEF TakeAnswer
  <2>9. ASSUME NEW c \in Calls, Serve(c) \/ Forget(c) \/ GiveUp(c) PROVE FALSE
    BY <2>2, <2>6, <2>9 DEF Serve, Forget, GiveUp, storeVars
  <2>10. ASSUME NEW c \in Calls, NEW t \in Tabs, OpenPage(c, t) PROVE FALSE
    BY <2>6, <2>10 DEF OpenPage
  <2>11. ASSUME NEW c \in Calls, NEW t \in Tabs, NEW op, Request(c, t, op) PROVE FALSE
    BY <2>6, <2>11 DEF Request, storeVars
  <2>12. ASSUME NEW c \in Calls, NEW t \in Tabs, NEW op, NEW a, SignIn(c, t, op, a) PROVE FALSE
    BY <2>6, <2>12 DEF SignIn, storeVars
  <2> QED
    BY <2>5, <2>8, <2>9, <2>10, <2>11, <2>12 DEF SessionNext
<1> QED
  BY <1>1, SessionAlways, PTL DEF SessionSpec, SwitchBySignIn
=============================================================================
