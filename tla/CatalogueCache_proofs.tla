------------------------- MODULE CatalogueCache_proofs -------------------------
(***************************************************************************)
(* Proofs about CatalogueCache, for any number of URLs, of GETs and of     *)
(* catalogue changes under way.                                            *)
(***************************************************************************)
EXTENDS CatalogueCache, TLAPS

Excused(c) == Pending(c) \/ c \in unflushed

(* A GET that is about to store an old response has the excuse already, so *)
(* that the entry has it after the fill.                                   *)
FillIsExcused ==
  \A r \in Readers, c \in Categories :
    reader[r].pc = "fill" /\ reader[r].view[c] # version[c] =>
      Excused(c) \/ reader[r].cleared

FillsHaveView ==
  \A r \in Readers : reader[r].pc = "fill" => reader[r].view \in Views

TypeInv == TypeOK /\ FillsHaveView

IInv == TypeInv /\ FillIsExcused /\ StaleIsExcused

(* A slot that is not idle holds a GET.                                    *)
LEMMA BusyReader ==
  ASSUME TypeOK, NEW r \in Readers, reader[r].pc \in {"query", "fill"}
  PROVE  reader[r] \in Gets
BY DEF TypeOK, NoGet

(* What a clear does, to the types and to the excuses.                     *)
LEMMA FlushedInv ==
  ASSUME IInv, Flushed, version' = version, admin' \in [Admins -> Changes]
  PROVE  IInv'
<1> USE DEF IInv, TypeInv
<1> DEFINE q(r) == [reader[r] EXCEPT !.cleared = @ \/ reader[r].pc = "fill"]
<1>1. /\ cache' = [u \in Urls |-> Nothing] /\ unflushed' = {} /\ crossed' = {}
      /\ reader' = [r \in Readers |->
                      IF reader[r] = NoGet THEN NoGet ELSE q(r)]
  BY DEF Flushed
<1>2. \A r \in Readers : reader[r] # NoGet => reader[r] \in Gets
  BY DEF TypeOK
<1>3. \A r \in Readers : reader[r] # NoGet =>
        /\ q(r) \in Gets /\ q(r).pc = reader[r].pc /\ q(r).view = reader[r].view
        /\ q(r).pc = "fill" => q(r).cleared
  <2> SUFFICES ASSUME NEW r \in Readers, reader[r] # NoGet
               PROVE  /\ q(r) \in Gets /\ q(r).pc = reader[r].pc
                      /\ q(r).view = reader[r].view
                      /\ q(r).pc = "fill" => q(r).cleared
    OBVIOUS
  <2> DEFINE flag == reader[r].cleared \/ reader[r].pc = "fill"
  <2>1. reader[r] \in Gets /\ flag \in BOOLEAN
    BY <1>2
  <2>2. q(r) = [reader[r] EXCEPT !.cleared = flag]
    OBVIOUS
  <2>3. reader[r].pc = "fill" => flag
    OBVIOUS
  <2> HIDE DEF flag, q
  <2> QED
    BY <2>1, <2>2, <2>3 DEF Gets
<1> HIDE DEF q
<1>4. \A r \in Readers :
        reader'[r] = IF reader[r] = NoGet THEN NoGet ELSE q(r)
  BY <1>1
<1>5. reader' \in [Readers -> {NoGet} \cup Gets]
  BY <1>1, <1>3
<1>6. TypeOK'
  BY <1>1, <1>5 DEF TypeOK
<1>7. FillsHaveView'
  BY <1>3, <1>4 DEF FillsHaveView, NoGet
<1>8. FillIsExcused'
  BY <1>3, <1>4 DEF FillIsExcused, NoGet
<1>9. StaleIsExcused'
  BY <1>1 DEF StaleIsExcused
<1> QED
  BY <1>6, <1>7, <1>8, <1>9

(* A reader's slot that takes a new value of the right type.               *)
LEMMA ReaderStep ==
  ASSUME TypeInv, NEW r \in Readers, NEW q \in {NoGet} \cup Gets,
         q.pc = "fill" => q.view \in Views,
         reader' = [reader EXCEPT ![r] = q]
  PROVE  /\ reader' \in [Readers -> {NoGet} \cup Gets]
         /\ FillsHaveView'
         /\ \A x \in Readers : reader'[x] = IF x = r THEN q ELSE reader[x]
<1>1. reader \in [Readers -> {NoGet} \cup Gets]
  BY DEF TypeInv, TypeOK
<1> QED
  BY <1>1 DEF TypeInv, FillsHaveView

(* A step that lets the excuses and the readers alone.                     *)
LEMMA AdminStep ==
  ASSUME IInv, admin' \in [Admins -> Changes], unflushed' \subseteq Categories,
         UNCHANGED <<version, cache, reader, crossed>>,
         \A c \in Categories : Excused(c) => Excused(c)'
  PROVE  IInv'
<1> USE DEF IInv, TypeInv
<1>1. TypeOK' /\ FillsHaveView'
  BY DEF TypeOK, FillsHaveView
<1>2. FillIsExcused'
  BY DEF FillIsExcused
<1>3. StaleIsExcused'
  BY DEF StaleIsExcused, Excused
<1> QED
  BY <1>1, <1>2, <1>3

LEMMA InitInv == Init => IInv
<1> SUFFICES ASSUME Init PROVE IInv
  OBVIOUS
<1>1. 0 \in 0..MaxVersion
  BY CatalogueAssumption
<1>2. TypeOK
  BY <1>1 DEF Init, TypeOK, Views, NoGet, NoChange, Changes
<1>3. FillsHaveView /\ FillIsExcused
  BY DEF Init, NoGet, FillsHaveView, FillIsExcused
<1>4. StaleIsExcused
  BY DEF Init, StaleIsExcused
<1> QED
  BY <1>2, <1>3, <1>4 DEF IInv, TypeInv

LEMMA StepInv == IInv /\ [Next]_vars => IInv'
<1> SUFFICES ASSUME IInv, [Next]_vars PROVE IInv'
  OBVIOUS
<1> USE DEF IInv, TypeInv
<1>0. NoGet \in {NoGet} \cup Gets /\ NoGet.pc = "idle"
  BY DEF NoGet
<1>1. ASSUME NEW r \in Readers, NEW u \in Urls, Miss(r, u) PROVE IInv'
  <2> DEFINE q == Get("query", u, Nothing, FALSE)
  <2>1. q \in Gets /\ q.pc = "query"
    BY DEF Get, Gets
  <2>2. reader' = [reader EXCEPT ![r] = q]
        /\ UNCHANGED <<version, cache, admin, unflushed, crossed>>
    BY <1>1 DEF Miss
  <2> HIDE DEF q
  <2>3. /\ reader' \in [Readers -> {NoGet} \cup Gets]
        /\ FillsHaveView'
        /\ \A x \in Readers : reader'[x] = IF x = r THEN q ELSE reader[x]
    BY <2>1, <2>2, ReaderStep
  <2>4. FillIsExcused'
    BY <2>1, <2>2, <2>3 DEF FillIsExcused, Excused, Pending
  <2> QED
    BY <2>2, <2>3, <2>4 DEF TypeOK, StaleIsExcused, Pending
<1>2. ASSUME NEW r \in Readers, Answer(r) PROVE IInv'
  <2> DEFINE q == Get("fill", reader[r].url, version, FALSE)
  <2>1. reader[r].url \in Urls /\ version \in Views
    BY <1>2, BusyReader DEF Answer, Gets, TypeOK
  <2>2. q \in Gets /\ q.pc = "fill" /\ q.view = version
    BY <2>1 DEF Get, Gets
  <2>3. reader' = [reader EXCEPT ![r] = q]
        /\ UNCHANGED <<version, cache, admin, unflushed, crossed>>
    BY <1>2 DEF Answer
  <2> HIDE DEF q
  <2>4. /\ reader' \in [Readers -> {NoGet} \cup Gets]
        /\ FillsHaveView'
        /\ \A x \in Readers : reader'[x] = IF x = r THEN q ELSE reader[x]
    BY <2>1, <2>2, <2>3, ReaderStep
  <2>5. FillIsExcused'
    BY <2>2, <2>3, <2>4 DEF FillIsExcused, Excused, Pending
  <2> QED
    BY <2>3, <2>4, <2>5 DEF TypeOK, StaleIsExcused, Pending
<1>3. ASSUME NEW r \in Readers, Fill(r) PROVE IInv'
  <2> DEFINE q == reader[r]
  <2>1. q \in Gets /\ q.pc = "fill"
    BY <1>3, BusyReader DEF Fill
  <2>2. q.view \in Views /\ q.url \in Urls
    BY <2>1 DEF FillsHaveView, Gets
  <2>3. /\ reader' \in [Readers -> {NoGet} \cup Gets]
        /\ FillsHaveView'
        /\ \A x \in Readers : reader'[x] = IF x = r THEN NoGet ELSE reader[x]
    BY <1>0, <1>3, ReaderStep DEF Fill
  <2>4. /\ cache' = [cache EXCEPT ![q.url] = q.view]
        /\ crossed' = IF q.cleared THEN crossed \cup {q.url}
                                   ELSE crossed \ {q.url}
        /\ UNCHANGED <<version, admin, unflushed>>
    BY <1>3 DEF Fill
  <2>5. TypeOK'
    BY <2>2, <2>3, <2>4 DEF TypeOK
  <2>6. FillIsExcused'
    BY <1>0, <2>3, <2>4 DEF FillIsExcused, Excused, Pending
  <2>7. ASSUME NEW u \in Urls, NEW c \in Categories,
               cache'[u] # Nothing, cache'[u][c] # version'[c]
        PROVE  Pending(c)' \/ c \in unflushed' \/ u \in crossed'
    <3>1. CASE u = q.url
      <4>1. q.view[c] # version[c]
        BY <2>2, <2>4, <2>7, <3>1 DEF TypeOK
      <4>2. Excused(c) \/ q.cleared
        BY <2>1, <4>1 DEF FillIsExcused
      <4> QED
        BY <2>4, <3>1, <4>2 DEF Excused, Pending
    <3>2. CASE u # q.url
      <4>1. cache[u] # Nothing /\ cache[u][c] # version[c]
        BY <2>4, <2>7, <3>2 DEF TypeOK
      <4>2. Pending(c) \/ c \in unflushed \/ u \in crossed
        BY <4>1 DEF StaleIsExcused
      <4> QED
        BY <2>4, <3>2, <4>2 DEF Pending
    <3> QED
      BY <3>1, <3>2
  <2>8. StaleIsExcused'
    BY <2>7 DEF StaleIsExcused
  <2> QED
    BY <2>3, <2>5, <2>6, <2>8
<1>4. ASSUME NEW r \in Readers, GiveUp(r) PROVE IInv'
  <2>1. /\ reader' \in [Readers -> {NoGet} \cup Gets]
        /\ FillsHaveView'
        /\ \A x \in Readers : reader'[x] = IF x = r THEN NoGet ELSE reader[x]
    BY <1>0, <1>4, ReaderStep DEF GiveUp
  <2>2. UNCHANGED <<version, cache, admin, unflushed, crossed>>
    BY <1>4 DEF GiveUp
  <2>3. FillIsExcused'
    BY <1>0, <2>1, <2>2 DEF FillIsExcused, Excused, Pending
  <2> QED
    BY <2>1, <2>2, <2>3 DEF TypeOK, StaleIsExcused, Pending
<1>5. ASSUME NEW u \in Urls, Expire(u) PROVE IInv'
  <2>1. /\ cache' = [cache EXCEPT ![u] = Nothing]
        /\ crossed' = crossed \ {u}
        /\ UNCHANGED <<version, reader, admin, unflushed>>
    BY <1>5 DEF Expire
  <2>2. TypeOK' /\ FillsHaveView'
    BY <2>1 DEF TypeOK, FillsHaveView
  <2>3. FillIsExcused'
    BY <2>1 DEF FillIsExcused, Excused, Pending
  <2>4. StaleIsExcused'
    BY <2>1 DEF StaleIsExcused, Pending, TypeOK
  <2> QED
    BY <2>2, <2>3, <2>4
<1>6. ASSUME NEW a \in Admins, NEW pc \in {"pricing", "delete"},
             NEW items \in SUBSET Categories, Start(a, pc, items)
      PROVE  IInv'
  <2> DEFINE q == [NoChange EXCEPT !.pc = pc, !.todo = items]
  <2>0. NoChange \in Changes /\ admin[a] = NoChange
    BY <1>6 DEF NoChange, Changes, Start
  <2>1. q \in Changes /\ admin[a].done = {}
    <3>1. q \in Changes
      BY <2>0 DEF Changes
    <3>2. admin[a].done = {}
      BY <2>0 DEF NoChange
    <3> QED
      BY <3>1, <3>2
  <2>2. admin' = [admin EXCEPT ![a] = q]
        /\ UNCHANGED <<version, cache, reader, unflushed, crossed>>
    BY <1>6 DEF Start
  <2> HIDE DEF q
  <2>3. admin' \in [Admins -> Changes]
    BY <2>1, <2>2 DEF TypeOK
  <2>4. \A x \in Admins : x # a => admin'[x] = admin[x]
    BY <2>2 DEF TypeOK
  <2>5. \A c \in Categories : Excused(c) => Excused(c)'
    BY <2>1, <2>2, <2>4 DEF Excused, Pending
  <2>6. unflushed' \subseteq Categories
    BY <2>2 DEF TypeOK
  <2> QED
    BY <2>2, <2>3, <2>5, <2>6, AdminStep
<1>7. ASSUME NEW a \in Admins, NEW c \in Categories, Write(a, c) PROVE IInv'
  <2>1. /\ version' = [version EXCEPT ![c] = @ + 1]
        /\ admin' = [admin EXCEPT ![a].todo = @ \ {c}, ![a].done = @ \cup {c}]
        /\ UNCHANGED <<cache, reader, unflushed, crossed>>
        /\ version[c] < MaxVersion
    BY <1>7 DEF Write
  <2>2. version' \in Views
    BY <2>1, CatalogueAssumption DEF TypeOK, Views
  <2>3. admin' \in [Admins -> Changes]
    BY <2>1 DEF TypeOK, Changes
  <2>4. \A x \in Admins : admin'[x].done = IF x = a THEN admin[x].done \cup {c}
                                                    ELSE admin[x].done
    BY <2>1 DEF TypeOK, Changes
  <2>5. Pending(c)' /\ \A d \in Categories : Pending(d) => Pending(d)'
    BY <2>4 DEF Pending
  <2>6. \A d \in Categories \ {c} : version'[d] = version[d]
    BY <2>1 DEF TypeOK, Views
  <2>7. TypeOK' /\ FillsHaveView'
    BY <2>1, <2>2, <2>3 DEF TypeOK, FillsHaveView
  <2>8. FillIsExcused'
    BY <2>1, <2>5, <2>6 DEF FillIsExcused, Excused
  <2>9. StaleIsExcused'
    BY <2>1, <2>5, <2>6 DEF StaleIsExcused
  <2> QED
    BY <2>7, <2>8, <2>9
<1>8. ASSUME NEW a \in Admins, NEW c \in Categories, WriteFails(a, c)
      PROVE  IInv'
  <2> DEFINE flag == admin[a].pc = "pricing"
  <2>1. /\ admin' = [admin EXCEPT ![a].todo = @ \ {c}, ![a].failed = flag]
        /\ UNCHANGED <<version, cache, reader, unflushed, crossed>>
    BY <1>8 DEF WriteFails
  <2>2. flag \in BOOLEAN
    OBVIOUS
  <2> HIDE DEF flag
  <2>3. admin' \in [Admins -> Changes]
    BY <2>1, <2>2 DEF TypeOK, Changes
  <2>4. \A x \in Admins : admin'[x].done = admin[x].done
    BY <2>1 DEF TypeOK, Changes
  <2>5. \A d \in Categories : Excused(d) => Excused(d)'
    BY <2>1, <2>4 DEF Excused, Pending
  <2>6. unflushed' \subseteq Categories
    BY <2>1 DEF TypeOK
  <2> QED
    BY <2>1, <2>3, <2>5, <2>6, AdminStep
<1>9. ASSUME NEW a \in Admins, Clear(a) PROVE IInv'
  <2>1. Flushed /\ version' = version
    BY <1>9 DEF Clear
  <2>2. admin' \in [Admins -> Changes]
    BY <1>9 DEF Clear, TypeOK, NoChange, Changes
  <2> QED
    BY <2>1, <2>2, FlushedInv
<1>10. ASSUME NEW a \in Admins, Abort(a) PROVE IInv'
  <2>1. /\ unflushed' = unflushed \cup admin[a].done
        /\ admin' = [admin EXCEPT ![a] = NoChange]
        /\ UNCHANGED <<version, cache, reader, crossed>>
    BY <1>10 DEF Abort
  <2>2. admin[a].done \subseteq Categories
    BY DEF TypeOK, Changes
  <2>3. admin' \in [Admins -> Changes] /\ unflushed' \subseteq Categories
    BY <2>1, <2>2 DEF TypeOK, NoChange, Changes
  <2>4. \A x \in Admins : x # a => admin'[x] = admin[x]
    BY <2>1 DEF TypeOK
  <2>5. \A c \in Categories : Excused(c) => Excused(c)'
    BY <2>1, <2>4 DEF Excused, Pending
  <2> QED
    BY <2>1, <2>3, <2>5, AdminStep
<1>11. CASE OtherClear
  BY <1>11, FlushedInv DEF OtherClear, TypeOK
<1>12. CASE UNCHANGED vars
  BY <1>12 DEF vars, TypeOK, FillsHaveView, FillIsExcused, StaleIsExcused,
               Excused, Pending
<1> QED
  <2>1. ASSUME NEW a \in Admins, NEW items \in SUBSET Categories,
               UpdatePricing(a, items)
        PROVE  IInv'
    BY <1>6, <2>1 DEF UpdatePricing
  <2>2. ASSUME NEW a \in Admins, NEW c \in Categories,
               DeleteWasteCategory(a, c)
        PROVE  IInv'
    BY <1>6, <2>2 DEF DeleteWasteCategory
  <2> QED
    BY <1>1, <1>2, <1>3, <1>4, <1>5, <1>7, <1>8, <1>9, <1>10, <1>11, <1>12,
       <2>1, <2>2
    DEF Next

(* However GETs, changes, failures and clears overlap, a cached response   *)
(* that is older than the catalogue is about to be cleared, or was left by *)
(* a change that failed, or was read before a clear and stored after it.   *)
THEOREM StaleResponses == Spec => []StaleIsExcused
<1>1. IInv => StaleIsExcused
  BY DEF IInv
<1> QED
  BY <1>1, InitInv, StepInv, PTL DEF Spec

(* What is stored under a URL is always a response of the catalogue.       *)
THEOREM TypeCorrect == Spec => []TypeOK
<1>1. IInv => TypeOK
  BY DEF IInv, TypeInv
<1> QED
  BY <1>1, InitInv, StepInv, PTL DEF Spec
===============================================================================
