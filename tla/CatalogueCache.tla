---------------------------- MODULE CatalogueCache ----------------------------
(***************************************************************************)
(* The response cache in front of the public catalogue of waste categories *)
(* and prices.  Anonymous GETs are answered from memory by URL; a miss     *)
(* asks the database, and the answer is stored when it comes.  An admin's  *)
(* change writes its rows, each an await of its own, and then clears the   *)
(* whole cache; nothing ties a fill to the clears that happen before it    *)
(* ends.                                                                   *)
(***************************************************************************)
EXTENDS Naturals

CONSTANTS
  Categories,  \* waste categories, each with its pricing
  Urls,        \* /public/pricing, /public/waste-categories, /waste-types
  Readers,     \* slots for GETs that missed the cache
  Admins,      \* slots for catalogue changes under way
  MaxVersion,  \* bound: a category is written this often
  Nothing      \* no response under the URL

ASSUME CatalogueAssumption ==
  /\ MaxVersion \in Nat
  /\ Nothing \notin [Categories -> 0..MaxVersion]

VARIABLES
  version,    \* what the database holds: the number of writes per category
  cache,      \* the stored responses
  reader,     \* GETs that wait for the database or are about to store
  admin,      \* changes that write or are about to clear
  unflushed,  \* history: written by a change that failed, no clear since
  crossed     \* history: URLs filled with a response read before a clear

vars == <<version, cache, reader, admin, unflushed, crossed>>

Views == [Categories -> 0..MaxVersion]

NoGet    == [pc |-> "idle"]
NoChange == [pc |-> "idle", todo |-> {}, done |-> {}, failed |-> FALSE]

(* cleared: a clear came after the database answered.                      *)
Get(pc, url, view, cleared) ==
  [pc |-> pc, url |-> url, view |-> view, cleared |-> cleared]

Gets    == [pc: {"query", "fill"}, url: Urls, view: Views \cup {Nothing},
            cleared: BOOLEAN]
Changes == [pc: {"idle", "pricing", "delete"}, todo: SUBSET Categories,
            done: SUBSET Categories, failed: BOOLEAN]

TypeOK ==
  /\ version \in Views
  /\ cache \in [Urls -> Views \cup {Nothing}]
  /\ reader \in [Readers -> {NoGet} \cup Gets]
  /\ admin \in [Admins -> Changes]
  /\ unflushed \subseteq Categories
  /\ crossed \subseteq Urls

Init ==
  /\ version = [c \in Categories |-> 0]
  /\ cache = [u \in Urls |-> Nothing]
  /\ reader = [r \in Readers |-> NoGet]
  /\ admin = [a \in Admins |-> NoChange]
  /\ unflushed = {}
  /\ crossed = {}

-----------------------------------------------------------------------------
(***************************************************************************)
(* GETs.  A hit changes nothing.                                           *)
(***************************************************************************)
Miss(r, u) ==
  /\ reader[r] = NoGet
  /\ cache[u] = Nothing
  /\ reader' = [reader EXCEPT ![r] = Get("query", u, Nothing, FALSE)]
  /\ UNCHANGED <<version, cache, admin, unflushed, crossed>>

(* Mutant of Answer: categories that never had a price are left out.       *)
AnswerPriced(r) ==
  /\ reader[r].pc = "query"
  /\ reader' = [reader EXCEPT
       ![r] = Get("fill", reader[r].url,
                  [c \in {d \in Categories : version[d] > 0} |-> version[c]],
                  FALSE)]
  /\ UNCHANGED <<version, cache, admin, unflushed, crossed>>

(* The database answers the query of a miss.                               *)
Answer(r) ==
  /\ reader[r].pc = "query"
  /\ reader' = [reader EXCEPT ![r] = Get("fill", reader[r].url, version, FALSE)]
  /\ UNCHANGED <<version, cache, admin, unflushed, crossed>>

(* CacheInterceptor stores the response, whatever is there by now.         *)
Fill(r) ==
  LET q == reader[r]
  IN  /\ q.pc = "fill"
      /\ cache' = [cache EXCEPT ![q.url] = q.view]
      /\ crossed' = IF q.cleared THEN crossed \cup {q.url}
                                 ELSE crossed \ {q.url}
      /\ reader' = [reader EXCEPT ![r] = NoGet]
      /\ UNCHANGED <<version, admin, unflushed>>

(* The query failed, or withDbTimeout gave it up: nothing is stored.       *)
GiveUp(r) ==
  /\ reader[r].pc = "query"
  /\ reader' = [reader EXCEPT ![r] = NoGet]
  /\ UNCHANGED <<version, cache, admin, unflushed, crossed>>

(* Mutant of Expire: entries that never expire.                            *)
NeverExpire(u) == cache[u] = Nothing /\ UNCHANGED vars

(* The time to live of an entry is over.                                   *)
Expire(u) ==
  /\ cache[u] # Nothing
  /\ cache' = [cache EXCEPT ![u] = Nothing]
  /\ crossed' = crossed \ {u}
  /\ UNCHANGED <<version, reader, admin, unflushed>>

-----------------------------------------------------------------------------
(***************************************************************************)
(* Changes of the catalogue.                                               *)
(***************************************************************************)
Flushed ==
  /\ cache' = [u \in Urls |-> Nothing]
  /\ reader' = [r \in Readers |->
                  IF reader[r] = NoGet THEN NoGet
                  ELSE [reader[r] EXCEPT !.cleared = @ \/ reader[r].pc = "fill"]]
  /\ unflushed' = {}
  /\ crossed' = {}

(* updatePricing starts the upserts of its items together; creating and    *)
(* updating a category is the case of one item.                            *)
Start(a, pc, items) ==
  /\ admin[a] = NoChange
  /\ admin' = [admin EXCEPT ![a] = [NoChange EXCEPT !.pc = pc, !.todo = items]]
  /\ UNCHANGED <<version, cache, reader, unflushed, crossed>>

UpdatePricing(a, items)   == items # {} /\ Start(a, "pricing", items)
DeleteWasteCategory(a, c) == Start(a, "delete", {c})

Write(a, c) ==
  /\ c \in admin[a].todo
  /\ version[c] < MaxVersion
  /\ version' = [version EXCEPT ![c] = @ + 1]
  /\ admin' = [admin EXCEPT ![a].todo = @ \ {c}, ![a].done = @ \cup {c}]
  /\ UNCHANGED <<cache, reader, unflushed, crossed>>

(* One write is refused.  Promise.all rejects, yet the other upserts run   *)
(* on; a delete that fails is ignored.                                     *)
WriteFails(a, c) ==
  /\ c \in admin[a].todo
  /\ admin' = [admin EXCEPT ![a].todo = @ \ {c},
                            ![a].failed = admin[a].pc = "pricing"]
  /\ UNCHANGED <<version, cache, reader, unflushed, crossed>>

(* Mutant of Clear: one key is deleted.                                    *)
DeleteKey(a) ==
  /\ admin[a].pc # "idle" /\ admin[a].todo = {} /\ ~admin[a].failed
  /\ cache' = [cache EXCEPT ![CHOOSE u \in Urls : TRUE] = Nothing]
  /\ admin' = [admin EXCEPT ![a] = NoChange]
  /\ UNCHANGED <<version, reader, unflushed, crossed>>

Clear(a) ==
  /\ admin[a].pc # "idle" /\ admin[a].todo = {} /\ ~admin[a].failed
  /\ Flushed
  /\ admin' = [admin EXCEPT ![a] = NoChange]
  /\ UNCHANGED version

(* A change that failed answers with an error and does not clear.          *)
Abort(a) ==
  /\ admin[a].pc # "idle" /\ admin[a].todo = {} /\ admin[a].failed
  /\ unflushed' = unflushed \cup admin[a].done
  /\ admin' = [admin EXCEPT ![a] = NoChange]
  /\ UNCHANGED <<version, cache, reader, crossed>>

(* Bookings, users, drivers and notifications clear the cache as well.     *)
OtherClear == Flushed /\ UNCHANGED <<version, admin>>

Next ==
  \/ \E r \in Readers, u \in Urls : Miss(r, u)
  \/ \E r \in Readers : Answer(r) \/ Fill(r) \/ GiveUp(r)
  \/ \E u \in Urls : Expire(u)
  \/ \E a \in Admins, items \in SUBSET Categories : UpdatePricing(a, items)
  \/ \E a \in Admins, c \in Categories :
       DeleteWasteCategory(a, c) \/ Write(a, c) \/ WriteFails(a, c)
  \/ \E a \in Admins : Clear(a) \/ Abort(a)
  \/ OtherClear

Spec == Init /\ [][Next]_vars

(* Timers of the cache fire, and an answered query goes on to its fill.    *)
FairSpec ==
  /\ Spec
  /\ \A u \in Urls : WF_vars(Expire(u))
  /\ \A r \in Readers : WF_vars(Fill(r))

-----------------------------------------------------------------------------
Pending(c) == \E a \in Admins : c \in admin[a].done

(* A response older than the database has one of three excuses: the change *)
(* has not cleared yet; the change failed half-way and cleared nothing; or *)
(* the response was read before a clear and stored after it.               *)
StaleIsExcused ==
  \A u \in Urls, c \in Categories :
    cache[u] # Nothing /\ cache[u][c] # version[c] =>
      Pending(c) \/ c \in unflushed \/ u \in crossed

(* Once the catalogue rests, stale responses disappear for good, the late  *)
(* fills and the leftovers of failed changes too.                          *)
EventuallyFresh == <>[](\A u \in Urls : cache[u] \in {Nothing, version})
=============================================================================
