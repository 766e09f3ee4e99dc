----------------------------- MODULE CursorPages -----------------------------
(***************************************************************************)
(* cursorPaginate and a client that pages through a list with it, while    *)
(* rows are created, deleted and leave the filter of the list (a booking   *)
(* whose status changes).  Lists are ordered by createdAt, newest first,   *)
(* and by id where that is the same: Prisma adds the id to the order of a  *)
(* query with take.  A row's number is its place in this order; those of   *)
(* bookings made side by side need not be in the order of the inserts.     *)
(***************************************************************************)
EXTENDS Naturals, Sequences, FiniteSets, SequencesExt

CONSTANTS
  Limit,    \* rows of a page
  MaxRows,  \* bound: rows ever created
  NoCursor  \* null, or a parameter that is left out

ASSUME PagesAssumption ==
  /\ Limit \in Nat \ {0}
  /\ MaxRows \in Nat
  /\ NoCursor \notin 1..MaxRows

VARIABLES
  created,  \* the rows created so far
  rows,     \* the rows that exist
  matching, \* those of them that satisfy the list's filter
  page,     \* the page the client shows
  walk      \* history: the rows at the first page, those shown since by
            \* going forward, in turn, and whether every cursor was still in
            \* the list

vars == <<created, rows, matching, page, walk>>

Ids     == 1..MaxRows
Cursors == Ids \cup {NoCursor}

Page(items, next, prev) == [items |-> items, next |-> next, prev |-> prev]

(* The k-th row of the list is the one with k - 1 newer ones.              *)
NewestFirst(S) ==
  [k \in 1..Cardinality(S) |->
     CHOOSE i \in S : Cardinality({j \in S : j > i}) + 1 = k]

AtMost(s, n) == SubSeq(s, 1, IF Len(s) < n THEN Len(s) ELSE n)

(***************************************************************************)
(* Prisma's findMany with cursor, skip and take.  The cursor row is looked *)
(* up by id, in the filter or not, and nothing is found without it; skip   *)
(* drops the first row from there on, which is the cursor row only when    *)
(* that is in the list.  A negative take goes the other way and gives the  *)
(* rows back in the order of the list.                                     *)
(***************************************************************************)
(* Mutant of Skipped: the cursor row is shown again.                       *)
Unskipped(s, cursor) == s

Skipped(s, cursor) == IF cursor = NoCursor \/ s = <<>> THEN s ELSE Tail(s)

FindForward(cursor, take) ==
  LET from == IF cursor = NoCursor THEN matching
              ELSE {i \in matching : cursor \in rows /\ i <= cursor}
  IN  AtMost(Skipped(NewestFirst(from), cursor), take)

FindBackward(cursor, take) ==
  LET from == {i \in matching : cursor \in rows /\ i >= cursor}
  IN  Reverse(AtMost(Skipped(Reverse(NewestFirst(from)), cursor), take))

-----------------------------------------------------------------------------
(***************************************************************************)
(* cursorPaginate                                                          *)
(***************************************************************************)
PageSize == Limit + 1

After(cursor) ==
  LET found == FindForward(cursor, PageSize)
      items == AtMost(found, Limit)
  IN  Page(items,
           IF Len(found) > Limit THEN Last(items) ELSE NoCursor,
           IF cursor # NoCursor /\ items # <<>> THEN items[1] ELSE NoCursor)

(* The rows that were found are reversed, and the first is dropped when    *)
(* there are more than a page.                                             *)
Before(cursor) ==
  LET ordered == Reverse(FindBackward(cursor, PageSize))
      hasPrev == Len(ordered) > Limit
      items   == IF hasPrev THEN Tail(ordered) ELSE ordered
  IN  Page(items,
           IF items = <<>> THEN NoCursor ELSE Last(items),
           IF hasPrev THEN items[1] ELSE NoCursor)

-----------------------------------------------------------------------------
Walk(start, shown, unbroken) ==
  [start |-> start, shown |-> shown, unbroken |-> unbroken]

TypeOK ==
  /\ created \subseteq Ids
  /\ rows \subseteq created
  /\ matching \subseteq rows
  /\ page.items \in Seq(Ids) /\ Len(page.items) <= Limit
  /\ page.next \in Cursors /\ page.prev \in Cursors
  /\ walk.start \subseteq Ids /\ walk.shown \in Seq(Ids)
  /\ walk.unbroken \in BOOLEAN

Init ==
  /\ created = {}
  /\ rows = {}
  /\ matching = {}
  /\ page = Page(<<>>, NoCursor, NoCursor)
  /\ walk = Walk({}, <<>>, TRUE)

Create(i) ==
  /\ i \notin created
  /\ created' = created \cup {i}
  /\ rows' = rows \cup {i}
  /\ matching' = matching \cup {i}
  /\ UNCHANGED <<page, walk>>

Delete(i) ==
  /\ i \in rows
  /\ rows' = rows \ {i}
  /\ matching' = matching \ {i}
  /\ UNCHANGED <<created, page, walk>>

LeaveFilter(i) ==
  /\ i \in matching
  /\ matching' = matching \ {i}
  /\ UNCHANGED <<created, rows, page, walk>>

(* The buttons of the client: the first page, the next and the previous.   *)
FirstPage ==
  /\ page' = After(NoCursor)
  /\ walk' = Walk(matching, page'.items, TRUE)
  /\ UNCHANGED <<created, rows, matching>>

NextPage ==
  /\ page.next # NoCursor
  /\ page' = After(page.next)
  /\ walk' = Walk(walk.start, walk.shown \o page'.items,
                  walk.unbroken /\ page.next \in matching)
  /\ UNCHANGED <<created, rows, matching>>

(* Going back ends the walk.                                               *)
PreviousPage ==
  /\ page.prev # NoCursor
  /\ page' = Before(page.prev)
  /\ walk' = Walk({}, <<>>, FALSE)
  /\ UNCHANGED <<created, rows, matching>>

Next ==
  \/ \E i \in Ids : Create(i)
  \/ \E i \in rows : Delete(i) \/ LeaveFilter(i)
  \/ FirstPage
  \/ NextPage
  \/ PreviousPage

Spec == Init /\ [][Next]_vars

-----------------------------------------------------------------------------
(* A client that goes forward to the end has seen every row that was in    *)
(* the list from its first page to its last, however many rows came and    *)
(* went; unless a cursor row left the list: then the page is empty, or     *)
(* misses a row.                                                           *)
WalkShowsAll ==
  walk.unbroken /\ page.next = NoCursor =>
    walk.start \cap matching \subseteq ToSet(walk.shown)

(* Going forward shows no row twice, cursor row or not.                    *)
NoRowTwice == IsInjective(walk.shown)

(* Paging forward shows what is there, once.                               *)
PagesInv == TypeOK /\ WalkShowsAll /\ NoRowTwice

(* pagination.ts: callers always receive items in the requested orderBy.   *)
InRequestedOrder ==
  \A k \in 1..Len(page.items) - 1 : page.items[k] > page.items[k + 1]
=============================================================================
