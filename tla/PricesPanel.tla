------------------------------ MODULE PricesPanel ------------------------------
(***************************************************************************)
(* The administrator's page of prices and waste categories                 *)
(* (admin/waste/page.tsx): a row for every price, and one of zeros for     *)
(* every category without, put together from two queries that are answered *)
(* in either order; Save sends all rows and can be pressed at any time.    *)
(***************************************************************************)
EXTENDS Naturals

CONSTANTS Kinds, NoRow, Unanswered, Wanted, MaxSaves

ASSUME PricesAssumption ==
  NoRow \notin Nat \cup [price : Nat, from : {"loaded", "added", "typed"}] /\ MaxSaves \in Nat

VARIABLES prices,     \* prices[c]: the price in the database, or NoRow
          exists,     \* categories in the database
          pricing,    \* data of the query "pricing", or Unanswered
          categories, \* data of "waste-categories", or Unanswered
          queries,    \* queries[q]: Unanswered (idle), Wanted, or the answer
          priceItems, \* items
          saves,      \* calls under way
          made        \* calls, and changes by another administrator, so far

pricesVars == <<prices, exists, pricing, categories, queries, priceItems, saves, made>>

PricesInit ==
  /\ exists \in SUBSET Kinds
  /\ prices \in {f \in [Kinds -> {NoRow, 1}] : \A c \in Kinds \ exists : f[c] = NoRow}
  /\ pricing = Unanswered /\ categories = Unanswered
  /\ queries = [q \in {"pricing", "categories"} |-> Wanted]
  /\ priceItems = [c \in Kinds |-> NoRow]
  /\ saves = {} /\ made = 0

AnswerQuery(q) ==
  /\ queries[q] = Wanted
  /\ queries' = [queries EXCEPT ![q] = IF q = "pricing" THEN prices ELSE exists]
  /\ UNCHANGED <<prices, exists, pricing, categories, priceItems, saves, made>>

QueryFails(q) ==
  /\ queries[q] = Wanted /\ queries' = [queries EXCEPT ![q] = Unanswered]
  /\ UNCHANGED <<prices, exists, pricing, categories, priceItems, saves, made>>

FromAnswer(c) == [price |-> pricing'[c], from |-> "loaded"]

(* The effects run for an answer that differs from the one before.         *)
(* Mutant: rows that are there already are kept.                           *)
TakePricingOnce ==
  /\ queries["pricing"] \notin {Unanswered, Wanted}
  /\ pricing' = queries["pricing"] /\ queries' = [queries EXCEPT !["pricing"] = Unanswered]
  /\ priceItems' = [c \in Kinds |-> IF priceItems[c] # NoRow \/ pricing'[c] = NoRow THEN priceItems[c] ELSE FromAnswer(c)]
  /\ UNCHANGED <<prices, exists, categories, saves, made>>

TakePricing ==
  /\ queries["pricing"] \notin {Unanswered, Wanted}
  /\ pricing' = queries["pricing"] /\ queries' = [queries EXCEPT !["pricing"] = Unanswered]
  /\ priceItems' = IF pricing' = pricing THEN priceItems
             ELSE [c \in Kinds |-> IF pricing'[c] = NoRow THEN NoRow ELSE FromAnswer(c)]
  /\ UNCHANGED <<prices, exists, categories, saves, made>>

TakeCategories ==
  /\ queries["categories"] \notin {Unanswered, Wanted}
  /\ categories' = queries["categories"] /\ queries' = [queries EXCEPT !["categories"] = Unanswered]
  /\ priceItems' = IF categories' = categories THEN priceItems
             ELSE [c \in Kinds |-> IF c \in categories' /\ priceItems[c] = NoRow
                                   THEN [price |-> 0, from |-> "added"] ELSE priceItems[c]]
  /\ UNCHANGED <<prices, exists, pricing, saves, made>>

(* Nothing can be typed before the prices are there, or could not be had.  *)
TypePrice(c) ==
  /\ priceItems[c] # NoRow
  /\ pricing # Unanswered \/ queries["pricing"] = Unanswered
  /\ priceItems' = [priceItems EXCEPT ![c] = [price |-> 2, from |-> "typed"]]
  /\ UNCHANGED <<prices, exists, pricing, categories, queries, saves, made>>

PressButton(call) ==
  /\ made < MaxSaves /\ made' = made + 1
  /\ saves' = saves \cup {[call EXCEPT !.id = made]}
  /\ UNCHANGED <<prices, exists, pricing, categories, queries, priceItems>>

Commands ==
  [op : {"save"}, stage : {"sent"}, id : {0}, priceItems : {priceItems}]
    \cup [op : {"create", "delete"}, stage : {"sent"}, id : {0}, c : Kinds]

(* Rows of a category that is gone fail; the others are written all the    *)
(* same, and the answer is an error.                                       *)
ServeSave(k) ==
  /\ k.op = "save" /\ k.stage = "sent"
  /\ prices' = [c \in Kinds |-> IF k.priceItems[c] # NoRow /\ c \in exists THEN k.priceItems[c].price ELSE prices[c]]
  /\ saves' = (saves \ {k}) \cup
       {[k EXCEPT !.stage = IF \A c \in Kinds \ exists : k.priceItems[c] = NoRow THEN "ok" ELSE "error"]}
  /\ UNCHANGED <<exists, pricing, categories, queries, priceItems, made>>

(* A category with a price cannot be deleted: the answer is a success.     *)
ServeCategory(k) ==
  /\ k.op # "save" /\ k.stage = "sent"
  /\ exists' = IF k.op = "create" THEN exists \cup {k.c}
               ELSE IF prices[k.c] = NoRow THEN exists \ {k.c} ELSE exists
  /\ saves' = (saves \ {k}) \cup {[k EXCEPT !.stage = IF k.op = "create" /\ k.c \in exists THEN "error" ELSE "ok"]}
  /\ UNCHANGED <<prices, pricing, categories, queries, priceItems, made>>

(* Only a success fetches again: prices, and categories if they changed.   *)
TakeAnswer(k) ==
  /\ k.stage \in {"ok", "error"} /\ saves' = saves \ {k}
  /\ queries' = IF k.stage = "error" THEN queries
               ELSE [q \in DOMAIN queries |-> IF q = "pricing" \/ k.op # "save" THEN Wanted ELSE queries[q]]
  /\ UNCHANGED <<prices, exists, pricing, categories, priceItems, made>>

ByAnother(c) ==
  /\ made < MaxSaves /\ made' = made + 1
  /\ \/ c \in exists /\ prices' = [prices EXCEPT ![c] = 3] /\ UNCHANGED exists
     \/ c \in exists /\ prices[c] = NoRow /\ exists' = exists \ {c} /\ UNCHANGED prices
  /\ UNCHANGED <<pricing, categories, queries, priceItems, saves>>

PricesNext ==
  \/ TakePricing \/ TakeCategories
  \/ \E q \in {"pricing", "categories"} : AnswerQuery(q) \/ QueryFails(q)
  \/ \E c \in Kinds : TypePrice(c) \/ ByAnother(c)
  \/ \E call \in Commands : PressButton(call)
  \/ \E k \in saves : ServeSave(k) \/ ServeCategory(k) \/ TakeAnswer(k)

PricesSpec == PricesInit /\ [][PricesNext]_pricesVars

(* What Save would send for a category that nobody typed a price for is    *)
(* the price last loaded; zeros only when none was loaded, which is also   *)
(* so before the prices have been answered.                                *)
RowsFromPrices ==
  \A c \in Kinds : priceItems[c] # NoRow =>
    /\ priceItems[c].from = "loaded" => pricing # Unanswered /\ priceItems[c].price = pricing[c]
    /\ priceItems[c].from = "added" => pricing = Unanswered \/ pricing[c] = NoRow
=============================================================================
