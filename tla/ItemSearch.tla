----------------------------- MODULE ItemSearch -----------------------------
(***************************************************************************)
(* The purchases of a house and the search over them: receipts and items   *)
(* in PostgreSQL, written by the worker and deleted by the API, and        *)
(* SearchItemsByHouse as a query over them.                                *)
(*                                                                         *)
(* A definition introduced by "Wrong:" is no part of the model: it is the  *)
(* next definition with a mistake the code could have made.                *)
(***************************************************************************)
EXTENDS DetailBarcodes, FiniteSets

CONSTANTS
  Houses,          \* houses
  Papers,          \* the receipts that may be scanned
  Texts,           \* texts of description searches
  Containing,      \* the descriptions that contain a text
  Periods,         \* lengths of time
  AllTime,         \* no period
  NoReceipt,       \* a receipt that is not stored
  ItemSearchLimit, \* groups an answer may have
  MaxReceipts,     \* receipts ever stored (bounds the model)
  MaxTime           \* the last time (bounds the model)

ASSUME SearchAssumption ==
  /\ Papers \subseteq Paper
  /\ Containing \in [Texts -> SUBSET Descriptions]
  /\ Periods \subseteq Nat /\ AllTime \notin Periods
  /\ ItemSearchLimit \in Nat \ {0}
  /\ MaxReceipts \in Nat /\ MaxTime \in Nat

ReceiptIds == 1 .. MaxReceipts
Receipt == [house: Houses, issued: 0 .. MaxTime, paper: Papers, itemized: BOOLEAN]

ASSUME ReceiptsAssumption == NoReceipt \notin Receipt

VARIABLES
  receipts,  \* the table receipts
  items,     \* the table items
  lastId,    \* the sequence behind receipts.id
  lastItem,  \* the sequence behind items.id
  now      \* NOW(), in some unit

vars == <<receipts, items, lastId, lastItem, now>>

\* line is the item's place on its receipt.
Row == [id: Nat, receipt: ReceiptIds, line: Nat, item: Item]

Init ==
  /\ receipts = [r \in ReceiptIds |-> NoReceipt]
  /\ items = {}
  /\ lastId = 0 /\ lastItem = 0
  /\ now = 0

Stored(r) == receipts[r] # NoReceipt

-----------------------------------------------------------------------------
(***************************************************************************)
(* What happens to the tables                                              *)
(***************************************************************************)

\* CreateReceipt: a paper is scanned when it was issued or later.
CreateReceipt(h, paper) ==
  /\ lastId < MaxReceipts
  /\ lastId' = lastId + 1
  /\ \E time \in 0 .. now :
       receipts' = [receipts EXCEPT ![lastId + 1] =
                      [house |-> h, issued |-> time, paper |-> paper, itemized |-> FALSE]]
  /\ UNCHANGED <<items, lastItem, now>>

\* CreateItems: one batch.
CreateItems(r) ==
  /\ Stored(r) /\ ~receipts[r].itemized
  /\ LET stored == StoredItems(receipts[r].paper)
     IN  /\ items' = items \cup {[id |-> lastItem + i, receipt |-> r, line |-> i,
                                  item |-> stored[i]] : i \in DOMAIN stored}
         /\ lastItem' = lastItem + Len(stored)
  /\ receipts' = [receipts EXCEPT ![r].itemized = TRUE]
  /\ UNCHANGED <<lastId, now>>

\* Wrong: the items of a deleted receipt stay.
DeleteByIDAndHouseOnly(r) ==
  /\ Stored(r)
  /\ receipts' = [receipts EXCEPT ![r] = NoReceipt]
  /\ UNCHANGED <<items, lastId, lastItem, now>>

\* DeleteByIDAndHouse: items.receipt_id cascades.
DeleteByIDAndHouse(r) ==
  /\ Stored(r)
  /\ receipts' = [receipts EXCEPT ![r] = NoReceipt]
  /\ items' = {row \in items : row.receipt # r}
  /\ UNCHANGED <<lastId, lastItem, now>>

TimePasses ==
  /\ now < MaxTime
  /\ now' = now + 1
  /\ UNCHANGED <<receipts, items, lastId, lastItem>>

HouseStep(h) ==
  \/ \E paper \in Papers : CreateReceipt(h, paper)
  \/ \E r \in ReceiptIds :
       /\ Stored(r) /\ receipts[r].house = h
       /\ CreateItems(r) \/ DeleteByIDAndHouse(r)

Next == TimePasses \/ \E h \in Houses : HouseStep(h)

Spec == Init /\ [][Next]_vars

-----------------------------------------------------------------------------
(***************************************************************************)
(* SearchItemsByHouse                                                      *)
(***************************************************************************)

\* IsBarcodeQuery decides which of the two a query is.
Query == [by: {"barcode"}, arg: Barcodes] \cup [by: {"description"}, arg: Texts]

Matches(row, query) ==
  IF query.by = "barcode" THEN row.item.barcode = query.arg
  ELSE row.item.description \in Containing[query.arg]

Issued(row) == receipts[row.receipt].issued

Within(row, period) == period = AllTime \/ Issued(row) + period >= now

\* Wrong: the items of every house.
EligibleAnywhere(h, query, period) ==
  {row \in items : Matches(row, query) /\ Within(row, period)}

\* eligible: items joined with their receipts.
Eligible(h, query, period) ==
  {row \in items : /\ receipts[row.receipt].house = h
                   /\ Matches(row, query)
                   /\ Within(row, period)}

\* A barcode has digits only, and the other keys begin with "desc:".
GroupKey(row) ==
  IF row.item.barcode # NoBarcode THEN <<"barcode", row.item.barcode>>
  ELSE <<"desc", row.item.description>>

\* ORDER BY issued_at DESC, id DESC
Later(a, b) == Issued(a) > Issued(b) \/ (Issued(a) = Issued(b) /\ a.id > b.id)

\* The rows of a group, and a row's ROW_NUMBER() among them.
Group(row, eligible) == {other \in eligible : GroupKey(other) = GroupKey(row)}
RowNumber(row, eligible) == 1 + Cardinality({other \in Group(row, eligible) : Later(other, row)})

\* Wrong: the first purchase of the group as the previous one.
PreviousIsFirst(last, eligible) ==
  {row \in Group(last, eligible) :
     row # last /\ RowNumber(row, eligible) = Cardinality(Group(last, eligible))}

\* prev_purchase: none when there was one purchase only.
Previous(last, eligible) == {row \in Group(last, eligible) : RowNumber(row, eligible) = 2}

\* ItemSearchAggregate: last and previous purchase, and how many there were.
Aggregate(last, eligible) ==
  [key |-> GroupKey(last), last |-> last, lastPurchasedAt |-> Issued(last),
   previous |-> Previous(last, eligible), count |-> Cardinality(Group(last, eligible))]

\* All groups, before the limit.
AggregatesOf(eligible) ==
  {Aggregate(last, eligible) : last \in {row \in eligible : RowNumber(row, eligible) = 1}}

Aggregates(h, query, period) == AggregatesOf(Eligible(h, query, period))

\* ORDER BY last_purchased_at DESC, receipt_id DESC: groups that were last
\* bought on one receipt come in any order.
Ahead(a, b) ==
  \/ a.lastPurchasedAt > b.lastPurchasedAt
  \/ a.lastPurchasedAt = b.lastPurchasedAt /\ a.last.receipt > b.last.receipt

Shown(all) == IF Cardinality(all) > ItemSearchLimit THEN ItemSearchLimit ELSE Cardinality(all)

\* The groups an answer may have.
Firsts(all) ==
  {S \in SUBSET all : Cardinality(S) = Shown(all) /\ \A a \in S, b \in all \ S : ~Ahead(b, a)}

\* Wrong: LIMIT 50, which leaves nothing to tell.
AnswersOfLimit50(all) == {[items |-> S, truncated |-> FALSE] : S \in Firsts(all)}

\* What the server may answer: LIMIT 51, of which the last is only told.
AnswersOf(all) ==
  {[items |-> S, truncated |-> Cardinality(all) > ItemSearchLimit] : S \in Firsts(all)}

Answers(h, query, period) == AnswersOf(Aggregates(h, query, period))

(***************************************************************************)
(* Properties                                                              *)
(***************************************************************************)

AnyPeriod == Periods \cup {AllTime}

\* Types; an item belongs to a receipt that is stored, and has an id of its
\* own, on which the order of purchases rests.
TypeOK ==
  /\ receipts \in [ReceiptIds -> Receipt \cup {NoReceipt}]
  /\ items \subseteq Row
  /\ lastId \in 0 .. MaxReceipts /\ lastItem \in Nat /\ now \in 0 .. MaxTime
  /\ \A r \in ReceiptIds : Stored(r) => r <= lastId
  /\ \A row \in items : /\ row.id \in 1 .. lastItem
                        /\ Stored(row.receipt) /\ receipts[row.receipt].itemized
  /\ \A a, b \in items : a.id = b.id => a = b

\* query1 and period1 find no more than query2 and period2.
Narrower(query1, period1, query2, period2) ==
  /\ query1.by = query2.by
  /\ IF query1.by = "barcode" THEN query1.arg = query2.arg
     ELSE Containing[query1.arg] \subseteq Containing[query2.arg]
  /\ period2 = AllTime \/ (period1 # AllTime /\ period1 <= period2)

\* Somebody who widens the search finds every product again, bought as often or
\* more often, and last bought then or later, unless the wider answer says that
\* it is truncated.  When only the period was widened, with the same last
\* purchase and the same previous one, and then also in a truncated answer, as
\* long as the narrower one was not: what comes in addition is older.
WiderSearchAgrees ==
  \A h \in Houses : \A query1, query2 \in Query : \A period1, period2 \in AnyPeriod :
    Narrower(query1, period1, query2, period2) =>
      \A narrow \in Answers(h, query1, period1), wide \in Answers(h, query2, period2) :
        ~wide.truncated \/ (query1 = query2 /\ ~narrow.truncated) =>
          \A a \in narrow.items : \E b \in wide.items :
            /\ a.key = b.key /\ a.count <= b.count
            /\ ~Later(a.last, b.last)
            /\ query1 = query2 => /\ a.last = b.last
                                  /\ a.previous # {} => a.previous = b.previous

\* Nothing a house does changes what another finds.
OtherHousesUnmoved ==
  [][\A h, other \in Houses :
       h # other /\ HouseStep(h) =>
         \A query \in Query : \A period \in AnyPeriod :
           Answers(other, query, period)' = Answers(other, query, period)]_vars

\* When a receipt is deleted, products that were not on it stay as they were.
\* One that was on it loses the purchases made there; if its last purchase was
\* one of them and the previous was not, the previous becomes the last.  This
\* is about all groups, before the limit.
DeletionRevealsPrevious ==
  [][\A r \in ReceiptIds : Stored(r) /\ ~Stored(r)' =>
       \A h \in Houses : \A query \in Query : \A period \in AnyPeriod :
         \A a \in Aggregates(h, query, period) :
           LET lost == {row \in Eligible(h, query, period) :
                          GroupKey(row) = a.key /\ row.receipt = r}
               first == IF a.last.receipt # r THEN {a.last}
                        ELSE {row \in a.previous : row.receipt # r}
           IN  /\ lost = {} => a \in Aggregates(h, query, period)'
               /\ \A row \in first :
                    \E b \in Aggregates(h, query, period)' :
                      b.key = a.key /\ b.last = row /\ b.count = a.count - Cardinality(lost)]_vars
=============================================================================
