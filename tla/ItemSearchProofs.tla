-------------------------- MODULE ItemSearchProofs --------------------------
(***************************************************************************)
(* Theorems about ItemSearch, for any houses, papers, texts, periods and   *)
(* any limit: what one house does never changes what another finds, a      *)
(* wider search finds what a narrower one did unless it is cut off, and    *)
(* deleting a receipt reveals the purchase before it.                      *)
(***************************************************************************)
EXTENDS ItemSearch, DetailBarcodesProofs, FiniteSetTheorems, TLAPS

-----------------------------------------------------------------------------
(***************************************************************************)
(* 1. The tables                                                           *)
(***************************************************************************)

\* An item belongs to a stored receipt, and the next id is not in use.
TablesInv ==
  /\ receipts \in [ReceiptIds -> Receipt \cup {NoReceipt}]
  /\ lastId \in Nat /\ now \in 0 .. MaxTime
  /\ \A r \in ReceiptIds : Stored(r) => r <= lastId
  /\ \A row \in items : row.receipt \in ReceiptIds /\ Stored(row.receipt)

\* What changes when a receipt is created.
LEMMA CreatedReceipt ==
  ASSUME TablesInv, NEW h \in Houses, NEW paper \in Papers, CreateReceipt(h, paper)
  PROVE  /\ lastId + 1 \in ReceiptIds /\ ~Stored(lastId + 1)
         /\ receipts' \in [ReceiptIds -> Receipt \cup {NoReceipt}]
         /\ \A r \in ReceiptIds : r # lastId + 1 => receipts'[r] = receipts[r]
         /\ UNCHANGED <<items, now>>
         /\ lastId' = lastId + 1
<1>1. lastId + 1 \in ReceiptIds /\ ~Stored(lastId + 1)
  BY SearchAssumption DEF TablesInv, CreateReceipt, ReceiptIds
<1>2. PICK time \in 0 .. now :
        receipts' = [receipts EXCEPT ![lastId + 1] =
                       [house |-> h, issued |-> time, paper |-> paper, itemized |-> FALSE]]
  BY DEF CreateReceipt
<1>3. [house |-> h, issued |-> time, paper |-> paper, itemized |-> FALSE] \in Receipt
  BY SearchAssumption DEF TablesInv, Receipt
<1>4. QED
  BY <1>1, <1>2, <1>3 DEF TablesInv, CreateReceipt

\* What changes when the items of a receipt are inserted: it keeps its house and
\* date, and all new rows are its own.
LEMMA CreatedItems ==
  ASSUME TablesInv, NEW r \in ReceiptIds, CreateItems(r)
  PROVE  /\ receipts' \in [ReceiptIds -> Receipt \cup {NoReceipt}]
         /\ \A s \in ReceiptIds : s # r => receipts'[s] = receipts[s]
         /\ Stored(r) /\ Stored(r)' /\ receipts'[r].house = receipts[r].house
         /\ items \subseteq items' /\ \A row \in items' : row \in items \/ row.receipt = r
         /\ UNCHANGED <<lastId, now>>
<1>1. receipts[r] \in Receipt
  BY DEF CreateItems, Stored, TablesInv
<1>2. /\ [receipts[r] EXCEPT !.itemized = TRUE] \in Receipt
      /\ [receipts[r] EXCEPT !.itemized = TRUE].house = receipts[r].house
  BY <1>1 DEF Receipt
<1>3. receipts' = [receipts EXCEPT ![r] = [receipts[r] EXCEPT !.itemized = TRUE]]
  BY DEF CreateItems
<1>4. receipts' \in [ReceiptIds -> Receipt \cup {NoReceipt}] /\ receipts'[r] \in Receipt
  BY <1>2, <1>3 DEF TablesInv
<1>5. Stored(r) /\ Stored(r)'
  BY <1>4, ReceiptsAssumption DEF CreateItems, Stored
<1>6. items \subseteq items' /\ \A row \in items' : row \in items \/ row.receipt = r
  BY DEF CreateItems
<1>7. QED
  BY <1>2, <1>3, <1>4, <1>5, <1>6 DEF CreateItems, TablesInv

\* The tables stay sound.
LEMMA TablesStep ==
  ASSUME TablesInv, [Next]_vars
  PROVE  TablesInv'
<1>1. ASSUME NEW h \in Houses, NEW paper \in Papers, CreateReceipt(h, paper)
      PROVE  TablesInv'
  BY <1>1, CreatedReceipt DEF TablesInv, Stored, ReceiptIds
<1>2. ASSUME NEW r \in ReceiptIds, CreateItems(r)
      PROVE  TablesInv'
  BY <1>2, CreatedItems DEF TablesInv, Stored
<1>3. ASSUME NEW r \in ReceiptIds, DeleteByIDAndHouse(r)
      PROVE  TablesInv'
  BY <1>3 DEF DeleteByIDAndHouse, TablesInv, Stored
<1>4. CASE TimePasses
  BY <1>4, SearchAssumption DEF TimePasses, TablesInv, Stored
<1>5. CASE UNCHANGED vars
  BY <1>5 DEF vars, TablesInv, Stored
<1>6. QED
  BY <1>1, <1>2, <1>3, <1>4, <1>5 DEF Next, HouseStep

\* A step of one house leaves the receipts and items of another alone.
LEMMA OtherRows ==
  ASSUME TablesInv, NEW h \in Houses, NEW other \in Houses, h # other, HouseStep(h)
  PROVE  /\ now' = now
         /\ \A row \in items \cup items' :
              \/ /\ row \in items /\ row \in items'
                 /\ receipts'[row.receipt] = receipts[row.receipt]
              \/ /\ row \in items => receipts[row.receipt].house # other
                 /\ row \in items' => receipts'[row.receipt].house # other
<1>1. ASSUME NEW paper \in Papers, CreateReceipt(h, paper)
      PROVE  /\ now' = now
             /\ items' = items
             /\ \A row \in items : receipts'[row.receipt] = receipts[row.receipt]
  BY <1>1, CreatedReceipt DEF TablesInv
<1>2. ASSUME NEW r \in ReceiptIds, receipts[r].house = h, CreateItems(r)
      PROVE  /\ now' = now
             /\ \A row \in items \cup items' :
                  \/ /\ row \in items /\ row \in items'
                     /\ receipts'[row.receipt] = receipts[row.receipt]
                  \/ /\ row.receipt = r
                     /\ receipts[row.receipt].house = h /\ receipts'[row.receipt].house = h
  BY <1>2, CreatedItems DEF TablesInv
<1>3. ASSUME NEW r \in ReceiptIds, receipts[r].house = h, DeleteByIDAndHouse(r)
      PROVE  /\ now' = now
             /\ \A row \in items \cup items' :
                  \/ /\ row \in items /\ row \in items'
                     /\ receipts'[row.receipt] = receipts[row.receipt]
                  \/ row \notin items' /\ receipts[row.receipt].house = h
  BY <1>3 DEF DeleteByIDAndHouse, TablesInv
<1>4. QED
  BY <1>1, <1>2, <1>3 DEF HouseStep

-----------------------------------------------------------------------------
(***************************************************************************)
(* 2. The search                                                           *)
(***************************************************************************)

\* The groups depend on the eligible rows and their dates only.
LEMMA AggregatesRead ==
  ASSUME NEW E, \A row \in E : Issued(row)' = Issued(row)
  PROVE  AggregatesOf(E)' = AggregatesOf(E)
<1>1. \A a, b \in E : Later(a, b)' <=> Later(a, b)
  BY DEF Later
<1>2. \A row \in E : Group(row, E)' = Group(row, E) /\ Group(row, E) \subseteq E
  BY DEF Group, GroupKey
<1>3. \A row \in E : RowNumber(row, E)' = RowNumber(row, E)
  <2> SUFFICES ASSUME NEW row \in E PROVE RowNumber(row, E)' = RowNumber(row, E)
    OBVIOUS
  <2>1. {b \in Group(row, E) : Later(b, row)'} = {b \in Group(row, E) : Later(b, row)}
    BY <1>1, <1>2
  <2>2. Cardinality({b \in Group(row, E)' : Later(b, row)'})
          = Cardinality({b \in Group(row, E) : Later(b, row)})
    BY <1>2, <2>1
  <2>3. QED
    BY <2>2 DEF RowNumber
<1>4. \A row \in E : Previous(row, E)' = Previous(row, E)
  BY <1>2, <1>3 DEF Previous
<1>5. \A row \in E : Aggregate(row, E)' = Aggregate(row, E)
  BY <1>2, <1>4 DEF Aggregate, GroupKey
<1>6. {row \in E : RowNumber(row, E)' = 1} = {row \in E : RowNumber(row, E) = 1}
  BY <1>3
<1>7. QED
  BY <1>5, <1>6 DEF AggregatesOf

\* An answer depends on the groups only.
LEMMA AnswersRead ==
  ASSUME NEW S
  PROVE  AnswersOf(S)' = AnswersOf(S)
  BY DEF AnswersOf, Firsts, Shown, Ahead

\* Another house finds the same rows with the same dates.
LEMMA OtherAnswers ==
  ASSUME TablesInv, NEW h \in Houses, NEW other \in Houses, h # other, HouseStep(h),
         NEW query \in Query, NEW period \in AnyPeriod
  PROVE  Answers(other, query, period)' = Answers(other, query, period)
<1>1. now' = now
  BY OtherRows
<1>2. Eligible(other, query, period)' = Eligible(other, query, period)
  BY <1>1, OtherRows DEF Eligible, Matches, Within, Issued
<1>3. \A row \in Eligible(other, query, period) : Issued(row)' = Issued(row)
  BY <1>2, OtherRows DEF Eligible, Issued
<1>4. PICK E : E = Eligible(other, query, period)
  OBVIOUS
<1>5. AggregatesOf(E)' = AggregatesOf(E)
  BY <1>3, <1>4, AggregatesRead
<1>6. PICK S : S = AggregatesOf(E)
  OBVIOUS
<1>7. Aggregates(other, query, period) = S /\ Aggregates(other, query, period)' = S
  BY <1>2, <1>4, <1>5, <1>6 DEF Aggregates
<1>8. QED
  BY <1>7, AnswersRead DEF Answers

\* Nothing a house does changes what another finds.
THEOREM HousesAreApart == Spec => OtherHousesUnmoved
<1>1. Init => TablesInv
  BY SearchAssumption DEF Init, TablesInv, Stored
<1>2. TablesInv /\ [Next]_vars => TablesInv'
  BY TablesStep
<1>3. TablesInv =>
        \A h, other \in Houses :
          h # other /\ HouseStep(h) =>
            \A query \in Query : \A period \in AnyPeriod :
              Answers(other, query, period)' = Answers(other, query, period)
  BY OtherAnswers
<1>4. QED
  BY <1>1, <1>2, <1>3, PTL DEF Spec, OtherHousesUnmoved

-----------------------------------------------------------------------------
(***************************************************************************)
(* 3. Types                                                                *)
(***************************************************************************)
LEMMA TypesAreSound == TypeOK => TablesInv
  BY DEF TypeOK, TablesInv, Row

\* The items of a receipt are inserted under new ids.
LEMMA InsertTypes ==
  ASSUME TypeOK, NEW r \in ReceiptIds, CreateItems(r)
  PROVE  TypeOK'
<1> DEFINE stored == StoredItems(receipts[r].paper)
           new    == {[id |-> lastItem + i, receipt |-> r, line |-> i,
                       item |-> stored[i]] : i \in DOMAIN stored}
<1>1. /\ receipts' \in [ReceiptIds -> Receipt \cup {NoReceipt}]
      /\ \A s \in ReceiptIds : s # r => receipts'[s] = receipts[s]
      /\ Stored(r) /\ Stored(r)' /\ UNCHANGED <<lastId, now>>
  BY TypesAreSound, CreatedItems
<1>2. receipts[r] \in Receipt /\ receipts[r].paper \in Paper
  BY <1>1, SearchAssumption DEF TypeOK, Stored, Receipt
<1>3. receipts'[r].itemized
  <2>1. receipts' = [receipts EXCEPT ![r] = [receipts[r] EXCEPT !.itemized = TRUE]]
    BY DEF CreateItems
  <2>2. receipts'[r] = [receipts[r] EXCEPT !.itemized = TRUE]
    BY <2>1 DEF TypeOK
  <2>3. QED
    BY <1>2, <2>2 DEF Receipt
<1>4. /\ stored \in Seq(Item) /\ Len(stored) \in Nat /\ DOMAIN stored = 1 .. Len(stored)
      /\ \A i \in 1 .. Len(stored) : stored[i] \in Item
  <2>1. stored \in Seq(Item)
    BY <1>2, StoredFromWhole, StoredAfterType
  <2> HIDE DEF stored
  <2>2. QED
    BY <2>1, LenProperties, ElementOfSeq
<1>5. items' = items \cup new /\ lastItem' = lastItem + Len(stored)
  BY DEF CreateItems
<1> HIDE DEF stored
<1>6. \A row \in new : \E i \in 1 .. Len(stored) :
        row = [id |-> lastItem + i, receipt |-> r, line |-> i, item |-> stored[i]]
  BY <1>4
<1>7. lastItem \in Nat /\ lastItem' \in Nat /\ 1 .. lastItem \subseteq 1 .. lastItem'
  BY <1>4, <1>5 DEF TypeOK
<1>8. \A row \in new : /\ row \in Row /\ row.receipt = r
                       /\ row.id \in 1 .. lastItem' /\ row.id > lastItem
  BY <1>4, <1>5, <1>6, <1>7 DEF Row
<1>9. \A a, b \in new : a.id = b.id => a = b
  <2> SUFFICES ASSUME NEW a \in new, NEW b \in new, a.id = b.id PROVE a = b
    OBVIOUS
  <2>1. PICK i \in 1 .. Len(stored) :
          a = [id |-> lastItem + i, receipt |-> r, line |-> i, item |-> stored[i]]
    BY <1>6
  <2>2. PICK j \in 1 .. Len(stored) :
          b = [id |-> lastItem + j, receipt |-> r, line |-> j, item |-> stored[j]]
    BY <1>6
  <2>3. lastItem + i = lastItem + j
    BY <2>1, <2>2
  <2>4. i = j
    BY <1>4, <1>7, <2>3
  <2>5. QED
    BY <2>1, <2>2, <2>4
<1> HIDE DEF new
<1>10. \A row \in items : row.id \in 1 .. lastItem /\ row.id <= lastItem
  BY DEF TypeOK
<1>11. \A a, b \in items' : a.id = b.id => a = b
  BY <1>5, <1>7, <1>8, <1>9, <1>10 DEF TypeOK
<1>12. items' \subseteq Row
  BY <1>5, <1>8 DEF TypeOK
<1>13. \A row \in items' : /\ row.id \in 1 .. lastItem'
                           /\ Stored(row.receipt)' /\ receipts'[row.receipt].itemized
  <2>1. ASSUME NEW row \in items
        PROVE  Stored(row.receipt)' /\ receipts'[row.receipt].itemized
    <3>1. row.receipt \in ReceiptIds /\ Stored(row.receipt) /\ receipts[row.receipt].itemized
      BY DEF TypeOK, Row
    <3>2. QED
      BY <1>1, <1>3, <3>1 DEF Stored
  <2>2. QED
    BY <1>1, <1>3, <1>5, <1>7, <1>8, <1>10, <2>1
<1>14. QED
  BY <1>1, <1>7, <1>11, <1>12, <1>13 DEF TypeOK, Stored

LEMMA TypesStep == ASSUME TypeOK, [Next]_vars PROVE TypeOK'
<1>1. ASSUME NEW h \in Houses, NEW paper \in Papers, CreateReceipt(h, paper) PROVE TypeOK'
  <2>1. /\ lastId + 1 \in ReceiptIds /\ ~Stored(lastId + 1)
        /\ receipts' \in [ReceiptIds -> Receipt \cup {NoReceipt}]
        /\ \A r \in ReceiptIds : r # lastId + 1 => receipts'[r] = receipts[r]
        /\ UNCHANGED <<items, now>> /\ lastId' = lastId + 1
    BY <1>1, TypesAreSound, CreatedReceipt
  <2>2. lastItem' = lastItem
    BY <1>1 DEF CreateReceipt
  <2>3. \A row \in items : row.receipt \in ReceiptIds /\ receipts'[row.receipt] = receipts[row.receipt]
    BY <2>1 DEF TypeOK, Row
  <2>4. QED
    BY <2>1, <2>2, <2>3, SearchAssumption DEF TypeOK, Stored, ReceiptIds
<1>2. ASSUME NEW r \in ReceiptIds, DeleteByIDAndHouse(r) PROVE TypeOK'
  <2>1. /\ receipts' = [receipts EXCEPT ![r] = NoReceipt]
        /\ items' = {row \in items : row.receipt # r}
        /\ UNCHANGED <<lastId, lastItem, now>>
    BY <1>2 DEF DeleteByIDAndHouse
  <2>2. \A row \in items' : row.receipt \in ReceiptIds /\ receipts'[row.receipt] = receipts[row.receipt]
    BY <2>1 DEF TypeOK, Row
  <2>3. QED
    BY <2>1, <2>2 DEF TypeOK, Stored
<1>3. CASE TimePasses
  BY <1>3, SearchAssumption DEF TimePasses, TypeOK, Stored
<1>4. CASE UNCHANGED vars
  BY <1>4 DEF vars, TypeOK, Stored
<1>5. QED
  BY <1>1, <1>2, <1>3, <1>4, InsertTypes DEF Next, HouseStep

\* An item belongs to a receipt that is stored, and has an id of its own, for any
\* papers: on these ids the order of purchases rests.
THEOREM SearchTypes == Spec => []TypeOK
<1>1. Init => TypeOK
  BY SearchAssumption DEF Init, TypeOK, Stored
<1>2. QED
  BY <1>1, TypesStep, PTL DEF Spec

-----------------------------------------------------------------------------
(***************************************************************************)
(* 4. The order of purchases and the rows of a group                       *)
(***************************************************************************)

\* Rows the search can order: their ids tell them apart.
Ordered(E) ==
  /\ IsFiniteSet(E)
  /\ \A a \in E : a.id \in Nat /\ Issued(a) \in Nat
  /\ \A a, b \in E : a.id = b.id => a = b

\* The table of items is finite, for its ids are.
LEMMA ItemsAreOrdered ==
  ASSUME TypeOK, NEW E, E \subseteq items
  PROVE  Ordered(E)
<1>1. \A row \in E : row.id \in 1 .. lastItem /\ Issued(row) \in Nat
  <2> SUFFICES ASSUME NEW row \in E PROVE row.id \in 1 .. lastItem /\ Issued(row) \in Nat
    OBVIOUS
  <2>1. row.id \in 1 .. lastItem /\ row.receipt \in ReceiptIds /\ Stored(row.receipt)
    BY DEF TypeOK, Row
  <2>2. receipts[row.receipt] \in Receipt
    BY <2>1 DEF TypeOK, Stored
  <2>3. QED
    BY <2>1, <2>2 DEF Issued, Receipt
<1> DEFINE f == [row \in E |-> row.id]
<1>2. f \in Injection(E, 1 .. lastItem)
  BY <1>1 DEF Injection, IsInjective, TypeOK
<1>3. IsFiniteSet(1 .. lastItem)
  BY FS_Interval DEF TypeOK
<1>4. IsFiniteSet(E)
  BY <1>2, <1>3, FS_Injection
<1>5. QED
  BY <1>1, <1>4 DEF Ordered, TypeOK

\* Later is a strict total order.
LEMMA LaterOrder ==
  ASSUME NEW E, Ordered(E)
  PROVE  /\ \A a \in E : ~Later(a, a)
         /\ \A a, b \in E : Later(a, b) \/ Later(b, a) \/ a = b
         /\ \A a, b, c \in E : Later(a, b) /\ Later(b, c) => Later(a, c)
         /\ \A a, b \in E : Later(a, b) => ~Later(b, a)
  BY DEF Ordered, Later

Before(row, E) == {other \in Group(row, E) : Later(other, row)}

LEMMA GroupProperties ==
  ASSUME NEW E, Ordered(E), NEW row \in E
  PROVE  /\ Group(row, E) \subseteq E /\ row \in Group(row, E) /\ IsFiniteSet(Group(row, E))
         /\ Cardinality(Group(row, E)) \in Nat
         /\ \A other \in Group(row, E) : GroupKey(other) = GroupKey(row)
                                        /\ Group(other, E) = Group(row, E)
         /\ IsFiniteSet(Before(row, E)) /\ Cardinality(Before(row, E)) \in Nat
         /\ RowNumber(row, E) = 1 + Cardinality(Before(row, E))
<1>1. Group(row, E) \subseteq E /\ row \in Group(row, E)
  BY DEF Group
<1>2. Before(row, E) \subseteq E
  BY <1>1 DEF Before
<1>3. IsFiniteSet(Group(row, E)) /\ IsFiniteSet(Before(row, E))
  BY <1>1, <1>2, FS_Subset DEF Ordered
<1>4. \A other \in Group(row, E) : GroupKey(other) = GroupKey(row)
  BY DEF Group
<1>5. \A other \in Group(row, E) : Group(other, E) = Group(row, E)
  BY <1>4, Zenon DEF Group
<1>6. RowNumber(row, E) = 1 + Cardinality(Before(row, E))
  BY DEF RowNumber, Before
<1>7. QED
  BY <1>1, <1>3, <1>4, <1>5, <1>6, FS_CardinalityType

\* The first row of a group is the latest purchase.
LEMMA FirstRow ==
  ASSUME NEW E, Ordered(E), NEW row \in E
  PROVE  RowNumber(row, E) = 1 <=> \A other \in Group(row, E) : ~Later(other, row)
<1>1. RowNumber(row, E) = 1 <=> Cardinality(Before(row, E)) = 0
  BY GroupProperties
<1>2. Cardinality(Before(row, E)) = 0 <=> Before(row, E) = {}
  BY GroupProperties, FS_EmptySet
<1>3. QED
  BY <1>1, <1>2 DEF Before

\* Row numbers follow the order: two rows of a group never share one.
LEMMA RowNumbersDiffer ==
  ASSUME NEW E, Ordered(E), NEW a \in E, NEW b \in Group(a, E)
  PROVE  /\ Later(a, b) => RowNumber(a, E) < RowNumber(b, E)
         /\ RowNumber(a, E) = RowNumber(b, E) => a = b
<1>1. ASSUME NEW c \in E, NEW d \in E, Group(c, E) = Group(d, E), Later(c, d)
      PROVE  RowNumber(c, E) < RowNumber(d, E)
  <2>1. Before(c, E) \subseteq Before(d, E)
    BY <1>1, LaterOrder, GroupProperties DEF Before
  <2>2. c \in Before(d, E) /\ c \notin Before(c, E)
    BY <1>1, LaterOrder, GroupProperties DEF Before
  <2>3. /\ Cardinality(Before(c, E)) <= Cardinality(Before(d, E))
        /\ Cardinality(Before(c, E)) # Cardinality(Before(d, E))
    <3>1. IsFiniteSet(Before(d, E)) /\ Before(c, E) \in SUBSET Before(d, E)
      BY <2>1, GroupProperties
    <3>2. QED
      BY <2>2, <3>1, FS_Subset
  <2>4. QED
    BY <2>3, GroupProperties
<1>2. b \in E /\ Group(a, E) = Group(b, E)
  BY GroupProperties
<1>3. RowNumber(a, E) \in Nat /\ RowNumber(b, E) \in Nat
  BY <1>2, GroupProperties
<1>4. Later(a, b) => RowNumber(a, E) < RowNumber(b, E)
  BY <1>1, <1>2
<1>5. Later(b, a) => RowNumber(b, E) < RowNumber(a, E)
  BY <1>1, <1>2
<1>6. Later(a, b) \/ Later(b, a) \/ a = b
  BY <1>2, LaterOrder
<1>7. QED
  BY <1>3, <1>4, <1>5, <1>6

\* Every group has a latest purchase.
LEMMA FirstExists ==
  ASSUME NEW E, Ordered(E), NEW row \in E
  PROVE  \E first \in Group(row, E) : RowNumber(first, E) = 1
<1> DEFINE T == {RowNumber(other, E) : other \in Group(row, E)}
<1>1. \A other \in Group(row, E) : other \in E /\ RowNumber(other, E) \in Nat
  BY GroupProperties
<1>2. T \subseteq Nat /\ T # {}
  BY <1>1, GroupProperties
<1>3. PICK n \in T : \A m \in T : n <= m
  BY <1>2, Smallest
<1>4. PICK first \in Group(row, E) : n = RowNumber(first, E)
  BY <1>3
<1>5. \A other \in Group(row, E) : RowNumber(first, E) <= RowNumber(other, E)
  BY <1>3, <1>4
<1> HIDE DEF T
<1>6. \A other \in Group(first, E) : ~Later(other, first)
  <2> SUFFICES ASSUME NEW other \in Group(first, E), Later(other, first) PROVE FALSE
    OBVIOUS
  <2>1. first \in E /\ other \in Group(row, E) /\ other \in E /\ first \in Group(other, E)
    BY <1>1, <1>4, GroupProperties
  <2>2. RowNumber(other, E) < RowNumber(first, E)
    BY <2>1, RowNumbersDiffer
  <2>3. QED
    BY <1>1, <1>5, <2>1, <2>2
<1>7. QED
  BY <1>1, <1>4, <1>6, FirstRow

\* Only one row comes before the second one of a group.
LEMMA SecondRow ==
  ASSUME NEW E, Ordered(E), NEW last \in E, RowNumber(last, E) = 1,
         NEW row \in Previous(last, E)
  PROVE  row \in Group(last, E) /\ Before(row, E) = {last}
<1>1. row \in Group(last, E) /\ RowNumber(row, E) = 2 /\ row \in E
  BY GroupProperties DEF Previous
<1>2. Group(row, E) = Group(last, E)
  BY <1>1, GroupProperties
<1>3. row # last /\ ~Later(row, last) /\ Later(last, row)
  BY <1>1, FirstRow, LaterOrder
<1>4. last \in Before(row, E)
  BY <1>2, <1>3, GroupProperties DEF Before
<1>5. Cardinality(Before(row, E)) = 1
  BY <1>1, GroupProperties
<1>6. \E x : Before(row, E) = {x}
  BY <1>1, <1>5, GroupProperties, FS_Singleton
<1>7. QED
  BY <1>1, <1>4, <1>6

-----------------------------------------------------------------------------
(***************************************************************************)
(* 5. A wider search                                                       *)
(***************************************************************************)

\* Rows that come later than a row that is found are found as well: then the
\* numbers of the rows found do not depend on the others.
LEMMA SameNumbers ==
  ASSUME NEW D, NEW E, Ordered(E), D \subseteq E,
         \A a \in D, b \in E : Later(b, a) => b \in D,
         NEW row \in D
  PROVE  RowNumber(row, D) = RowNumber(row, E)
<1>1. {other \in Group(row, D) : Later(other, row)} = {other \in Group(row, E) : Later(other, row)}
  BY DEF Group
<1>2. QED
  BY <1>1 DEF RowNumber

LEMMA WiderFindsMore ==
  ASSUME TypeOK, NEW h \in Houses, NEW query1 \in Query, NEW query2 \in Query,
         NEW period1 \in AnyPeriod, NEW period2 \in AnyPeriod,
         Narrower(query1, period1, query2, period2)
  PROVE  Eligible(h, query1, period1) \subseteq Eligible(h, query2, period2)
<1> SUFFICES ASSUME NEW row \in Eligible(h, query1, period1)
             PROVE  row \in Eligible(h, query2, period2)
  OBVIOUS
<1>1. row \in items /\ Matches(row, query1) /\ Within(row, period1)
  BY DEF Eligible
<1>2. Matches(row, query2)
  BY <1>1 DEF Matches, Narrower
<1>3. Within(row, period2)
  <2>1. Ordered(items)
    BY ItemsAreOrdered
  <2>2. Issued(row) \in Nat /\ now \in Nat
    BY <1>1, <2>1, SearchAssumption DEF Ordered, TypeOK
  <2>3. CASE period2 = AllTime
    BY <2>3 DEF Within
  <2>4. CASE period2 # AllTime
    <3>1. period1 \in Nat /\ period2 \in Nat /\ period1 <= period2 /\ period1 # AllTime
      BY <2>4, SearchAssumption DEF Narrower, AnyPeriod
    <3>2. Issued(row) + period1 >= now
      BY <1>1, <3>1 DEF Within
    <3>3. Issued(row) + period2 >= now
      BY <2>2, <3>1, <3>2
    <3>4. QED
      BY <3>3 DEF Within
  <2>5. QED
    BY <2>3, <2>4
<1>4. QED
  BY <1>1, <1>2, <1>3 DEF Eligible

\* What E has besides D is older than all of D.
Older(D, E) == \A a \in D, b \in E : Issued(b) >= Issued(a) => b \in D

\* When only the period differs, what a wider search finds besides is older.
LEMMA WiderFindsOlder ==
  ASSUME TypeOK, NEW h \in Houses, NEW query \in Query, NEW period1 \in AnyPeriod,
         NEW period2 \in AnyPeriod, Narrower(query, period1, query, period2)
  PROVE  Older(Eligible(h, query, period1), Eligible(h, query, period2))
<1> SUFFICES ASSUME NEW a \in Eligible(h, query, period1), NEW b \in Eligible(h, query, period2),
                    Issued(b) >= Issued(a)
             PROVE  b \in Eligible(h, query, period1)
  BY DEF Older
<1>1. a \in items /\ b \in items /\ Within(a, period1) /\ Matches(b, query)
      /\ receipts[b.receipt].house = h
  BY DEF Eligible
<1>2. Ordered(items)
  BY ItemsAreOrdered
<1>3. Issued(a) \in Nat /\ Issued(b) \in Nat /\ Issued(b) >= Issued(a) /\ now \in Nat
  BY <1>1, <1>2, SearchAssumption DEF Ordered, TypeOK
<1>4. Within(b, period1)
  <2>1. CASE period1 = AllTime
    BY <2>1 DEF Within
  <2>2. CASE period1 # AllTime
    <3>1. period1 \in Nat /\ Issued(a) + period1 >= now
      BY <1>1, <2>2, SearchAssumption DEF Within, AnyPeriod
    <3>2. Issued(b) + period1 >= now
      BY <1>3, <3>1
    <3>3. QED
      BY <3>2 DEF Within
  <2>3. QED
    BY <2>1, <2>2
<1>5. QED
  BY <1>1, <1>4 DEF Eligible

\* One group of a narrow search is part of one of a wider search.
LEMMA WiderGroup ==
  ASSUME NEW D, NEW E, Ordered(E), D \subseteq E, NEW a \in AggregatesOf(D)
  PROVE  \E b \in AggregatesOf(E) : /\ a.key = b.key /\ a.count <= b.count
                                    /\ ~Later(a.last, b.last)
<1>1. PICK last \in D : a = Aggregate(last, D)
  BY DEF AggregatesOf
<1>2. PICK first \in Group(last, E) : RowNumber(first, E) = 1
  BY FirstExists
<1>3. first \in E /\ Group(first, E) = Group(last, E) /\ GroupKey(first) = GroupKey(last)
      /\ last \in Group(first, E)
  BY GroupProperties
<1> DEFINE b == Aggregate(first, E)
<1>4. b \in AggregatesOf(E)
  BY <1>2, <1>3 DEF AggregatesOf
<1>5. /\ a.key = GroupKey(last) /\ a.count = Cardinality(Group(last, D)) /\ a.last = last
      /\ b.key = GroupKey(first) /\ b.count = Cardinality(Group(first, E)) /\ b.last = first
  BY <1>1 DEF Aggregate
<1>6. Group(last, D) \subseteq Group(last, E) /\ IsFiniteSet(Group(last, E))
  BY GroupProperties DEF Group
<1>7. a.count <= b.count
  BY <1>3, <1>5, <1>6, FS_Subset
<1>8. ~Later(last, first)
  BY <1>2, <1>3, FirstRow
<1>9. QED
  BY <1>3, <1>4, <1>5, <1>7, <1>8

\* So it is when the others are older.
LEMMA OlderNumbers ==
  ASSUME NEW D, NEW E, Ordered(E), D \subseteq E, Older(D, E), NEW row \in D
  PROVE  RowNumber(row, D) = RowNumber(row, E)
<1>1. \A a \in D, b \in E : Later(b, a) => b \in D
  <2>1. \A a, b \in E : Later(b, a) => Issued(b) >= Issued(a)
    BY DEF Ordered, Later
  <2>2. QED
    BY <2>1 DEF Older
<1>2. QED
  BY <1>1, SameNumbers

\* It has the same last and the same previous purchase when the rest is older.
LEMMA OlderGroup ==
  ASSUME NEW D, NEW E, Ordered(E), D \subseteq E, Older(D, E),
         NEW a \in AggregatesOf(D)
  PROVE  LET b == Aggregate(a.last, E)
         IN  /\ b \in AggregatesOf(E) /\ a.last \in D
             /\ a.key = b.key /\ a.count <= b.count
             /\ ~Later(a.last, b.last) /\ a.last = b.last
             /\ a.previous # {} => a.previous = b.previous
<1>1. PICK last \in D : a = Aggregate(last, D) /\ RowNumber(last, D) = 1
  BY DEF AggregatesOf
<1>2. \A row \in D : RowNumber(row, D) = RowNumber(row, E)
  BY OlderNumbers
<1> DEFINE b == Aggregate(last, E)
<1>3. last \in E /\ b \in AggregatesOf(E)
  BY <1>1, <1>2 DEF AggregatesOf
<1>4. /\ a.key = GroupKey(last) /\ a.count = Cardinality(Group(last, D)) /\ a.last = last
      /\ b.key = GroupKey(last) /\ b.count = Cardinality(Group(last, E)) /\ b.last = last
      /\ a.previous = Previous(last, D) /\ b.previous = Previous(last, E)
  BY <1>1 DEF Aggregate
<1>5. Group(last, D) \subseteq Group(last, E) /\ Group(last, D) \subseteq D
      /\ IsFiniteSet(Group(last, E))
  BY <1>3, GroupProperties DEF Group
<1>6. a.count <= b.count
  BY <1>4, <1>5, FS_Subset
<1>7. ~Later(last, last)
  BY <1>3, LaterOrder
<1>8. ASSUME Previous(last, D) # {} PROVE Previous(last, D) = Previous(last, E)
  <2>1. Previous(last, D) \subseteq Previous(last, E)
    BY <1>2, <1>5 DEF Previous
  <2>2. PICK p : p \in Previous(last, D)
    BY <1>8
  <2>3. p \in Previous(last, E) /\ p \in Group(last, E) /\ p \in E
    BY <1>5, <2>1, <2>2, <1>3, GroupProperties DEF Previous
  <2>4. ASSUME NEW q \in Previous(last, E) PROVE q = p
    <3>1. q \in Group(last, E) /\ RowNumber(q, E) = 2 /\ RowNumber(p, E) = 2
      BY <2>3 DEF Previous
    <3>2. q \in Group(p, E)
      BY <1>3, <2>3, <3>1, GroupProperties
    <3>3. QED
      BY <2>3, <3>1, <3>2, RowNumbersDiffer
  <2>5. QED
    BY <2>1, <2>2, <2>4
<1>9. QED
  BY <1>3, <1>4, <1>6, <1>7, <1>8

\* Groups are finitely many, one for each last purchase.
LEMMA GroupsAreFinite ==
  ASSUME NEW E, Ordered(E)
  PROVE  IsFiniteSet(AggregatesOf(E))
<1> DEFINE lasts == {row \in E : RowNumber(row, E) = 1}
           f     == [last \in lasts |-> Aggregate(last, E)]
<1>1. IsFiniteSet(lasts)
  BY FS_Subset DEF Ordered
<1>2. f \in Surjection(lasts, AggregatesOf(E))
  BY DEF AggregatesOf, Surjection
<1>3. QED
  BY <1>1, <1>2, FS_Surjection

\* An answer has as many groups as the limit allows, and all if it allows them.
LEMMA FirstsProperties ==
  ASSUME NEW groups, IsFiniteSet(groups), NEW S \in Firsts(groups)
  PROVE  /\ S \subseteq groups /\ IsFiniteSet(S)
         /\ Cardinality(S) = Shown(groups)
         /\ Cardinality(S) \in Nat /\ Cardinality(groups) \in Nat
         /\ \A a \in S, b \in groups \ S : ~Ahead(b, a)
         /\ Cardinality(groups) <= ItemSearchLimit => S = groups
<1>1. S \in SUBSET groups /\ Cardinality(S) = Shown(groups)
      /\ \A a \in S, b \in groups \ S : ~Ahead(b, a)
  BY DEF Firsts
<1>2. IsFiniteSet(S) /\ (Cardinality(groups) = Cardinality(S) => groups = S)
  BY <1>1, FS_Subset
<1>3. Cardinality(S) \in Nat /\ Cardinality(groups) \in Nat
  BY <1>2, FS_CardinalityType
<1>4. Cardinality(groups) <= ItemSearchLimit => Cardinality(S) = Cardinality(groups)
  BY <1>1, <1>3, SearchAssumption DEF Shown
<1>5. QED
  BY <1>1, <1>2, <1>3, <1>4

\* An answer that does not say it is truncated has all groups.
LEMMA AnswerProperties ==
  ASSUME NEW groups, IsFiniteSet(groups), NEW answer \in AnswersOf(groups)
  PROVE  /\ answer.items \in Firsts(groups)
         /\ ~answer.truncated => /\ Cardinality(groups) <= ItemSearchLimit
                                 /\ answer.items = groups
<1>1. PICK S \in Firsts(groups) :
        answer = [items |-> S, truncated |-> Cardinality(groups) > ItemSearchLimit]
  BY DEF AnswersOf
<1>2. answer.items = S /\ (~answer.truncated => ~(Cardinality(groups) > ItemSearchLimit))
  BY <1>1
<1>3. Cardinality(groups) \in Nat /\ ItemSearchLimit \in Nat
  BY FS_CardinalityType, SearchAssumption
<1>4. ~(Cardinality(groups) > ItemSearchLimit) => Cardinality(groups) <= ItemSearchLimit
  BY <1>3
<1>5. QED
  BY <1>2, <1>4, FirstsProperties

\* Groups that come ahead of all others are in every answer when the limit
\* allows that many.
LEMMA AheadIsShown ==
  ASSUME NEW groups, IsFiniteSet(groups), NEW S \in Firsts(groups),
         NEW front, front \subseteq groups, Cardinality(front) <= ItemSearchLimit,
         \A a \in front, b \in groups \ front : Ahead(a, b)
  PROVE  front \subseteq S
<1> SUFFICES ASSUME NEW a \in front, a \notin S PROVE FALSE
  OBVIOUS
<1>1. S \subseteq front
  BY FirstsProperties
<1>2. IsFiniteSet(front) /\ Cardinality(front) <= Cardinality(groups)
  BY FS_Subset
<1>3. Cardinality(front) \in Nat
  BY <1>2, FS_CardinalityType
<1>4. Cardinality(S) <= Cardinality(front) /\ Cardinality(front) # Cardinality(S)
  BY <1>1, <1>2, FS_Subset
<1>5. Cardinality(S) >= Cardinality(front)
  BY <1>2, <1>3, FirstsProperties, SearchAssumption DEF Shown
<1>6. QED
  BY <1>3, <1>4, <1>5, FirstsProperties

\* When the rest is older, the groups of a narrow search are ahead of all others
\* of a wider search: no answer leaves them out unless there are too many.
LEMMA OlderIsBehind ==
  ASSUME NEW D, NEW E, Ordered(E), D \subseteq E, Older(D, E),
         Cardinality(AggregatesOf(D)) <= ItemSearchLimit,
         NEW S \in Firsts(AggregatesOf(E)), NEW a \in AggregatesOf(D)
  PROVE  Aggregate(a.last, E) \in S
<1> DEFINE narrow == AggregatesOf(D)
           groups == AggregatesOf(E)
           front  == {Aggregate(c.last, E) : c \in narrow}
           f      == [c \in narrow |-> Aggregate(c.last, E)]
<1>1. Ordered(D)
  BY FS_Subset DEF Ordered
<1>2. IsFiniteSet(narrow) /\ IsFiniteSet(groups)
  BY <1>1, GroupsAreFinite
<1>3. front \subseteq groups
  BY OlderGroup
<1>4. Cardinality(front) <= ItemSearchLimit
  <2>1. f \in Surjection(narrow, front)
    BY DEF Surjection
  <2>2. IsFiniteSet(front) /\ Cardinality(front) <= Cardinality(narrow)
    BY <1>2, <2>1, FS_Surjection
  <2>3. Cardinality(front) \in Nat /\ Cardinality(narrow) \in Nat
    BY <1>2, <2>2, FS_CardinalityType
  <2>4. QED
    BY <2>2, <2>3, SearchAssumption
<1>5. ASSUME NEW c \in narrow, NEW b \in groups \ front
      PROVE  Ahead(Aggregate(c.last, E), b)
  <2>1. PICK row \in E : RowNumber(row, E) = 1 /\ b = Aggregate(row, E)
    BY DEF AggregatesOf
  <2>2. row \notin D
    <3> SUFFICES ASSUME row \in D PROVE FALSE
      OBVIOUS
    <3>1. RowNumber(row, D) = 1
      BY <2>1, OlderNumbers
    <3>2. Aggregate(row, D) \in narrow /\ Aggregate(row, D).last = row
      BY <3>1 DEF AggregatesOf, Aggregate
    <3>3. b \in front
      BY <2>1, <3>2
    <3>4. QED
      BY <1>5, <3>3
  <2>3. c.last \in D
    BY OlderGroup
  <2>4. Issued(c.last) > Issued(row)
    BY <2>1, <2>2, <2>3 DEF Older, Ordered
  <2>5. /\ Aggregate(c.last, E).lastPurchasedAt = Issued(c.last)
        /\ b.lastPurchasedAt = Issued(row)
    BY <2>1 DEF Aggregate
  <2>6. QED
    BY <2>4, <2>5 DEF Ahead
<1>6. \A x \in front, b \in groups \ front : Ahead(x, b)
  BY <1>5
<1>7. Aggregate(a.last, E) \in front
  OBVIOUS
<1> HIDE DEF front, groups
<1>8. S \in Firsts(groups)
  BY DEF groups
<1>9. QED
  BY <1>2, <1>3, <1>4, <1>6, <1>7, <1>8, AheadIsShown

\* Somebody who widens a search finds every product again, bought as often or more
\* often, and last bought then or later, unless the wider answer says that it is
\* truncated; when only the period was widened, with the same last and previous
\* purchase, and then also in a truncated answer as long as the narrower one was
\* not.
THEOREM WideningAgrees == Spec => []WiderSearchAgrees
<1>1. TypeOK => WiderSearchAgrees
  <2> SUFFICES ASSUME TypeOK, NEW h \in Houses, NEW query1 \in Query, NEW query2 \in Query,
                      NEW period1 \in AnyPeriod, NEW period2 \in AnyPeriod,
                      Narrower(query1, period1, query2, period2),
                      NEW narrow \in Answers(h, query1, period1),
                      NEW wide \in Answers(h, query2, period2),
                      ~wide.truncated \/ (query1 = query2 /\ ~narrow.truncated),
                      NEW a \in narrow.items
               PROVE  \E b \in wide.items :
                        /\ a.key = b.key /\ a.count <= b.count
                        /\ ~Later(a.last, b.last)
                        /\ query1 = query2 => /\ a.last = b.last
                                              /\ a.previous # {} => a.previous = b.previous
    BY DEF WiderSearchAgrees
  <2>1. PICK D, E : D = Eligible(h, query1, period1) /\ E = Eligible(h, query2, period2)
    OBVIOUS
  <2>2. D \subseteq E
    BY <2>1, WiderFindsMore
  <2>3. Ordered(E) /\ Ordered(D)
    BY <2>1, ItemsAreOrdered DEF Eligible
  <2>4. query1 = query2 => Older(D, E)
    BY <2>1, WiderFindsOlder
  <2>5. IsFiniteSet(AggregatesOf(D)) /\ IsFiniteSet(AggregatesOf(E))
    BY <2>3, GroupsAreFinite
  <2>6. narrow \in AnswersOf(AggregatesOf(D)) /\ wide \in AnswersOf(AggregatesOf(E))
    BY <2>1 DEF Answers, Aggregates
  <2>7. wide.items \in Firsts(AggregatesOf(E))
    BY <2>5, <2>6, AnswerProperties
  <2>8. a \in AggregatesOf(D)
    BY <2>5, <2>6, AnswerProperties, FirstsProperties
  <2>9. ~wide.truncated => wide.items = AggregatesOf(E)
    BY <2>5, <2>6, AnswerProperties
  <2>10. CASE query1 # query2
    BY <2>2, <2>3, <2>8, <2>9, <2>10, WiderGroup
  <2>11. CASE query1 = query2
    <3>1. Aggregate(a.last, E) \in wide.items
      <4>1. CASE ~wide.truncated
        BY <2>2, <2>3, <2>4, <2>8, <2>9, <2>11, <4>1, OlderGroup
      <4>2. CASE ~narrow.truncated
        <5>1. Cardinality(AggregatesOf(D)) <= ItemSearchLimit
          BY <2>5, <2>6, <4>2, AnswerProperties
        <5>2. QED
          BY <2>2, <2>3, <2>4, <2>7, <2>8, <2>11, <5>1, OlderIsBehind
      <4>3. QED
        BY <4>1, <4>2
    <3>2. QED
      BY <2>2, <2>3, <2>4, <2>8, <2>11, <3>1, OlderGroup
  <2>12. QED
    BY <2>10, <2>11
<1>2. QED
  BY <1>1, SearchTypes, PTL

-----------------------------------------------------------------------------
(***************************************************************************)
(* 6. Deleting a receipt                                                   *)
(***************************************************************************)

\* Only DeleteByIDAndHouse removes a receipt, with its items and nothing else.
LEMMA OnlyDeletion ==
  ASSUME TypeOK, Next, NEW r \in ReceiptIds, Stored(r), ~Stored(r)'
  PROVE  /\ now' = now /\ items' = {row \in items : row.receipt # r}
         /\ \A row \in items' : receipts'[row.receipt] = receipts[row.receipt]
<1>1. ASSUME NEW h \in Houses, NEW paper \in Papers, CreateReceipt(h, paper) PROVE FALSE
  BY <1>1, TypesAreSound, CreatedReceipt DEF Stored
<1>2. ASSUME NEW s \in ReceiptIds, CreateItems(s) PROVE FALSE
  BY <1>2, TypesAreSound, CreatedItems DEF Stored
<1>3. ~TimePasses
  BY DEF TimePasses, Stored
<1>4. PICK s \in ReceiptIds : DeleteByIDAndHouse(s)
  BY <1>1, <1>2, <1>3 DEF Next, HouseStep
<1>5. receipts' = [receipts EXCEPT ![s] = NoReceipt] /\ now' = now
      /\ items' = {row \in items : row.receipt # s}
  BY <1>4 DEF DeleteByIDAndHouse
<1>6. s = r
  BY <1>5 DEF Stored, TypeOK
<1>7. QED
  BY <1>5, <1>6 DEF TypeOK, Row

\* The rows of a group that are on receipt r.
LostRows(E, a, r) == {row \in E : GroupKey(row) = a.key /\ row.receipt = r}

\* A group without such rows stays as it is.
LEMMA Untouched ==
  ASSUME NEW E, Ordered(E), NEW r, NEW a \in AggregatesOf(E), LostRows(E, a, r) = {}
  PROVE  a \in AggregatesOf({other \in E : other.receipt # r})
<1> DEFINE D == {other \in E : other.receipt # r}
<1>1. PICK last \in E : a = Aggregate(last, E) /\ RowNumber(last, E) = 1
  BY DEF AggregatesOf
<1>2. a.key = GroupKey(last)
  BY <1>1 DEF Aggregate
<1>3. \A row \in Group(last, E) : row \in E /\ Group(row, E) = Group(last, E)
  BY GroupProperties
<1>4. \A row \in Group(last, E) : row \in D
  BY <1>2, <1>3 DEF LostRows, Group
<1>5. \A row \in Group(last, E) : Group(row, D) = Group(row, E)
  BY <1>3, <1>4 DEF Group
<1>6. \A row \in Group(last, E) : RowNumber(row, D) = RowNumber(row, E)
  BY <1>5 DEF RowNumber
<1>7. last \in Group(last, E)
  BY GroupProperties
<1>8. Previous(last, D) = Previous(last, E) /\ Group(last, D) = Group(last, E)
  BY <1>5, <1>6, <1>7 DEF Previous
<1>9. Aggregate(last, D) = a
  BY <1>1, <1>8 DEF Aggregate
<1>10. last \in D /\ RowNumber(last, D) = 1
  BY <1>1, <1>4, <1>6, <1>7
<1> HIDE DEF D
<1>11. a \in AggregatesOf(D)
  BY <1>9, <1>10 DEF AggregatesOf
<1>12. QED
  BY <1>11 DEF D

\* Without the rows of a receipt, a row before which only they came is the first.
LEMMA Revealed ==
  ASSUME NEW E, Ordered(E), NEW r, NEW a \in AggregatesOf(E),
         NEW row \in IF a.last.receipt # r THEN {a.last}
                     ELSE {other \in a.previous : other.receipt # r}
  PROVE  \E b \in AggregatesOf({other \in E : other.receipt # r}) :
           /\ b.key = a.key /\ b.last = row
           /\ b.count = a.count - Cardinality(LostRows(E, a, r))
<1> DEFINE D == {other \in E : other.receipt # r}
<1>1. PICK last \in E : a = Aggregate(last, E) /\ RowNumber(last, E) = 1
  BY DEF AggregatesOf
<1>2. a.key = GroupKey(last) /\ a.last = last /\ a.previous = Previous(last, E)
      /\ a.count = Cardinality(Group(last, E))
  BY <1>1 DEF Aggregate
<1>3. row \in Group(last, E) /\ row.receipt # r /\ \A other \in Before(row, E) : other.receipt = r
  <2>1. CASE last.receipt # r
    <3>1. row = last /\ Before(last, E) = {}
      BY <1>1, <1>2, <2>1, FirstRow DEF Before
    <3>2. QED
      BY <2>1, <3>1, GroupProperties
  <2>2. CASE last.receipt = r
    <3>1. row \in Previous(last, E) /\ row.receipt # r
      BY <1>2, <2>2
    <3>2. row \in Group(last, E) /\ Before(row, E) = {last}
      BY <1>1, <3>1, SecondRow
    <3>3. QED
      BY <2>2, <3>1, <3>2
  <2>3. QED
    BY <2>1, <2>2
<1>4. row \in E /\ GroupKey(row) = GroupKey(last)
  BY <1>3, GroupProperties
<1>5. row \in D /\ D \subseteq E /\ Ordered(D)
  <2>1. row \in D /\ D \subseteq E
    BY <1>3, <1>4
  <2>2. IsFiniteSet(D)
    BY <2>1, FS_Subset DEF Ordered
  <2>3. QED
    BY <2>1, <2>2 DEF Ordered
<1>6. \A other \in Group(row, D) : ~Later(other, row)
  <2> SUFFICES ASSUME NEW other \in Group(row, D), Later(other, row) PROVE FALSE
    OBVIOUS
  <2>1. other \in Before(row, E) /\ other.receipt # r
    BY DEF Group, Before
  <2>2. QED
    BY <1>3, <2>1
<1>7. Cardinality(Group(row, D)) = a.count - Cardinality(LostRows(E, a, r))
  <2> DEFINE lost == LostRows(E, a, r)
  <2>1. Group(row, D) = Group(last, E) \ lost /\ lost = Group(last, E) \cap lost
    BY <1>2, <1>4 DEF Group, LostRows
  <2>2. IsFiniteSet(Group(last, E))
    BY GroupProperties
  <2> HIDE DEF lost
  <2>3. Cardinality(Group(last, E) \ lost)
          = Cardinality(Group(last, E)) - Cardinality(Group(last, E) \cap lost)
    BY <2>2, FS_Difference
  <2>4. QED
    BY <1>2, <2>1, <2>3 DEF lost
<1> HIDE DEF D
<1>8. RowNumber(row, D) = 1
  BY <1>5, <1>6, FirstRow
<1>9. Aggregate(row, D) \in AggregatesOf(D)
  BY <1>5, <1>8 DEF AggregatesOf
<1>10. Aggregate(row, D).key = GroupKey(row) /\ Aggregate(row, D).last = row
      /\ Aggregate(row, D).count = Cardinality(Group(row, D))
  BY DEF Aggregate
<1>11. QED
  BY <1>2, <1>4, <1>9, <1>10, <1>7 DEF D

\* What is found after a deletion are the groups of the rows that are left.
LEMMA FoundAfterDeletion ==
  ASSUME TypeOK, Next, NEW r \in ReceiptIds, Stored(r), ~Stored(r)',
         NEW h \in Houses, NEW query \in Query, NEW period \in AnyPeriod,
         NEW E, E = Eligible(h, query, period)
  PROVE  Aggregates(h, query, period)' = AggregatesOf({row \in E : row.receipt # r})
<1>1. /\ now' = now /\ items' = {row \in items : row.receipt # r}
      /\ \A row \in items' : receipts'[row.receipt] = receipts[row.receipt]
  BY OnlyDeletion
<1>2. \A row \in items' : row \in items /\ row.receipt # r /\ Issued(row)' = Issued(row)
                         /\ receipts'[row.receipt] = receipts[row.receipt]
  BY <1>1 DEF Issued
<1>3. \A row \in items' : Within(row, period)' <=> Within(row, period)
  BY <1>1, <1>2 DEF Within
<1>4. PICK D : D = {row \in E : row.receipt # r}
  OBVIOUS
<1>5. Eligible(h, query, period)' = D
  BY <1>1, <1>2, <1>3, <1>4 DEF Eligible, Matches
<1>6. \A row \in D : Issued(row)' = Issued(row)
  BY <1>2, <1>5 DEF Eligible
<1>7. AggregatesOf(D)' = AggregatesOf(D)
  BY <1>6, AggregatesRead
<1>8. Aggregates(h, query, period)' = AggregatesOf(D)
  BY <1>5, <1>7 DEF Aggregates
<1>9. QED
  BY <1>4, <1>8

\* What DeletionRevealsPrevious says of a step.
Reveals ==
  \A r \in ReceiptIds : Stored(r) /\ ~Stored(r)' =>
    \A h \in Houses : \A query \in Query : \A period \in AnyPeriod :
      \A a \in Aggregates(h, query, period) :
        LET lost == {row \in Eligible(h, query, period) :
                       GroupKey(row) = a.key /\ row.receipt = r}
            first == IF a.last.receipt # r THEN {a.last}
                     ELSE {row \in a.previous : row.receipt # r}
        IN  /\ lost = {} => a \in Aggregates(h, query, period)'
            /\ \A row \in first :
                 \E b \in Aggregates(h, query, period)' :
                   b.key = a.key /\ b.last = row /\ b.count = a.count - Cardinality(lost)

\* When a receipt is deleted, products that were not on it stay as they were.  One
\* that was on it loses the purchases made there; if its last purchase was one of
\* them and the previous was not, the previous becomes the last.  This is about all
\* groups, before the limit.
THEOREM DeletionReveals == Spec => DeletionRevealsPrevious
<1>1. ASSUME TypeOK, [Next]_vars, NEW r \in ReceiptIds, Stored(r), ~Stored(r)',
             NEW h \in Houses, NEW query \in Query, NEW period \in AnyPeriod,
             NEW a \in Aggregates(h, query, period), NEW E, E = Eligible(h, query, period)
      PROVE  /\ LostRows(E, a, r) = {} => a \in Aggregates(h, query, period)'
             /\ \A row \in IF a.last.receipt # r THEN {a.last}
                            ELSE {other \in a.previous : other.receipt # r} :
                  \E b \in Aggregates(h, query, period)' :
                    /\ b.key = a.key /\ b.last = row
                    /\ b.count = a.count - Cardinality(LostRows(E, a, r))
  <2>1. Next
    BY <1>1 DEF vars, Stored
  <2>2. Ordered(E) /\ a \in AggregatesOf(E)
    BY <1>1, ItemsAreOrdered DEF Aggregates, Eligible
  <2>3. Aggregates(h, query, period)' = AggregatesOf({row \in E : row.receipt # r})
    BY <1>1, <2>1, FoundAfterDeletion
  <2>4. QED
    BY <2>2, <2>3, Untouched, Revealed
<1>2. TypeOK /\ [Next]_vars => Reveals
  BY <1>1 DEF Reveals, LostRows
<1>3. Spec => [][Reveals]_vars
  BY <1>2, SearchTypes, PTL DEF Spec
<1>4. DeletionRevealsPrevious <=> [][Reveals]_vars
  BY DEF DeletionRevealsPrevious, Reveals
<1>5. QED
  BY <1>3, <1>4
=============================================================================
