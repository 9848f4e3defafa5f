------------------------ MODULE DetailBarcodesProofs ------------------------
(***************************************************************************)
(* What the parser and the merge compute, for a receipt of any length: the *)
(* barcode of a stored item is the one printed for its product, or none.   *)
(*                                                                         *)
(* Kept is recursive.  What it returns follows by induction over the       *)
(* prefixes of its argument, in the form of a smallest counterexample: the *)
(* induction is over a set, which the provers can instantiate.             *)
(***************************************************************************)
EXTENDS DetailBarcodes, SequenceTheorems, WellFoundedInduction, TLAPS

-----------------------------------------------------------------------------
(***************************************************************************)
(* 1. Induction                                                            *)
(***************************************************************************)

\* A nonempty set of naturals has a smallest element.
LEMMA Smallest ==
  ASSUME NEW T, T \subseteq Nat, T # {}
  PROVE  \E x \in T : \A y \in T : x <= y
<1>1. IsWellFoundedOn(OpToRel(<, Nat), Nat)
  BY NatLessThanWellFounded
<1>2. PICK x \in T : \A y \in T : ~(<<y, x>> \in OpToRel(<, Nat))
  BY <1>1, WFMin
<1>3. \A a, b \in Nat : <<b, a>> \in OpToRel(<, Nat) <=> b < a
  BY DEF OpToRel
<1>4. \A y \in T : ~(y < x)
  BY <1>2, <1>3, Zenon
<1>5. QED
  BY <1>4

\* A set that holds 0, and with each number below n the next one, holds all
\* numbers up to n.
LEMMA UpTo ==
  ASSUME NEW n \in Nat, NEW P, 0 \in P,
         \A m \in 0 .. n : m # n /\ m \in P => m + 1 \in P
  PROVE  \A m \in 0 .. n : m \in P
<1> SUFFICES ASSUME NEW k \in 0 .. n, k \notin P PROVE FALSE
  OBVIOUS
<1> DEFINE T == {m \in 0 .. n : m \notin P}
<1>1. T \subseteq Nat /\ T # {}
  OBVIOUS
<1>2. PICK x \in T : \A y \in T : x <= y
  BY <1>1, Smallest
<1>3. x # 0 /\ x - 1 \in 0 .. n /\ x - 1 # n
  BY <1>2
<1>4. x - 1 \in P
  BY <1>2, <1>3
<1>5. QED
  BY <1>2, <1>3, <1>4

-----------------------------------------------------------------------------
(***************************************************************************)
(* 2. Kept                                                                 *)
(***************************************************************************)

\* f says what is kept of each prefix of s of length up to n.
Keeps(f, s, at, n) ==
  f = [m \in 0 .. n |->
         IF m = 0 THEN <<>>
         ELSE IF m \in at THEN Append(f[m - 1], s[m]) ELSE f[m - 1]]

LEMMA KeepsExists ==
  ASSUME NEW s, NEW at, NEW n \in Nat
  PROVE  \E f : Keeps(f, s, at, n)
<1> DEFINE P == {m \in 0 .. n : \E f : Keeps(f, s, at, m)}
<1>1. 0 \in P
  <2> DEFINE f == [m \in 0 .. 0 |-> <<>>]
  <2>1. Keeps(f, s, at, 0)
    BY DEF Keeps
  <2>2. QED
    BY <2>1
<1>2. ASSUME NEW m \in 0 .. n, m # n, m \in P
      PROVE  m + 1 \in P
  <2>1. PICK f : Keeps(f, s, at, m)
    BY <1>2
  <2> DEFINE g == [k \in 0 .. m + 1 |->
                     IF k <= m THEN f[k]
                     ELSE IF k \in at THEN Append(f[k - 1], s[k]) ELSE f[k - 1]]
  <2>2. \A k \in 0 .. m : f[k] = IF k = 0 THEN <<>>
                                 ELSE IF k \in at THEN Append(f[k - 1], s[k]) ELSE f[k - 1]
    BY <2>1 DEF Keeps
  <2>3. \A k \in 0 .. m : g[k] = f[k]
    OBVIOUS
  <2>4. \A k \in 0 .. m + 1 :
          g[k] = IF k = 0 THEN <<>>
                 ELSE IF k \in at THEN Append(g[k - 1], s[k]) ELSE g[k - 1]
    <3> SUFFICES ASSUME NEW k \in 0 .. m + 1
                 PROVE  g[k] = IF k = 0 THEN <<>>
                               ELSE IF k \in at THEN Append(g[k - 1], s[k]) ELSE g[k - 1]
      OBVIOUS
    <3>1. CASE k = 0
      BY <2>2, <2>3, <3>1
    <3>2. CASE k # 0
      <4>1. k - 1 \in 0 .. m
        BY <3>2
      <4>2. g[k - 1] = f[k - 1]
        BY <2>3, <4>1
      <4>3. g[k] = IF k \in at THEN Append(f[k - 1], s[k]) ELSE f[k - 1]
        BY <2>2, <3>2
      <4>4. QED
        BY <3>2, <4>2, <4>3
    <3>3. QED
      BY <3>1, <3>2
  <2>5. g = [k \in 0 .. m + 1 |-> g[k]]
    OBVIOUS
  <2> HIDE DEF g
  <2>6. Keeps(g, s, at, m + 1)
    BY <2>4, <2>5 DEF Keeps
  <2>7. QED
    BY <1>2, <2>6
<1> HIDE DEF P
<1>3. n \in P
  BY <1>1, <1>2, UpTo
<1>4. QED
  BY <1>3 DEF P

LEMMA KeptIsKeeps ==
  ASSUME NEW S, NEW s \in Seq(S), NEW at
  PROVE  \E f : Keeps(f, s, at, Len(s)) /\ Kept(s, at) = f[Len(s)]
<1> DEFINE f == CHOOSE f : Keeps(f, s, at, Len(s))
<1>1. Keeps(f, s, at, Len(s))
  BY KeepsExists
<1>2. Kept(s, at) = f[Len(s)]
  BY DEF Kept, Keeps
<1>3. QED
  BY <1>1, <1>2

\* What is kept of the prefix of length n: no more than n elements, all of the
\* prefix if and only if nothing is skipped.
KeptOf(t, s, at, n, R) ==
  /\ t \in Seq(R) /\ Len(t) <= n
  /\ Len(t) = n => 1 .. n \subseteq at
  /\ 1 .. n \subseteq at => Len(t) = n /\ \A i \in 1 .. n : t[i] = s[i]
  /\ (1 .. n) \cap at = {} => t = <<>>

\* R is any set with the elements that are kept.
LEMMA KeptProperties ==
  ASSUME NEW S, NEW s \in Seq(S), NEW at, NEW R,
         \A i \in 1 .. Len(s) : i \in at => s[i] \in R
  PROVE  KeptOf(Kept(s, at), s, at, Len(s), R)
<1>1. PICK f : Keeps(f, s, at, Len(s)) /\ Kept(s, at) = f[Len(s)]
  BY KeptIsKeeps
<1>2. \A m \in 0 .. Len(s) :
        f[m] = IF m = 0 THEN <<>>
               ELSE IF m \in at THEN Append(f[m - 1], s[m]) ELSE f[m - 1]
  BY <1>1 DEF Keeps
<1> DEFINE P == {m \in 0 .. Len(s) : KeptOf(f[m], s, at, m, R)}
<1> USE LenProperties
<1>3. 0 \in P
  <2>1. f[0] = <<>> /\ 0 \in 0 .. Len(s) /\ 1 .. 0 = {}
    BY <1>2
  <2>2. KeptOf(<<>>, s, at, 0, R)
    BY EmptySeq DEF KeptOf
  <2>3. QED
    BY <2>1, <2>2
<1>4. ASSUME NEW m \in 0 .. Len(s), m # Len(s), m \in P
      PROVE  m + 1 \in P
  <2>1. m + 1 \in 1 .. Len(s) /\ m + 1 # 0 /\ (m + 1) - 1 = m
    BY <1>4
  <2>2. KeptOf(f[m], s, at, m, R)
    BY <1>4
  <2>3. 1 .. m + 1 = 1 .. m \cup {m + 1}
    OBVIOUS
  <2>4. CASE m + 1 \in at
    <3>1. f[m + 1] = Append(f[m], s[m + 1]) /\ s[m + 1] \in R
      <4>1. f[m + 1] = IF m + 1 \in at THEN Append(f[(m + 1) - 1], s[m + 1])
                       ELSE f[(m + 1) - 1]
        BY <1>2, <2>1
      <4>2. QED
        BY <2>1, <2>4, <4>1
    <3>2. /\ f[m + 1] \in Seq(R) /\ Len(f[m + 1]) = Len(f[m]) + 1
          /\ \A i \in 1 .. Len(f[m]) : f[m + 1][i] = f[m][i]
          /\ f[m + 1][Len(f[m]) + 1] = s[m + 1]
      BY <2>2, <3>1, AppendProperties DEF KeptOf
    <3>3. Len(f[m + 1]) <= m + 1
      BY <2>2, <3>2 DEF KeptOf
    <3>4. Len(f[m + 1]) = m + 1 => 1 .. m + 1 \subseteq at
      BY <2>2, <2>3, <2>4, <3>2 DEF KeptOf
    <3>5. ASSUME 1 .. m + 1 \subseteq at
          PROVE  Len(f[m + 1]) = m + 1 /\ \A i \in 1 .. m + 1 : f[m + 1][i] = s[i]
      <4>1. Len(f[m]) = m /\ \A i \in 1 .. m : f[m][i] = s[i]
        BY <2>2, <2>3, <3>5 DEF KeptOf
      <4>2. QED
        BY <2>3, <3>2, <4>1
    <3>6. (1 .. m + 1) \cap at # {}
      BY <2>3, <2>4
    <3>7. KeptOf(f[m + 1], s, at, m + 1, R)
      BY <3>2, <3>3, <3>4, <3>5, <3>6 DEF KeptOf
    <3>8. QED
      BY <2>1, <3>7
  <2>5. CASE m + 1 \notin at
    <3>1. f[m + 1] = f[m]
      BY <1>2, <2>1, <2>5
    <3>2. KeptOf(f[m + 1], s, at, m + 1, R)
      BY <2>2, <2>3, <2>5, <3>1 DEF KeptOf
    <3>3. QED
      BY <2>1, <3>2
  <2>6. QED
    BY <2>4, <2>5
<1> HIDE DEF P
<1>5. Len(s) \in P
  <2>1. \A m \in 0 .. Len(s) : m # Len(s) /\ m \in P => m + 1 \in P
    BY <1>4
  <2>2. Len(s) \in Nat /\ Len(s) \in 0 .. Len(s)
    OBVIOUS
  <2>3. QED
    BY <1>3, <2>1, <2>2, UpTo
<1>6. QED
  BY <1>1, <1>5 DEF P

-----------------------------------------------------------------------------
(***************************************************************************)
(* 3. The summary page                                                     *)
(***************************************************************************)
Code == Barcodes \cup {NoBarcode}

DescribedProduct == [description : Descriptions, price : Nat,
                     comercial : Field, tributavel : Field]

LEMMA ProductsOf ==
  ASSUME NEW paper \in Paper
  PROVE  /\ paper.products \in Seq(Product) /\ Len(paper.products) \in Nat
         /\ DOMAIN paper.products = 1 .. Len(paper.products)
         /\ \A i \in 1 .. Len(paper.products) : paper.products[i] \in Product
  BY LenProperties, ElementOfSeq DEF Paper

LEMMA OwnIsCode == ASSUME NEW p PROVE OwnBarcode(p) \in Code
  BY DEF OwnBarcode, Code

\* The described products are all of them, or fewer.
LEMMA DescribedProducts ==
  ASSUME NEW paper \in Paper
  PROVE  LET d == Described(paper)
             q == paper.products
         IN  /\ d \in Seq(DescribedProduct) /\ Len(d) <= Len(q)
             /\ Len(d) = Len(q) => d = q
             /\ (\A i \in DOMAIN q : q[i].description # NoDescription) => d = q
<1> DEFINE q  == paper.products
           d  == Described(paper)
           at == {i \in DOMAIN q : q[i].description # NoDescription}
           R  == DescribedProduct
<1>1. /\ q \in Seq(Product) /\ Len(q) \in Nat /\ DOMAIN q = 1 .. Len(q)
      /\ \A i \in 1 .. Len(q) : q[i] \in Product
  BY ProductsOf
<1>2. \A i \in 1 .. Len(q) : i \in at => q[i] \in R
  BY <1>1 DEF Product, DescribedProduct
<1>3. d = Kept(q, at)
  BY DEF Described
<1>4. at \subseteq 1 .. Len(q)
  BY <1>1
<1>5. (\A i \in DOMAIN q : q[i].description # NoDescription) <=> 1 .. Len(q) \subseteq at
  BY <1>1
<1> HIDE DEF q, d, at, R
<1>6. KeptOf(d, q, at, Len(q), R) /\ KeptOf(d, q, at, Len(q), Product)
  <2>1. \A i \in 1 .. Len(q) : i \in at => q[i] \in Product
    BY <1>1
  <2>2. QED
    BY <1>1, <1>2, <1>3, <2>1, KeptProperties
<1>7. 1 .. Len(q) \subseteq at => d = q
  BY <1>1, <1>6, SeqEqual DEF KeptOf
<1>8. d \in Seq(R) /\ Len(d) <= Len(q) /\ (Len(d) = Len(q) => 1 .. Len(q) \subseteq at)
  BY <1>6 DEF KeptOf
<1>9. QED
  BY <1>5, <1>7, <1>8 DEF q, d, R

\* The items of the summary page, one for each described product, without barcodes.
LEMMA SummaryItemsProperties ==
  ASSUME NEW paper \in Paper
  PROVE  LET items == SummaryItems(paper)
         IN  /\ items \in Seq(Item) /\ Len(items) = Len(Described(paper))
             /\ Len(items) \in Nat /\ DOMAIN items = 1 .. Len(items)
             /\ \A i \in DOMAIN items : items[i].barcode = NoBarcode
<1> DEFINE d == Described(paper)
           items == SummaryItems(paper)
<1>1. /\ Len(d) \in Nat /\ DOMAIN d = 1 .. Len(d)
      /\ \A i \in 1 .. Len(d) : d[i].description \in Descriptions /\ d[i].price \in Nat
  <2>1. d \in Seq(DescribedProduct)
    BY DescribedProducts
  <2> HIDE DEF d
  <2>2. /\ Len(d) \in Nat /\ DOMAIN d = 1 .. Len(d)
        /\ \A i \in 1 .. Len(d) : d[i] \in DescribedProduct
    BY <2>1, LenProperties, ElementOfSeq
  <2>3. QED
    BY <2>2 DEF DescribedProduct
<1> HIDE DEF d
<1>2. items = [i \in 1 .. Len(d) |-> [description |-> d[i].description, price |-> d[i].price,
                                      barcode |-> NoBarcode]]
  BY <1>1 DEF SummaryItems, d
<1>3. \A i \in 1 .. Len(d) : items[i] \in Item /\ items[i].barcode = NoBarcode
  BY <1>1, <1>2 DEF Item
<1> HIDE DEF items
<1>4. items \in [1 .. Len(d) -> Item]
  BY <1>2, <1>3
<1>5. items \in Seq(Item)
  BY <1>1, <1>4, SeqDef
<1>6. Len(items) = Len(d) /\ DOMAIN items = 1 .. Len(d)
  BY <1>1, <1>4, <1>5, LenProperties
<1>7. QED
  BY <1>1, <1>3, <1>5, <1>6 DEF d, items

\* MergeBarcodes takes over the barcodes of a page that has as many.
LEMMA MergeProperties ==
  ASSUME NEW items \in Seq(Item), NEW barcodes \in Seq(Code)
  PROVE  LET merged == MergeBarcodes(items, barcodes)
         IN  /\ merged \in Seq(Item) /\ DOMAIN merged = DOMAIN items
             /\ Len(items) # Len(barcodes) => merged = items
             /\ Len(items) = Len(barcodes) =>
                  \A i \in DOMAIN items :
                    merged[i].barcode = IF barcodes[i] # NoBarcode THEN barcodes[i]
                                        ELSE items[i].barcode
<1> DEFINE merged == [i \in DOMAIN items |->
                        IF barcodes[i] # NoBarcode
                        THEN [items[i] EXCEPT !.barcode = barcodes[i]] ELSE items[i]]
<1>1. /\ Len(items) \in Nat /\ DOMAIN items = 1 .. Len(items)
      /\ \A i \in 1 .. Len(items) : items[i] \in Item
      /\ DOMAIN barcodes = 1 .. Len(barcodes)
      /\ \A i \in 1 .. Len(barcodes) : barcodes[i] \in Code
  BY LenProperties, ElementOfSeq
<1>2. CASE Len(items) # Len(barcodes)
  BY <1>2 DEF MergeBarcodes
<1>3. CASE Len(items) = Len(barcodes)
  <2>1. MergeBarcodes(items, barcodes) = merged
    BY <1>3 DEF MergeBarcodes
  <2>2. \A i \in 1 .. Len(items) :
          /\ merged[i] \in Item
          /\ merged[i].barcode = IF barcodes[i] # NoBarcode THEN barcodes[i]
                                 ELSE items[i].barcode
    BY <1>1, <1>3 DEF Item, Code
  <2>3. merged \in [1 .. Len(items) -> Item]
    BY <1>1, <2>2
  <2> HIDE DEF merged
  <2>4. merged \in Seq(Item) /\ DOMAIN merged = DOMAIN items
    BY <1>1, <2>3, SeqDef
  <2>5. QED
    BY <1>1, <1>3, <2>1, <2>2, <2>4
<1>4. QED
  BY <1>2, <1>3

-----------------------------------------------------------------------------
(***************************************************************************)
(* 4. The detail page                                                      *)
(***************************************************************************)

\* The matches of a field's expression: none, or one for each product, when the
\* field is printed for none or for all.
LEMMA PrintedProperties ==
  ASSUME NEW fields \in Seq(Field)
  PROVE  /\ Printed(fields) \in Seq(Code) /\ Len(Printed(fields)) \in Nat
         /\ (\A i \in DOMAIN fields : fields[i] = NoField) => Printed(fields) = <<>>
         /\ (\A i \in DOMAIN fields : fields[i] # NoField) => Printed(fields) = fields
<1> DEFINE at == {i \in DOMAIN fields : fields[i] # NoField}
           t  == Printed(fields)
<1>1. /\ Len(fields) \in Nat /\ DOMAIN fields = 1 .. Len(fields)
      /\ \A i \in 1 .. Len(fields) : fields[i] \in Field
  BY LenProperties, ElementOfSeq
<1>2. \A i \in 1 .. Len(fields) : i \in at => fields[i] \in Code
  BY <1>1 DEF Field, Code
<1>3. t = Kept(fields, at)
  BY DEF Printed
<1>4. (\A i \in DOMAIN fields : fields[i] = NoField) => (1 .. Len(fields)) \cap at = {}
  OBVIOUS
<1>5. (\A i \in DOMAIN fields : fields[i] # NoField) => 1 .. Len(fields) \subseteq at
  BY <1>1
<1> HIDE DEF at, t
<1>6. KeptOf(t, fields, at, Len(fields), Code)
  BY <1>2, <1>3, KeptProperties
<1>7. \A i \in 1 .. Len(fields) : i \in at => fields[i] \in Field
  BY <1>1
<1>8. KeptOf(t, fields, at, Len(fields), Field)
  BY <1>3, <1>7, KeptProperties
<1>9. 1 .. Len(fields) \subseteq at => t = fields
  BY <1>1, <1>8, SeqEqual DEF KeptOf
<1>10. t \in Seq(Code) /\ Len(t) \in Nat /\ ((1 .. Len(fields)) \cap at = {} => t = <<>>)
  BY <1>6, LenProperties DEF KeptOf
<1>11. QED
  BY <1>4, <1>5, <1>9, <1>10 DEF t

\* The document mode finds as many barcodes as products, or none at all, when
\* the page is uniform, and then each product's own.
LEMMA DocumentProperties ==
  ASSUME NEW paper \in Paper
  PROVE  LET q == paper.products
             b == DocumentBarcodes(q)
         IN  /\ b \in Seq(Code)
             /\ Uniform(paper) => Len(b) = Len(q) \/ Len(b) = 0
             /\ Uniform(paper) /\ Len(b) = Len(q) =>
                  \A i \in 1 .. Len(q) : b[i] = OwnBarcode(q[i])
             /\ Uniform(paper) /\ Len(b) # Len(q) =>
                  \A i \in 1 .. Len(q) : OwnBarcode(q[i]) = NoBarcode
<1> DEFINE q == paper.products
           n == Len(q)
           C == [i \in DOMAIN q |-> q[i].comercial]
           T == [i \in DOMAIN q |-> q[i].tributavel]
           c == Printed(C)
           t == Printed(T)
           count == IF Len(t) > Len(c) THEN Len(t) ELSE Len(c)
           b == DocumentBarcodes(q)
<1>1. n \in Nat /\ DOMAIN q = 1 .. n /\ \A i \in 1 .. n : q[i] \in Product
  BY ProductsOf
<1>2. C \in [1 .. n -> Field] /\ T \in [1 .. n -> Field]
  BY <1>1 DEF Product
<1>3. b = [i \in 1 .. count |->
             IF i \in DOMAIN c /\ c[i] \in Barcodes THEN c[i]
             ELSE IF i \in DOMAIN t /\ t[i] \in Barcodes THEN t[i] ELSE NoBarcode]
  BY DEF DocumentBarcodes
<1>4. \A i \in 1 .. n : C[i] = q[i].comercial /\ T[i] = q[i].tributavel
  BY <1>1
<1>5. Uniform(paper) =>
        /\ (\A i \in 1 .. n : C[i] = NoField) \/ (\A i \in 1 .. n : C[i] # NoField)
        /\ (\A i \in 1 .. n : T[i] = NoField) \/ (\A i \in 1 .. n : T[i] # NoField)
  <2> SUFFICES ASSUME Uniform(paper)
               PROVE  /\ (\A i \in 1 .. n : C[i] = NoField) \/ (\A i \in 1 .. n : C[i] # NoField)
                      /\ (\A i \in 1 .. n : T[i] = NoField) \/ (\A i \in 1 .. n : T[i] # NoField)
    OBVIOUS
  <2>1. \A i \in 1 .. n : q[i].comercial = q[i]["comercial"] /\ q[i].tributavel = q[i]["tributavel"]
    OBVIOUS
  <2>2. QED
    BY <1>1, <1>4, <2>1 DEF Uniform
<1> HIDE DEF q, n, C, T
<1>6. /\ C \in Seq(Field) /\ T \in Seq(Field) /\ Len(C) = n /\ Len(T) = n
      /\ DOMAIN C = 1 .. n /\ DOMAIN T = 1 .. n
  BY <1>1, <1>2, SeqDef, LenProperties
<1>7. /\ c \in Seq(Code) /\ Len(c) \in Nat /\ t \in Seq(Code) /\ Len(t) \in Nat
      /\ (\A i \in 1 .. n : C[i] = NoField) => c = <<>>
      /\ (\A i \in 1 .. n : C[i] # NoField) => c = C
      /\ (\A i \in 1 .. n : T[i] = NoField) => t = <<>>
      /\ (\A i \in 1 .. n : T[i] # NoField) => t = T
  BY <1>6, PrintedProperties
<1>8. DOMAIN c = 1 .. Len(c) /\ DOMAIN t = 1 .. Len(t) /\ count \in Nat
  BY <1>7, LenProperties
<1> HIDE DEF c, t, b
<1>9. b \in Seq(Code) /\ Len(b) = count
  <2>1. b \in [1 .. count -> Code]
    BY <1>3, <1>8 DEF Code
  <2> HIDE DEF count
  <2>2. b \in Seq(Code)
    BY <1>8, <2>1, SeqDef
  <2>3. QED
    BY <1>8, <2>1, <2>2, LenProperties
<1>10. ASSUME Uniform(paper)
       PROVE  /\ count = n \/ count = 0
              /\ count = n => \A i \in 1 .. n : b[i] = OwnBarcode(q[i])
              /\ count # n => \A i \in 1 .. n : OwnBarcode(q[i]) = NoBarcode
  <2>1. /\ \/ c = <<>> /\ \A i \in 1 .. n : q[i].comercial = NoField
           \/ c = C
        /\ \/ t = <<>> /\ \A i \in 1 .. n : q[i].tributavel = NoField
           \/ t = T
    BY <1>4, <1>5, <1>7, <1>10
  <2>2. Len(<<>>) = 0
    OBVIOUS
  <2>3. count = n \/ count = 0
    BY <1>1, <1>6, <2>1, <2>2
  <2>4. ASSUME count = n, NEW i \in 1 .. n PROVE b[i] = OwnBarcode(q[i])
    <3>1. b[i] = IF i \in DOMAIN c /\ c[i] \in Barcodes THEN c[i]
                 ELSE IF i \in DOMAIN t /\ t[i] \in Barcodes THEN t[i] ELSE NoBarcode
      BY <1>3, <2>4
    <3>2. (i \in DOMAIN c /\ c[i] \in Barcodes) <=> q[i].comercial \in Barcodes
      BY <1>4, <1>6, <2>1, BarcodesAssumption
    <3>3. (i \in DOMAIN t /\ t[i] \in Barcodes) <=> q[i].tributavel \in Barcodes
      BY <1>4, <1>6, <2>1, BarcodesAssumption
    <3>4. /\ q[i].comercial \in Barcodes => c[i] = q[i].comercial
          /\ q[i].tributavel \in Barcodes => t[i] = q[i].tributavel
      BY <1>4, <2>1, BarcodesAssumption
    <3>5. QED
      BY <3>1, <3>2, <3>3, <3>4 DEF OwnBarcode
  <2>5. ASSUME count # n, NEW i \in 1 .. n PROVE OwnBarcode(q[i]) = NoBarcode
    BY <1>1, <1>6, <2>1, <2>5, BarcodesAssumption DEF OwnBarcode
  <2>6. QED
    BY <2>3, <2>4, <2>5
<1>11. QED
  BY <1>9, <1>10 DEF b, q, n

\* A readable detail page yields one barcode for each product, its own, or none.
LEMMA ParseProperties ==
  ASSUME NEW paper \in Paper
  PROVE  LET q == paper.products
             b == ParseDetailPage(paper)
         IN  /\ b \in Seq(Code)
             /\ Readable(paper) => Len(b) = Len(q) \/ Len(b) = 0
             /\ Readable(paper) /\ Len(b) = Len(q) =>
                  \A i \in 1 .. Len(q) : b[i] = OwnBarcode(q[i])
             /\ Readable(paper) /\ paper.detail # "none" /\ Len(b) # Len(q) =>
                  \A i \in 1 .. Len(q) : OwnBarcode(q[i]) = NoBarcode
<1> DEFINE q == paper.products
           b == ParseDetailPage(paper)
<1>1. Len(q) \in Nat /\ DOMAIN q = 1 .. Len(q)
  BY ProductsOf
<1>2. CASE paper.detail = "blocks"
  <2>1. b = [i \in 1 .. Len(q) |-> OwnBarcode(q[i])]
    BY <1>1, <1>2 DEF ParseDetailPage, ExtractDetailBlockEAN, OwnBarcode
  <2>2. b \in [1 .. Len(q) -> Code]
    BY <2>1, OwnIsCode
  <2> HIDE DEF q, b
  <2>3. b \in Seq(Code) /\ Len(b) = Len(q)
    BY <1>1, <2>2, SeqDef, LenProperties
  <2>4. QED
    BY <2>1, <2>3 DEF q, b
<1>3. CASE paper.detail = "document"
  <2>1. b = DocumentBarcodes(q) /\ (Readable(paper) => Uniform(paper))
    BY <1>3 DEF ParseDetailPage, Readable
  <2>2. QED
    BY <2>1, DocumentProperties
<1>4. CASE paper.detail = "none"
  <2>1. b = <<>>
    BY <1>4 DEF ParseDetailPage
  <2>2. QED
    BY <1>1, <1>4, <2>1, EmptySeq
<1>5. QED
  BY <1>2, <1>3, <1>4 DEF Paper

-----------------------------------------------------------------------------
(***************************************************************************)
(* 5. What is stored                                                       *)
(***************************************************************************)

\* The detail page when its first n products are shown.
Prefix(paper, n) == [paper EXCEPT !.products = SubSeq(@, 1, n)]

LEMMA PrefixProperties ==
  ASSUME NEW paper \in Paper, NEW n \in 0 .. Len(paper.products)
  PROVE  LET prefix == Prefix(paper, n)
         IN  /\ prefix \in Paper /\ prefix.detail = paper.detail
             /\ Len(prefix.products) = n
             /\ n = Len(paper.products) => prefix.products = paper.products
             /\ Readable(paper) => Readable(prefix)
<1> DEFINE q == paper.products
           prefix == Prefix(paper, n)
<1>1. q \in Seq(Product) /\ Len(q) \in Nat /\ DOMAIN q = 1 .. Len(q)
      /\ \A i \in 1 .. Len(q) : q[i] \in Product
  BY ProductsOf
<1>2. prefix \in Paper => DOMAIN prefix.products = 1 .. Len(prefix.products)
  BY ProductsOf
<1>3. /\ prefix.products = SubSeq(q, 1, n) /\ prefix.detail = paper.detail
      /\ SubSeq(q, 1, n) \in Seq(Product) => prefix \in Paper
  BY DEF Prefix, Paper
<1> HIDE DEF q, prefix
<1>4. /\ SubSeq(q, 1, n) \in Seq(Product) /\ Len(SubSeq(q, 1, n)) = n
      /\ \A i \in 1 .. n : SubSeq(q, 1, n)[i] = q[i]
  <2>1. 1 \in Int /\ n \in Int /\ \A i \in 1 .. n : q[i] \in Product
    BY <1>1 DEF q
  <2>2. /\ SubSeq(q, 1, n) \in Seq(Product)
        /\ Len(SubSeq(q, 1, n)) = IF 1 <= n THEN n - 1 + 1 ELSE 0
        /\ \A i \in 1 .. n - 1 + 1 : SubSeq(q, 1, n)[i] = q[1 + i - 1]
    BY <2>1, SubSeqProperties
  <2>3. QED
    BY <1>1, <2>2 DEF q
<1>5. n = Len(q) => SubSeq(q, 1, n) = q
  BY <1>1, SubSeqFull
<1>6. \A i \in 1 .. n : prefix.products[i] = q[i]
  BY <1>3, <1>4
<1>7. Uniform(paper) => Uniform(prefix)
  <2>1. DOMAIN prefix.products = 1 .. n /\ DOMAIN paper.products = 1 .. Len(q)
    BY <1>1, <1>2, <1>3, <1>4 DEF q
  <2>2. 1 .. n \subseteq 1 .. Len(q)
    BY <1>1 DEF q
  <2>3. QED
    BY <1>6, <2>1, <2>2 DEF Uniform, q
<1>8. Readable(paper) => Readable(prefix)
  BY <1>3, <1>7 DEF Readable
<1>9. QED
  BY <1>3, <1>4, <1>5, <1>8 DEF q, prefix

\* An item that is stored after n products of the detail page were seen.
StoredAfter(paper, n) == MergeBarcodes(SummaryItems(paper), ParseDetailPage(Prefix(paper, n)))

\* The items of the summary page are stored, whatever was seen of the detail page.
LEMMA StoredAfterType ==
  ASSUME NEW paper \in Paper, NEW n \in 0 .. Len(paper.products)
  PROVE  /\ StoredAfter(paper, n) \in Seq(Item)
         /\ DOMAIN StoredAfter(paper, n) = 1 .. Len(Described(paper))
  BY PrefixProperties, SummaryItemsProperties, ParseProperties, MergeProperties DEF StoredAfter

\* A page cut off at some product misleads the merge nowhere, as long as the
\* summary page names all products or the page is whole.
LEMMA StoredAfterOwn ==
  ASSUME NEW paper \in Paper, NEW n \in 0 .. Len(paper.products), Readable(paper),
         Matched(paper) \/ n = Len(paper.products) \/ n = 0,
         NEW i \in DOMAIN StoredAfter(paper, n)
  PROVE  StoredAfter(paper, n)[i].barcode \in {NoBarcode, OwnBarcode(Described(paper)[i])}
<1> DEFINE q == paper.products
           d == Described(paper)
           prefix == Prefix(paper, n)
           items == SummaryItems(paper)
           b == ParseDetailPage(prefix)
<1>1. /\ prefix \in Paper /\ Len(prefix.products) = n /\ Readable(prefix)
      /\ n = Len(q) => prefix.products = q
  BY PrefixProperties
<1>2. /\ b \in Seq(Code)
      /\ Len(b) = n \/ Len(b) = 0
      /\ Len(b) = n => \A j \in 1 .. n : b[j] = OwnBarcode(prefix.products[j])
  BY <1>1, ParseProperties
<1>3. /\ items \in Seq(Item) /\ Len(items) = Len(d) /\ Len(items) \in Nat
      /\ DOMAIN items = 1 .. Len(items)
      /\ \A j \in DOMAIN items : items[j].barcode = NoBarcode
  BY SummaryItemsProperties
<1>4. Len(d) <= Len(q) /\ (Len(d) = Len(q) => d = q) /\ (Matched(paper) => d = q)
  BY DescribedProducts DEF Matched
<1>5. Len(q) \in Nat
  BY ProductsOf
<1> HIDE DEF q, d, prefix, items, b
<1>6. /\ StoredAfter(paper, n) = MergeBarcodes(items, b) /\ i \in DOMAIN items
      /\ Len(items) # Len(b) => StoredAfter(paper, n) = items
      /\ Len(items) = Len(b) =>
           \A j \in DOMAIN items :
             StoredAfter(paper, n)[j].barcode = IF b[j] # NoBarcode THEN b[j]
                                                ELSE items[j].barcode
  <2>1. StoredAfter(paper, n) = MergeBarcodes(items, b)
    BY DEF StoredAfter, items, b, prefix
  <2>2. QED
    BY <1>2, <1>3, <2>1, MergeProperties
<1>7. CASE Len(items) # Len(b)
  BY <1>3, <1>6, <1>7
<1>8. CASE Len(items) = Len(b)
  <2>1. Len(b) # 0 /\ Len(b) = n
    <3>1. i \in 1 .. Len(items) /\ Len(items) \in Nat
      BY <1>3, <1>6
    <3>2. Len(items) # 0
      BY <3>1
    <3>3. QED
      BY <1>2, <1>8, <3>2
  <2>2. n = Len(q) /\ d = q
    BY <1>3, <1>4, <1>5, <1>8, <2>1 DEF q
  <2>3. b[i] = OwnBarcode(d[i])
    BY <1>1, <1>2, <1>3, <1>6, <1>8, <2>1, <2>2
  <2>4. QED
    BY <1>3, <1>6, <1>8, <2>3 DEF d
<1>9. QED
  BY <1>7, <1>8

\* A page that is seen whole, and matches the summary page, leaves out nothing.
LEMMA StoredAfterWhole ==
  ASSUME NEW paper \in Paper, Readable(paper), Matched(paper),
         NEW i \in DOMAIN StoredAfter(paper, Len(paper.products))
  PROVE  StoredAfter(paper, Len(paper.products))[i].barcode = OwnBarcode(paper.products[i])
<1> DEFINE q == paper.products
           n == Len(q)
           prefix == Prefix(paper, n)
           items == SummaryItems(paper)
           b == ParseDetailPage(prefix)
           stored == StoredAfter(paper, n)
<1>1. n \in Nat
  BY ProductsOf
<1>2. /\ prefix \in Paper /\ Readable(prefix) /\ prefix.detail # "none"
      /\ prefix.products = q
  BY <1>1, PrefixProperties DEF Matched
<1>3. /\ b \in Seq(Code)
      /\ Len(b) = n => \A j \in 1 .. n : b[j] = OwnBarcode(q[j])
      /\ Len(b) # n => \A j \in 1 .. n : OwnBarcode(q[j]) = NoBarcode
  BY <1>2, ParseProperties
<1>4. Described(paper) = q
  BY DescribedProducts DEF Matched
<1>5. /\ items \in Seq(Item) /\ Len(items) = n /\ DOMAIN items = 1 .. n
      /\ \A j \in DOMAIN items : items[j].barcode = NoBarcode
  BY <1>4, SummaryItemsProperties
<1>6. i \in DOMAIN stored
  OBVIOUS
<1> HIDE DEF b, items
<1>7. /\ stored = MergeBarcodes(items, b) /\ i \in 1 .. n
      /\ n # Len(b) => stored = items
      /\ n = Len(b) => stored[i].barcode = IF b[i] # NoBarcode THEN b[i] ELSE items[i].barcode
  <2>1. stored = MergeBarcodes(items, b)
    BY DEF StoredAfter, items, b
  <2> HIDE DEF stored
  <2>2. QED
    BY <1>3, <1>5, <1>6, <2>1, MergeProperties
<1> HIDE DEF stored, q, n
<1>8. stored[i].barcode = OwnBarcode(q[i])
  BY <1>3, <1>5, <1>7
<1>9. QED
  BY <1>8 DEF stored, q, n

\* A detail page that is fetched as a whole.
LEMMA StoredFromWhole ==
  ASSUME NEW paper \in Paper
  PROVE  /\ Len(paper.products) \in 0 .. Len(paper.products)
         /\ StoredItems(paper) = StoredAfter(paper, Len(paper.products))
<1> DEFINE n == Len(paper.products)
<1>1. n \in 0 .. n /\ paper.products \in Seq(Product)
  BY ProductsOf
<1>2. Prefix(paper, n) = paper
  BY <1>1, SubSeqFull DEF Prefix, Paper
<1>3. QED
  BY <1>1, <1>2 DEF StoredItems, StoredAfter

\* The items stored for a receipt whose detail page was fetched as a whole: no
\* barcode but an item's own, however many rows of the summary page are skipped
\* and whatever fields are missing.
THEOREM NoForeignBarcode ==
  ASSUME NEW paper \in Paper, Readable(paper), NEW i \in DOMAIN StoredItems(paper)
  PROVE  StoredItems(paper)[i].barcode \in {NoBarcode, OwnBarcode(Described(paper)[i])}
  BY StoredFromWhole, StoredAfterOwn

\* When the summary page names every product, no barcode printed is lost.
THEOREM NoBarcodeLost ==
  ASSUME NEW paper \in Paper, Readable(paper), Matched(paper),
         NEW i \in DOMAIN StoredItems(paper)
  PROVE  StoredItems(paper)[i].barcode = OwnBarcode(paper.products[i])
  BY StoredFromWhole, StoredAfterWhole
=============================================================================
