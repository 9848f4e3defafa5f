--------------------------- MODULE DetailBarcodes ---------------------------
(***************************************************************************)
(* Where the barcode of a stored item comes from: the summary page of a    *)
(* receipt names its products, the detail page prints their EAN fields,    *)
(* and the parser puts the two together by position.                       *)
(*                                                                         *)
(* The site prints the products of a receipt in one order on both pages;   *)
(* a paper says what.  A definition introduced by "Wrong:" is no part of   *)
(* the model: it is the next definition with a mistake the code could have *)
(* made.                                                                   *)
(***************************************************************************)
EXTENDS Naturals, Sequences

CONSTANTS
  Descriptions,  \* descriptions of products
  NoDescription, \* a row of the summary page whose description is not found
  Barcodes,      \* barcodes
  NoBarcode,     \* "SEM GTIN", and a stored item without a barcode
  NoField        \* an EAN field the detail page does not print

ASSUME BarcodesAssumption ==
  /\ NoDescription \notin Descriptions
  /\ NoBarcode \notin Barcodes /\ NoField \notin Barcodes
  /\ NoBarcode # NoField

Field == Barcodes \cup {NoBarcode, NoField}

\* A product as the two pages print it.
Product == [description : Descriptions \cup {NoDescription},
            price       : Nat,
            comercial   : Field,
            tributavel  : Field]

\* detail is how the detail page is laid out, if it was fetched at all.
Paper == [products: Seq(Product), detail: {"blocks", "document", "none"}]

Item == [description: Descriptions, price: Nat, barcode: Barcodes \cup {NoBarcode}]

\* A loop over s that keeps the elements at some positions and skips the rest.
Kept(s, at) ==
  LET kept[n \in 0 .. Len(s)] ==
        IF n = 0 THEN <<>>
        ELSE IF n \in at THEN Append(kept[n - 1], s[n]) ELSE kept[n - 1]
  IN  kept[Len(s)]

\* The products whose row on the summary page has a description.
Described(paper) ==
  LET q == paper.products IN Kept(q, {i \in DOMAIN q : q[i].description # NoDescription})

\* extractItems skips rows without a description.
SummaryItems(paper) ==
  LET q == Described(paper)
  IN  [i \in DOMAIN q |->
         [description |-> q[i].description, price |-> q[i].price, barcode |-> NoBarcode]]

\* Wrong: the EAN Tributavel is not looked at.
ExtractDetailBlockComercial(p) ==
  IF p.comercial \in Barcodes THEN p.comercial ELSE NoBarcode

\* extractDetailBlockEAN: EAN Comercial, or else EAN Tributavel.
ExtractDetailBlockEAN(p) ==
  IF p.comercial \in Barcodes THEN p.comercial
  ELSE IF p.tributavel \in Barcodes THEN p.tributavel ELSE NoBarcode

\* All matches of a field's expression in the document.
Printed(fields) == Kept(fields, {i \in DOMAIN fields : fields[i] # NoField})

\* The document mode pairs the i-th EAN Comercial with the i-th EAN Tributavel.
DocumentBarcodes(products) ==
  LET c == Printed([i \in DOMAIN products |-> products[i].comercial])
      t == Printed([i \in DOMAIN products |-> products[i].tributavel])
      count == IF Len(t) > Len(c) THEN Len(t) ELSE Len(c)
  IN  [i \in 1 .. count |->
         IF i \in DOMAIN c /\ c[i] \in Barcodes THEN c[i]
         ELSE IF i \in DOMAIN t /\ t[i] \in Barcodes THEN t[i] ELSE NoBarcode]

\* No barcodes stand for its error: MergeBarcodes leaves items alone on both.
ParseDetailPage(paper) ==
  CASE paper.detail = "blocks"   -> [i \in DOMAIN paper.products |->
                                       ExtractDetailBlockEAN(paper.products[i])]
    [] paper.detail = "document" -> DocumentBarcodes(paper.products)
    [] paper.detail = "none"     -> <<>>

\* Wrong: a missing barcode leaves room for the next one.
MergeBarcodesUnchecked(items, barcodes) ==
  [i \in DOMAIN items |->
     IF i \in DOMAIN barcodes /\ barcodes[i] # NoBarcode
     THEN [items[i] EXCEPT !.barcode = barcodes[i]] ELSE items[i]]

\* Items keep what they have when the lengths differ.
MergeBarcodes(items, barcodes) ==
  IF Len(items) # Len(barcodes) THEN items
  ELSE [i \in DOMAIN items |->
          IF barcodes[i] # NoBarcode
          THEN [items[i] EXCEPT !.barcode = barcodes[i]] ELSE items[i]]

\* The items stored for a paper.
StoredItems(paper) == MergeBarcodes(SummaryItems(paper), ParseDetailPage(paper))

-----------------------------------------------------------------------------
(***************************************************************************)
(* What a paper says, whatever the parser does with it                     *)
(***************************************************************************)

\* The barcode printed for a product.
OwnBarcode(p) ==
  IF p.comercial \in Barcodes THEN p.comercial
  ELSE IF p.tributavel \in Barcodes THEN p.tributavel ELSE NoBarcode

\* Each field is printed for all products or for none: without blocks, a field
\* missing here and there shifts the others.
Uniform(paper) ==
  \A field \in {"comercial", "tributavel"} :
    \/ \A i \in DOMAIN paper.products : paper.products[i][field] = NoField
    \/ \A i \in DOMAIN paper.products : paper.products[i][field] # NoField

Readable(paper) == paper.detail = "document" => Uniform(paper)

\* Whether the detail page can be matched with the summary page at all.
Matched(paper) ==
  /\ paper.detail # "none"
  /\ \A i \in DOMAIN paper.products : paper.products[i].description # NoDescription
=============================================================================
