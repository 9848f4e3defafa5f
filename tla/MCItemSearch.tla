---------------------------- MODULE MCItemSearch ----------------------------
(***************************************************************************)
(* An instance of ItemSearch: two products under three descriptions, and   *)
(* papers whose detail pages have blocks, a uniform document, fields here  *)
(* and there, or a product the summary page does not name.                 *)
(***************************************************************************)
EXTENDS ItemSearch, TLC

CONSTANTS
  banana, bananaKg, soap,  \* descriptions
  eanA, eanB,              \* barcodes
  fruit, all               \* texts

P(description, price, comercial, tributavel) ==
  [description |-> description, price |-> price,
   comercial |-> comercial, tributavel |-> tributavel]

MCPapers ==
  { \* a tributavel barcode where the comercial one is "SEM GTIN"
    [products |-> <<P(banana, 1, NoBarcode, eanA), P(soap, 2, NoField, NoBarcode)>>,
     detail |-> "blocks"],
    \* the same product under another description, next to another
    [products |-> <<P(bananaKg, 2, eanA, NoField), P(soap, 1, eanB, NoField)>>,
     detail |-> "document"],
    \* a row of the summary page without a description
    [products |-> <<P(NoDescription, 1, eanB, eanB), P(banana, 1, eanA, eanA)>>,
     detail |-> "blocks"],
    \* the second product's only field comes first among its kind
    [products |-> <<P(soap, 1, NoBarcode, NoField), P(banana, 2, NoBarcode, eanA)>>,
     detail |-> "document"] }

MCContaining == [t \in {fruit, all} |->
                   IF t = fruit THEN {bananaKg} ELSE {banana, bananaKg, soap}]

\* Houses are alike.
HouseSymmetry == Permutations(Houses)
=============================================================================
