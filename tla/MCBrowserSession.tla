-------------------------- MODULE MCBrowserSession --------------------------
(***************************************************************************)
(* An instance of BrowserSession: a detail page with blocks, one without,  *)
(* and one that prints a product the summary page does not name.           *)
(***************************************************************************)
EXTENDS BrowserSession

CONSTANTS
  banana, soap,  \* descriptions
  eanA, eanB     \* barcodes

P(description, comercial, tributavel) ==
  [description |-> description, price |-> 1,
   comercial |-> comercial, tributavel |-> tributavel]

MCPapers ==
  { [products |-> <<P(banana, NoBarcode, eanA), P(soap, eanB, NoField)>>,
     detail |-> "blocks"],
    [products |-> <<P(banana, eanA, NoField), P(soap, NoBarcode, NoField)>>,
     detail |-> "document"],
    [products |-> <<P(NoDescription, eanB, eanB), P(banana, eanA, eanA)>>,
     detail |-> "blocks"] }
=============================================================================
