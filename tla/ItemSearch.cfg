SPECIFICATION Spec
CONSTANTS
  banana = banana
  bananaKg = bananaKg
  soap = soap
  eanA = eanA
  eanB = eanB
  fruit = fruit
  all = all
  Descriptions = {banana, bananaKg, soap}
  NoDescription = NoDescription
  Barcodes = {eanA, eanB}
  NoBarcode = NoBarcode
  NoField = NoField
  Houses = {h1, h2}
  Papers <- MCPapers
  Texts = {fruit, all}
  Containing <- MCContaining
  Periods = {0}
  AllTime = AllTime
  NoReceipt = NoReceipt
  ItemSearchLimit = 2
  MaxReceipts = 3
  MaxTime = 1
SYMMETRY HouseSymmetry
INVARIANT TypeOK
INVARIANT WiderSearchAgrees
CHECK_DEADLOCK FALSE
PROPERTY OtherHousesUnmoved
PROPERTY DeletionRevealsPrevious
