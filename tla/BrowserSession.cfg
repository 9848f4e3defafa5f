SPECIFICATION FairSpec
CONSTANTS
  banana = banana
  soap = soap
  eanA = eanA
  eanB = eanB
  Descriptions = {banana, soap}
  NoDescription = NoDescription
  Barcodes = {eanA, eanB}
  NoBarcode = NoBarcode
  NoField = NoField
  Papers <- MCPapers
  ScrapeTimeout = 4
  PostbackWait = 2
  MaxSessions = 3
INVARIANT TypeOK
INVARIANT BrowserReleased
INVARIANT BarcodesAreOwn
INVARIANT LinkedDetailIsWhole
PROPERTY SessionsEnd
PROPERTY KeepsPromise
CHECK_DEADLOCK FALSE
