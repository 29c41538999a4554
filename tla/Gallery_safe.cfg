SPECIFICATION Spec
CONSTANTS
  Wallet = "wallet"
  Nodes = {"n1", "n2"}
  Skew <- MCSkew
  Window = 2
  Delays = {0, 1}
  Tickets = {"t1", "bad"}
  Broken = {"bad"}
  Recommended <- MCRecommended
  Calls = {"c1", "c2"}
  Seller = "seller"
  NoCall = NoCall
  NoTicket = NoTicket
  NoNode = NoNode
  MaxSales = 2
  MaxCrashes = 1
INVARIANTS
  GalleryTypeOK
  RowHasThumbnail
  OfferBacked
  AnsweredByAsked
PROPERTIES
  DownloadVerdict
  ListComplete
  SalesShown
  ThumbnailFinal
  CallsAnswered
CHECK_DEADLOCK FALSE
