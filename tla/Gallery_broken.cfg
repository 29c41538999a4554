SPECIFICATION SafeSpec
CONSTANTS
  Wallet = "wallet"
  Nodes = {"n1", "n2"}
  Skew <- MCSkew
  Window = 2
  Delays = {0, 1}
  Tickets = {"t1", "bad"}
  Broken = {"bad"}
  Recommended <- MCRecommended
  Calls = {"c1"}
  Seller = "seller"
  NoCall = NoCall
  NoTicket = NoTicket
  NoNode = NoNode
  MaxSales = 1
  MaxCrashes = 0
PROPERTY BrokenTicketStored
CHECK_DEADLOCK FALSE
