\* An auction is stopped; the next one starts when all is quiet.
SPECIFICATION Spec
CONSTANTS
  Agent = {1, 2}
  Item = {1}
  Auction = {1, 2}
  Auctioneer <- SameAuctioneer
  Bidders <- BothBid
  ItemsOf <- SameItem
  ItemType = {"coordinate_item"}
  TypeOf <- SameType
  CostValue = {0, 1}
  Infinity = 2
  Fifo = FALSE
  MaxLoss = 0
  Installed <- BothInstalled
  Late = {}
  Requests = {"stop"}
  Serial = TRUE
INVARIANTS LowestCostWins
CHECK_DEADLOCK FALSE
