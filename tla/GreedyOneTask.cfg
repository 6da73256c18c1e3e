\* One auction of two items between two agents.
SPECIFICATION Spec
CONSTANTS
  Agent = {1, 2}
  Item = {1, 2}
  Auction = {1}
  Auctioneer <- OneAuctioneer
  Bidders <- OneBidders
  ItemsOf <- TwoItems
  ItemType = {"coordinate_item"}
  TypeOf <- OneType
  CostValue = {0, 1, 2}
  Infinity = 2
  Fifo = TRUE
  MaxLoss = 0
  Installed <- BothInstalled
  Late = {}
  Requests = {}
  Serial = FALSE
INVARIANTS OneTaskEach
CHECK_DEADLOCK FALSE
