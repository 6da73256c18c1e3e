\* Two auctions at once with a bidder in both.
SPECIFICATION Spec
CONSTANTS
  Agent = {1, 2, 3}
  Item = {1}
  Auction = {1, 2}
  Auctioneer <- TwoAuctioneers
  Bidders <- TwoBidders
  ItemsOf <- SameItem
  ItemType = {"coordinate_item"}
  TypeOf <- SameType
  CostValue = {0}
  Infinity = 1
  Fifo = TRUE
  MaxLoss = 0
  Installed <- AllInstalled
  Late = {}
  Requests = {}
  Serial = FALSE
INVARIANTS OnlyAuctioneerStarts
CHECK_DEADLOCK FALSE
