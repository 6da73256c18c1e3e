\* An auction of coordinates, then two of an item type only one of two agents
\* can load; both nodes are configured while it all happens.
SPECIFICATION FleetSpec
CONSTANTS
  Agent = {1, 2}
  Item = {1, 2}
  Auction = {1, 2, 3}
  Auctioneer <- Openers
  Bidders <- BothBid
  ItemsOf <- Lots
  ItemType = {"coordinate_item", "other_item"}
  TypeOf <- LotTypes
  CostValue = {0, 1, 2, 4, 5, 9, 10}
  Infinity = 11
  Fifo = FALSE
  MaxLoss = 1
  Installed <- Plugins
  Late = {1, 2}
  Requests = {}
  Serial = TRUE
  Features <- Points
  Place <- Spots
  Grain = 2
INVARIANTS ClosestWins AllOrNothing FeedbackAligned
CHECK_DEADLOCK FALSE
