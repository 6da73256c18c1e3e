\* Two auctions that share an item, opened by different agents at any moment,
\* with stops.
SPECIFICATION Spec
CONSTANTS
  Agent = {1, 2}
  Item = {1, 2}
  Auction = {1, 2}
  Auctioneer <- EachOpens
  Bidders <- BothBid
  ItemsOf <- SharedItem
  ItemType = {"coordinate_item"}
  TypeOf <- SameType
  CostValue = {0, 1}
  Infinity = 2
  Fifo = TRUE
  MaxLoss = 0
  Installed <- Installed2
  Late = {}
  Requests = {"stop"}
  Serial = FALSE
  BundleSizeParam <- SizeMixed
  MaxQueue = 4
INVARIANTS TypeOK ClaimsAreCosts LookupsSucceed
CHECK_DEADLOCK FALSE
