\* One auction of two items between two agents, every callback fair,
\* stops and pauses.
SPECIFICATION FairSpec
CONSTANTS
  Agent = {1, 2}
  Item = {1, 2}
  Auction = {1}
  Auctioneer <- FirstOpens
  Bidders <- TwoBid
  ItemsOf <- Items2
  ItemType = {"coordinate_item"}
  TypeOf <- OneType
  CostValue = {0, 1, 2}
  Infinity = 2
  Fifo = FALSE
  MaxLoss = 0
  Installed <- Installed2
  Late = {}
  Requests = {"stop", "pause"}
  Serial = FALSE
  BundleSizeParam <- SizeMixed
  MaxQueue = 3
PROPERTIES ExchangesEnd SomeBidderEnds
CHECK_DEADLOCK FALSE
