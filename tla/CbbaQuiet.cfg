\* One item, two agents, every callback fair.
SPECIFICATION FairSpec
CONSTANTS
  Agent = {1, 2}
  Item = {1}
  Auction = {1}
  Auctioneer <- FirstOpens
  Bidders <- TwoBid
  ItemsOf <- Items1
  ItemType = {"coordinate_item"}
  TypeOf <- OneType
  CostValue = {0, 1, 2}
  Infinity = 3
  Fifo = TRUE
  MaxLoss = 0
  Installed <- Installed2
  Late = {}
  Requests = {}
  Serial = FALSE
  BundleSizeParam <- Size1of2
  MaxQueue = 3
PROPERTIES QuietConverges
CHECK_DEADLOCK FALSE
