\* One auction of an item among three agents, bids relayed through the third.
SPECIFICATION Spec
CONSTANTS
  Agent = {1, 2, 3}
  Item = {1}
  Auction = {1}
  Auctioneer <- FirstOpens
  Bidders <- ThreeBid
  ItemsOf <- Items1
  ItemType = {"coordinate_item"}
  TypeOf <- OneType
  CostValue = {0, 1}
  Infinity = 2
  Fifo = TRUE
  MaxLoss = 0
  Installed <- Installed3
  Late = {}
  Requests = {}
  Serial = FALSE
  BundleSizeParam <- Size1
  MaxQueue = 2
PROPERTIES OnlyGossips
CHECK_DEADLOCK FALSE
