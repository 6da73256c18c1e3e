\* One auction of three items between two agents, messages in any order,
\* a loss, a node configured late, stops, restarts.
SPECIFICATION Spec
CONSTANTS
  Agent = {1, 2}
  Item = {1, 2, 3}
  Auction = {1}
  Auctioneer <- FirstOpens
  Bidders <- TwoBid
  ItemsOf <- Items3
  ItemType = {"coordinate_item"}
  TypeOf <- OneType
  CostValue = {0, 1, 2}
  Infinity = 2
  Fifo = FALSE
  MaxLoss = 1
  Installed <- Installed2
  Late = {2}
  Requests = {"stop", "restart"}
  Serial = FALSE
  BundleSizeParam <- SizeMixed
  MaxQueue = 3
INVARIANTS ClaimsAreCosts BundleIsClaims NoEnvy AuctioneerInformed
PROPERTIES ClaimsOnlyImprove ChangedFlagExact OnlyGossips
CHECK_DEADLOCK FALSE
