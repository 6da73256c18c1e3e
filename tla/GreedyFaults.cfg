\* Overlapping auctions, one loss, stops, a node that is configured late and
\* restarted at any moment; the second auction may fail.
SPECIFICATION UnpricedSpec
CONSTANTS
  Agent = {1, 2, 3}
  Item = {1}
  Auction = {1, 2}
  Auctioneer <- TwoAuctioneers
  Bidders <- TwoBidders
  ItemsOf <- SameItem
  ItemType = {"coordinate_item"}
  TypeOf <- SameType
  CostValue = {0, 1}
  Infinity = 1
  Fifo = FALSE
  MaxLoss = 1
  Installed <- AllInstalled
  Late = {2}
  Requests = {"stop", "restart"}
  Serial = FALSE
INVARIANTS TypeOK GhostFree AssignmentFresh KbTracksExecution KbMirrorsResults
CHECK_DEADLOCK FALSE
