\* Two auctions among three agents, the second submitted when the first is over
\* on all nodes; messages in any order, every callback fair, pause and resume at
\* any moment.
SPECIFICATION InTurnSpec
CONSTANTS
  Agent = {1, 2, 3}
  Item = {1}
  Auction = {1, 2}
  Auctioneer <- OtherAuctioneers
  Bidders <- AllThenTwo
  ItemsOf <- SameItem
  ItemType = {"coordinate_item"}
  TypeOf <- SameType
  CostValue = {0, 1, 2}
  Infinity = 2
  Fifo = FALSE
  MaxLoss = 0
  Installed <- AllInstalled
  Late = {}
  Requests = {"pause"}
  Serial = TRUE
INVARIANTS CheapestWins FailureJustified BidConserved SameDataSameResult
PROPERTIES KeepsPromise CompletionIsNew EveryBidderEnds
CHECK_DEADLOCK FALSE
