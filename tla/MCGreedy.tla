------------------------------ MODULE MCGreedy ------------------------------
(* Small fleets for TLC: values for the constants of GreedyAuction. *)
EXTENDS GreedyProperties

Three == 1..3
Two   == 1..2

AllInstalled   == [n \in Three |-> {"coordinate_item"}]

\* Two auctions of the same item by different auctioneers; only agent 2 is
\* in both.
TwoAuctioneers == [a \in Two |-> IF a = 1 THEN 1 ELSE 3]
TwoBidders     == [a \in Two |-> IF a = 1 THEN {1, 2} ELSE {2, 3}]
SameItem       == [a \in Two |-> {1}]
SameType       == [a \in Two |-> "coordinate_item"]

\* Nobody can price the item when the second of them begins.
UnpricedInit ==
    /\ Init
    /\ \A n \in Three : cost[1][n][1] = 0 /\ cost[2][n][1] = Infinity

UnpricedSpec == UnpricedInit /\ [][Next]_vars

\* Two auctions, of all agents, then of two of them.  Every cost table of the
\* first is tried; in the second each agent has the cost its neighbour had.
OtherAuctioneers == [a \in Two |-> a]
AllThenTwo       == [a \in Two |-> IF a = 1 THEN Three ELSE {1, 2}]

Neighbour(n) == (n % 3) + 1

InTurnInit ==
    /\ Init
    /\ \A n \in Three : cost[2][n] = cost[1][Neighbour(n)]

InTurnSpec == InTurnInit /\ [][Next]_vars /\ Fairness

\* One auction of two items between two agents.
OneAuctioneer == [a \in {1} |-> 1]
OneBidders    == [a \in {1} |-> Two]
TwoItems      == [a \in {1} |-> Two]
OneType       == [a \in {1} |-> "coordinate_item"]

\* Two auctions of two agents by the same auctioneer.
SameAuctioneer == [a \in Two |-> 1]
BothBid        == [a \in Two |-> Two]
BothInstalled  == [n \in Two |-> {"coordinate_item"}]
=============================================================================
