---------------------------- MODULE MCCoordinate ----------------------------
(* A small fleet for TLC: values for the constants of CoordinateFleet. *)
EXTENDS CoordinateFleet

Two   == 1..2
Three == 1..3

\* An auction of points that both agents can price, then two of an item type
\* that agent 1 cannot load: one that agent 2 opens, one that agent 1 would.
Openers  == [a \in Three |-> IF a = 2 THEN 2 ELSE 1]
BothBid  == [a \in Three |-> Two]
Lots     == [a \in Three |-> IF a = 1 THEN {1, 2} ELSE {2}]
LotTypes == [a \in Three |-> IF a = 1 THEN "coordinate_item" ELSE "other_item"]
Plugins  == [n \in Two |-> IF n = 1 THEN {"coordinate_item"}
                           ELSE {"coordinate_item", "other_item"}]

\* The second item lacks a coordinate, and counts as the origin.
Points == [i \in Two |-> IF i = 1 THEN <<3, 1>> ELSE <<5>>]
Spots  == {<<0, 0>>, <<1, 0>>, <<3, 3>>}
=============================================================================
