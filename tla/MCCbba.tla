------------------------------- MODULE MCCbba -------------------------------
(* Small fleets for TLC: values for the constants of CbbaAuction. *)
EXTENDS CbbaProperties

Three == 1..3
Two   == 1..2

\* One auction between two agents, opened by the first.
FirstOpens == [a \in {1} |-> 1]
TwoBid     == [a \in {1} |-> Two]
ThreeBid   == [a \in {1} |-> Three]
OneType    == [a \in {1} |-> "coordinate_item"]
Items1     == [a \in {1} |-> {1}]
Items2     == [a \in {1} |-> {1, 2}]
Items3     == [a \in {1} |-> {1, 2, 3}]
Installed2 == [n \in Two |-> {"coordinate_item"}]
Installed3 == [n \in Three |-> {"coordinate_item"}]

\* bundle_size: the default; one agent with room for two; 0, which counts as 1.
Size1      == [n \in Three |-> 1]
Size1of2   == [n \in Two |-> 1]
SizeMixed  == [n \in Two |-> IF n = 1 THEN 2 ELSE 0]

\* Two auctions that may overlap, with an item in both.
EachOpens    == [a \in Two |-> a]
BothBid      == [a \in Two |-> Two]
SharedItem   == [a \in Two |-> IF a = 1 THEN {1, 2} ELSE {2}]
SameType     == [a \in Two |-> "coordinate_item"]
=============================================================================
