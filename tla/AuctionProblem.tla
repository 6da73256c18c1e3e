--------------------------- MODULE AuctionProblem ---------------------------
(***************************************************************************)
(* The data of the auctions: who can bid, what is auctioned, what every    *)
(* item costs every agent, and the assignment the greedy rule promises.    *)
(*                                                                         *)
(* Agents and items are naturals because the code orders them: agent names *)
(* are compared lexicographically to break ties, items come in a list.  An *)
(* agent stands for its namespace without the leading '/', and NoAgent for *)
(* the empty string, which is smaller than every name.                     *)
(***************************************************************************)
EXTENDS Integers, FiniteSets

CONSTANTS
    Agent,       \* the nodes that run auction_behavior
    Item,        \* every item name any auction uses
    Auction,     \* the Auction goals a mission submits
    Auctioneer,  \* the node each goal is submitted to
    Bidders,     \* goal.bidders
    ItemsOf,     \* goal.elements
    ItemType,    \* item plugin names
    TypeOf,      \* goal.type
    CostValue,   \* the values item->evaluate() can return
    Infinity     \* bounds the costs that can win; inf and NaN are at or above

NoAgent == 0
NoName  == 0
NoBid   == -1

ASSUME AgentAssumption    == Agent \subseteq Nat \ {NoAgent}
ASSUME ItemAssumption     == Item \subseteq Nat
ASSUME FiniteAssumption   == \A a \in Auction : IsFiniteSet(ItemsOf[a])
ASSUME AuctionAssumption  == Auction \subseteq Nat \ {NoName}
ASSUME CostAssumption     == CostValue \subseteq Nat /\ Infinity \in Nat
ASSUME GoalAssumption     == /\ Auctioneer \in [Auction -> Agent]
                             /\ Bidders \in [Auction -> SUBSET Agent]
                             /\ ItemsOf \in [Auction -> SUBSET Item]
                             /\ TypeOf \in [Auction -> ItemType]

(***************************************************************************)
(* cost[a][n][i] is what item->evaluate(state_interface_) returns for item *)
(* i on node n when auction a reaches it.  It is drawn once and never      *)
(* changes: every node evaluates an auction's items at one pose.           *)
(***************************************************************************)
VARIABLE cost

CostTable == [Auction -> [Agent -> [Item -> CostValue]]]

\* A map item name -> double; NoBid for an item the map does not hold.
CostVector == [Item -> CostValue \cup {NoBid}]
NoCosts    == [i \in Item |-> NoBid]

\* The cost vector node n computes for, and broadcasts in, auction a.
CostsFor(a, n) ==
    [i \in Item |-> IF i \in ItemsOf[a] THEN cost[a][n][i] ELSE NoBid]

(***************************************************************************)
(* The reference: w is the bidder of auction a that must get item i, the   *)
(* cheapest one, the smallest name among equals.  Nobody gets an item that *)
(* no bidder can price below Infinity.                                     *)
(***************************************************************************)
Prices(a, n, i) == n \in Bidders[a] /\ cost[a][n][i] < Infinity

IsCheapest(a, w, i) ==
    /\ Prices(a, w, i)
    /\ \A n \in Agent : Prices(a, n, i) =>
          \/ cost[a][w][i] < cost[a][n][i]
          \/ cost[a][w][i] = cost[a][n][i] /\ w <= n

Unassignable(a, i) == \A n \in Agent : ~ Prices(a, n, i)

Assignment == [Item -> Agent \cup {NoAgent}]
Nobody     == [i \in Item |-> NoAgent]
=============================================================================
