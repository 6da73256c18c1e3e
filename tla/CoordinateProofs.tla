-------------------------- MODULE CoordinateProofs --------------------------
(***************************************************************************)
(* A fleet that auctions coordinate items is a greedy fleet, so what is    *)
(* proved of every greedy fleet holds of it; and the cheapest bidder is    *)
(* then the closest one.                                                   *)
(***************************************************************************)
EXTENDS CoordinateFleet, GreedyOutcomeProofs

\* Every behaviour of the coordinate fleet is one of the greedy fleet.
THEOREM FleetIsGreedy == FleetSpec => Spec
<1>1. FleetInit => Init
  BY DEF FleetInit
<1>2. [FleetNext]_fleetVars => [Next]_vars
  BY DEF FleetNext, FleetStep, Localize, fleetVars
<1> QED  BY <1>1, <1>2, PTL DEF FleetSpec, Spec

-----------------------------------------------------------------------------
\* The costs are, for good, those of the poses agents will be asked at.
CostsOfPoses == at \in PoseTable /\ cost = CostsAt(at)

LEMMA CostFixed == [Next]_vars => cost' = cost
BY DEF Next, Environment, Ignore, ReceiveGoal, RefuseActivation, Activate, SelfGoal,
       ReceiveSelfGoal, RefuseSelfGoal, Handle, HandleStart, HandleStartUnloadable, HandleBid,
       DropUnregistered, LoseMessage, OnRun, RunWaiting, RunSuccess, RunFailure, Stop, Restart,
       Configure, Pause, Resume, vars

LEMMA CostsOfPosesAlways == FleetSpec => []CostsOfPoses
<1>1. FleetInit => CostsOfPoses
  BY DEF FleetInit, CostsOfPoses
<1>2. CostsOfPoses /\ [FleetNext]_fleetVars => CostsOfPoses'
  <2> SUFFICES ASSUME CostsOfPoses, [FleetNext]_fleetVars PROVE CostsOfPoses'
    OBVIOUS
  <2>1. [Next]_vars /\ at' = at
    BY DEF FleetNext, FleetStep, Localize, fleetVars
  <2>2. cost' = cost
    BY <2>1, CostFixed
  <2> QED  BY <2>1, <2>2 DEF CostsOfPoses, CostsAt, PoseTable
<1> QED  BY <1>1, <1>2, PTL DEF FleetSpec

-----------------------------------------------------------------------------
\* What rounding cannot tell apart is less than a grain apart.
LEMMA Rounding ==
    ASSUME NEW x \in Int, NEW z \in Int, NEW g \in Nat \ {0}, x \div g <= z \div g
    PROVE  x < z + g
<1>1. x = g * (x \div g) + (x % g) /\ x % g \in 0..(g - 1) /\ x \div g \in Int
  OBVIOUS
<1>2. z = g * (z \div g) + (z % g) /\ z % g \in 0..(g - 1) /\ z \div g \in Int
  OBVIOUS
<1>3. g * (x \div g) <= g * (z \div g)
  BY <1>1, <1>2
<1> QED  BY <1>1, <1>2, <1>3

LEMMA DistanceType ==
    ASSUME NEW i \in Item, NEW p \in Place
    PROVE  SquaredDistance(p, Target(i)) \in Int
<1>1. Target(i) \in Int \X Int
  BY ItemDataAssumption DEF Target
<1>2. p \in Int \X Int
  BY ItemDataAssumption
<1> QED  BY <1>1, <1>2 DEF SquaredDistance

\* The cheaper of two evaluations, one of them at a pose, was at a pose too, and
\* no farther away than a grain.
LEMMA CheaperIsCloser ==
    ASSUME NEW i \in Item, NEW p \in Place \cup {NoPose}, NEW q \in Place, q # NoPose,
           Evaluate(i, p) <= Evaluate(i, q)
    PROVE  p # NoPose /\ SquaredDistance(p, Target(i)) < SquaredDistance(q, Target(i)) + Grain
<1>1. Evaluate(i, q) \in 0..(FloatMax - 1) /\ FloatMax \in Int
  BY ItemDataAssumption, CostAssumption DEF FloatMax
<1>2. p # NoPose
  BY <1>1 DEF Evaluate
<1>3. /\ Evaluate(i, p) = SquaredDistance(p, Target(i)) \div Grain
      /\ Evaluate(i, q) = SquaredDistance(q, Target(i)) \div Grain
  BY <1>2 DEF Evaluate
<1> QED  BY <1>2, <1>3, DistanceType, Rounding, ItemDataAssumption

\* Then the cheapest of those who knew where they were is the closest.
LEMMA CheapestIsClosest == TypeInv /\ CheapestWins /\ CostsOfPoses => ClosestWins
<1> SUFFICES ASSUME TypeInv, CheapestWins, CostsOfPoses, NEW r \in results,
                    r.status = "SUCCESS", OfCoordinates(r.auction),
                    NEW i \in ItemsOf[r.auction], NEW n \in Bidders[r.auction],
                    at[r.auction][n] # NoPose
             PROVE  LET won  == at[r.auction][r.winners[i]]
                        mine == at[r.auction][n]
                    IN  /\ won # NoPose
                        /\ SquaredDistance(won, Target(i)) < SquaredDistance(mine, Target(i)) + Grain
  BY DEF ClosestWins
<1> DEFINE a == r.auction
           w == r.winners[i]
<1>1. a \in Auction /\ i \in Item /\ n \in Agent
  BY GoalAssumption DEF TypeInv, TypeOK, NodeTypeOK, Result
<1>2. IsCheapest(a, w, i)
  BY DEF CheapestWins
<1>3. w \in Agent
  BY <1>1, <1>2, GoalAssumption DEF IsCheapest, Prices
<1>4. at[a][n] \in Place /\ at[a][w] \in Place \cup {NoPose}
  BY <1>1, <1>3 DEF CostsOfPoses, PoseTable
<1>5. cost[a][n][i] = Evaluate(i, at[a][n]) /\ cost[a][w][i] = Evaluate(i, at[a][w])
  BY <1>1, <1>3 DEF CostsOfPoses, CostsAt
<1>6. Evaluate(i, at[a][n]) \in 0..(FloatMax - 1) /\ FloatMax = Infinity - 1 /\ Infinity \in Nat
  BY <1>1, <1>4, ItemDataAssumption, CostAssumption DEF FloatMax
<1>7. Prices(a, n, i)
  BY <1>5, <1>6 DEF Prices
<1>8. cost[a][w][i] \in Nat /\ cost[a][n][i] \in Nat
  <2>1. cost \in [Auction -> [Agent -> [Item -> CostValue]]]
    BY DEF TypeInv, TypeOK, CostTable
  <2>2. cost[a] \in [Agent -> [Item -> CostValue]]
    BY <1>1, <2>1
  <2>3. cost[a][w] \in [Item -> CostValue] /\ cost[a][n] \in [Item -> CostValue]
    BY <1>1, <1>3, <2>2
  <2> QED  BY <1>1, <2>3, CostAssumption
<1>9. Evaluate(i, at[a][w]) <= Evaluate(i, at[a][n])
  BY <1>1, <1>2, <1>5, <1>7, <1>8 DEF IsCheapest
<1> QED  BY <1>1, <1>4, <1>9, CheaperIsCloser

\* With one auction, whoever wins is the closest of those who knew where they
\* were, for any fleet, items and poses, in any order and whatever is lost.
THEOREM ClosestAlwaysWins ==
    ASSUME SingleAuction PROVE FleetSpec => []ClosestWins
BY CheapestIsClosest, FleetIsGreedy, CostsOfPosesAlways, CheapestAlwaysWins, TypeInvInit, TypeInvNext,
   PTL DEF Spec

\* So it is in every one of a series of auctions, whatever poses the agents
\* had in the earlier ones.
THEOREM ClosestWinsInTurn ==
    ASSUME SerialMissions PROVE FleetSpec => []ClosestWins
BY CheapestIsClosest, FleetIsGreedy, CostsOfPosesAlways, CheapestWinsInTurn, TypeInvInit, TypeInvNext,
   PTL DEF Spec
=============================================================================
