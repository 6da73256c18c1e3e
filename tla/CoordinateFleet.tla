--------------------------- MODULE CoordinateFleet ---------------------------
(***************************************************************************)
(* A greedy fleet that auctions coordinate items: GreedyAuction, where the *)
(* costs of an auction are what the item plugin makes of the pose at which *)
(* each node evaluates it.  Every behaviour is one of GreedyAuction.       *)
(*                                                                         *)
(* Any other item plugin is taken to price every item alike.               *)
(***************************************************************************)
EXTENDS GreedyProperties, CoordinateItem

VARIABLES
    pose,   \* the last pose each node's state interface has
    at      \* at[a][n]: the pose at which n will come to evaluate auction a

fleetVars == <<vars, pose, at>>

OfCoordinates(a) == TypeOf[a] = "coordinate_item"

PoseTable == {p \in [Auction -> [Agent -> Place \cup {NoPose}]] :
                 \A a \in Auction : OfCoordinates(a) \/ \A n \in Agent : p[a][n] = NoPose}

CostsAt(p) == [a \in Auction |-> [n \in Agent |-> [i \in Item |->
    IF OfCoordinates(a) /\ i \in ItemsOf[a] THEN Evaluate(i, p[a][n]) ELSE 0]]]

FleetInit ==
    /\ at \in PoseTable
    /\ cost = CostsAt(at)
    /\ pose = [n \in Agent |-> NoPose]
    /\ Init

(***************************************************************************)
(* The loop over the items that calls evaluate runs when a node opens or   *)
(* joins an auction, on the pose the state interface has at that moment.   *)
(***************************************************************************)
Opens(n, a) == ~ is_participant[n] /\ running'[n] /\ ~ running[n] /\ goal'[n] = a

Joins(n, a) == self_goals'[n] = Append(self_goals[n], a)

EvaluatesAtPose == \A n \in Agent : \A a \in Auction :
    (OfCoordinates(a) /\ (Opens(n, a) \/ Joins(n, a))) => pose[n] = at[a][n]

\* A pose reaches the state interface, once configure() has connected it.
Localize(n) ==
    /\ configured[n] = AllDone
    /\ \E p \in Place : pose' = [pose EXCEPT ![n] = p]
    /\ UNCHANGED <<vars, at>>

\* A process that starts again has no pose.
FleetStep ==
    /\ Next
    /\ EvaluatesAtPose
    /\ pose' = [n \in Agent |-> IF configured'[n] = 0 THEN NoPose ELSE pose[n]]
    /\ UNCHANGED at

FleetNext == FleetStep \/ \E n \in Agent : Localize(n)

FleetSpec == FleetInit /\ [][FleetNext]_fleetVars

-----------------------------------------------------------------------------
\* Whoever wins was, when it was asked, as near as any other bidder that knew
\* where it was, up to what rounding cannot tell apart; a node that does not
\* know where it is, its state interface being connected last of all, wins
\* only among its likes.  This is about each item by itself: a drone may win
\* several.
ClosestWins == \A r \in results : (r.status = "SUCCESS" /\ OfCoordinates(r.auction)) =>
    \A i \in ItemsOf[r.auction] : \A n \in Bidders[r.auction] :
        LET won  == at[r.auction][r.winners[i]]
            mine == at[r.auction][n]
        IN  mine # NoPose =>
                /\ won # NoPose
                /\ SquaredDistance(won, Target(i)) < SquaredDistance(mine, Target(i)) + Grain
=============================================================================
