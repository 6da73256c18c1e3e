--------------------------- MODULE CoordinateItem ---------------------------
(***************************************************************************)
(* coordinate_item::Plugin: an item is a point, and costs an agent the     *)
(* distance from where its state interface says the agent is.              *)
(*                                                                         *)
(* Coordinates are integers.  The square root and the cast to float keep   *)
(* the order of the distances and may make two of them equal: Grain is     *)
(* how far apart, squared, they can then have been.                        *)
(***************************************************************************)
EXTENDS AuctionProblem, Sequences

CONSTANTS
    Features,   \* AuctionItem.features, by item
    Place,      \* where an agent can be
    Grain

NoPose == <<>>   \* no pose was received, or no state interface is connected

\* create: the point an item stands for.
Target(i) ==
    IF Len(Features[i]) >= 2 THEN <<Features[i][1], Features[i][2]>> ELSE <<0, 0>>

SquaredDistance(p, q) ==
    (p[1] - q[1]) * (p[1] - q[1]) + (p[2] - q[2]) * (p[2] - q[2])

\* numeric_limits<float>::max(): beyond every distance, and yet it can win.
FloatMax == Infinity - 1

\* Mutant: what is not known costs nothing.
EvaluateToZero(i, p) ==
    IF p = NoPose THEN 0 ELSE SquaredDistance(p, Target(i)) \div Grain

Evaluate(i, p) ==
    IF p = NoPose THEN FloatMax ELSE SquaredDistance(p, Target(i)) \div Grain

ASSUME ItemDataAssumption ==
    /\ Features \in [Item -> Seq(Int)]
    /\ Place \subseteq Int \X Int
    /\ Grain \in Nat \ {0}
    /\ \A i \in Item : \A p \in Place : Evaluate(i, p) \in CostValue \cap 0..(FloatMax - 1)
    /\ {0, FloatMax} \subseteq CostValue
=============================================================================
