----------------------------- MODULE CbbaClaims -----------------------------
(***************************************************************************)
(* The algorithm of cbba::Plugin on what one agent believes: a view v with *)
(* v.y, the lowest bid seen for each item, v.z, whose it is, and v.bundle, *)
(* the items the agent claims in the order it did.                         *)
(*                                                                         *)
(* Items come in the goal's list in the order of their numbers.            *)
(***************************************************************************)
EXTENDS AuctionProblem, Sequences, SequencesExt

CONSTANT BundleSizeParam   \* the "bundle_size" parameter of each node

ASSUME BundleAssumption == BundleSizeParam \in [Agent -> Int]

Claims == [Item -> CostValue \cup {Infinity}]

\* A bid message: y and z of the items it names, NoBid for the others.
ClaimBid == [y : [Item -> CostValue \cup {Infinity, NoBid}], z : Assignment]

Unclaimed == [i \in Item |-> Infinity]

(***************************************************************************)
(* build_bundle of agent n with costs c, on a view v = [y, z, bundle].     *)
(* The loop takes, while there is room, the cheapest claimable item, the   *)
(* first in the list among equals; what it claims leaves the others'       *)
(* claimability alone, so it takes the first few in that order.            *)
(***************************************************************************)
MaxBundle(n) == IF BundleSizeParam[n] < 1 THEN 1 ELSE BundleSizeParam[n]

Sooner(c, i, j) == c[i] < c[j] \/ (c[i] = c[j] /\ i < j)

Claimable(n, c, items, v) ==
    {i \in items \ Range(v.bundle) :
        c[i] < Infinity /\ (v.z[i] = n \/ c[i] < v.y[i])}

\* The items of S in the order the loop takes them.
InOrder(c, S) ==
    CHOOSE q \in [1..Cardinality(S) -> S] :
        \A j, k \in DOMAIN q : j < k => Sooner(c, q[j], q[k])

BuildBundle(n, c, items, v) ==
    LET Able  == Claimable(n, c, items, v)
        Added == {i \in Able : Len(v.bundle) +
                     Cardinality({j \in Able : Sooner(c, j, i)}) < MaxBundle(n)}
    IN  [y |-> [i \in Item |-> IF i \in Added /\ v.z[i] # n THEN c[i] ELSE v.y[i]],
         z |-> [i \in Item |-> IF i \in Added THEN n ELSE v.z[i]],
         bundle |-> v.bundle \o InOrder(c, Added)]

(***************************************************************************)
(* The same loop turn by turn, as it is written: the list is scanned for   *)
(* the best claimable item, the first among equals, and the item is        *)
(* claimed, until the bundle is full or the scan finds none.  There are at *)
(* most as many turns as items; those after the last change nothing.       *)
(***************************************************************************)
NoItem == -1

\* The goal's list of items.
Listed(S) ==
    CHOOSE q \in [1..Cardinality(S) -> S] :
        \A j, k \in DOMAIN q : j < k => q[j] < q[k]

Better(n, c, v, best, i) ==
    /\ i \notin Range(v.bundle)
    /\ v.z[i] = n \/ c[i] < v.y[i]
    /\ c[i] < (IF best = NoItem THEN Infinity ELSE c[best])

BestTask(n, c, items, v) ==
    LET list == Listed(items)
        Scan[k \in 0..Cardinality(items)] ==
            IF k = 0 THEN NoItem
            ELSE IF Better(n, c, v, Scan[k - 1], list[k]) THEN list[k] ELSE Scan[k - 1]
    IN  Scan[Cardinality(items)]

ClaimTask(n, c, v, best) ==
    [y |-> IF v.z[best] = n THEN v.y ELSE [v.y EXCEPT ![best] = c[best]],
     z |-> [v.z EXCEPT ![best] = n],
     bundle |-> Append(v.bundle, best)]

LoopTurn(n, c, items, v) ==
    LET best == BestTask(n, c, items, v)
    IN  IF Len(v.bundle) >= MaxBundle(n) \/ best = NoItem THEN v
        ELSE ClaimTask(n, c, v, best)

BuildLoop(n, c, items, v) ==
    LET After[k \in 0..Cardinality(items)] ==
            IF k = 0 THEN v ELSE LoopTurn(n, c, items, After[k - 1])
    IN  After[Cardinality(items)]

(***************************************************************************)
(* What update does to a view: consensus item by item, then the release of *)
(* the bundle from the first lost item on.                                 *)
(***************************************************************************)
\* Mutant: the last bid wins.
BeatsIfNewer(bid, v, i) == bid.y[i] # NoBid /\ bid.y[i] # v.y[i]

\* Mutant: at the same price whoever speaks last wins.
BeatsAtSamePrice(bid, v, i) ==
    /\ bid.y[i] # NoBid
    /\ bid.y[i] < v.y[i] \/ (bid.y[i] = v.y[i] /\ bid.z[i] # NoAgent)

\* The bid beats what view v holds on item i: lower, or equal by a smaller
\* name than the holder's.
Beats(bid, v, i) ==
    /\ bid.y[i] # NoBid
    /\ \/ bid.y[i] < v.y[i]
       \/ /\ bid.y[i] = v.y[i]
          /\ bid.z[i] # NoAgent
          /\ v.z[i] = NoAgent \/ bid.z[i] < v.z[i]

Adopted(items, v, bid) == {i \in items : Beats(bid, v, i)}

\* Mutant: the price is taken over without its agent.
ConsensusOnPrice(items, v, bid) ==
    [v EXCEPT !.y = [i \in Item |->
        IF i \in Adopted(items, v, bid) THEN bid.y[i] ELSE v.y[i]]]

\* Mutant: a winner taken over comes without its price.
ConsensusOnWinner(items, v, bid) ==
    [v EXCEPT !.z = [i \in Item |->
        IF i \in Adopted(items, v, bid) THEN bid.z[i] ELSE v.z[i]]]

Consensus(items, v, bid) ==
    LET Won == Adopted(items, v, bid)
    IN  [v EXCEPT !.y = [i \in Item |-> IF i \in Won THEN bid.y[i] ELSE v.y[i]],
                  !.z = [i \in Item |-> IF i \in Won THEN bid.z[i] ELSE v.z[i]]]

LostAt(n, v) == {k \in DOMAIN v.bundle : v.z[v.bundle[k]] # n}

\* Mutant: the first lost item stays.
CascadeRemoveAfter(n, v) ==
    IF LostAt(n, v) = {} THEN v
    ELSE [v EXCEPT !.bundle = SubSeq(@, 1, Min(LostAt(n, v)))]

\* cascade_remove, which leaves y and z alone.
CascadeRemove(n, v) ==
    IF LostAt(n, v) = {} THEN v
    ELSE [v EXCEPT !.bundle = SubSeq(@, 1, Min(LostAt(n, v)) - 1)]

\* compute_bid: all the agent believes of the auction's items.
ComputeBid(items, v) ==
    [y |-> [i \in Item |-> IF i \in items THEN v.y[i] ELSE NoBid],
     z |-> [i \in Item |-> IF i \in items THEN v.z[i] ELSE NoAgent]]
=============================================================================
