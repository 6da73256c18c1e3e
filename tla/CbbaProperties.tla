--------------------------- MODULE CbbaProperties ---------------------------
(***************************************************************************)
(* What a fleet running the cbba plugin must do, in one auction.           *)
(***************************************************************************)
EXTENDS CbbaAuction

Ended(n, a) == \E r \in results : r.by = n /\ r.auction = a

Bidding(n) == auction_items[n] # {}

\* A claim is never made up: wherever agent w is said to win an item, in a
\* node's view or in a bid on its way, the price is w's own cost.
TrueClaim(cl, i) == cl.z[i] # NoAgent =>
    \E a \in Auction : i \in ItemsOf[a] /\ cl.y[i] = cost[a][cl.z[i]][i]

ClaimsAreCosts ==
    /\ \A n \in Agent : \A i \in auction_items[n] : TrueClaim(View(n), i)
    /\ \A c \in Channel : \A k \in DOMAIN net[c] : net[c][k].kind = "bid" =>
          \A i \in Item : TrueClaim(net[c][k].payload, i)

\* After every handler a node's bundle is exactly what its own view says it
\* wins, although cascade_remove drops entries without touching y and z.
BundleIsClaims == \A n \in Agent : Bidding(n) =>
    /\ Range(bundle[n]) = {i \in auction_items[n] : z[n][i] = n}
    /\ IsInjective(bundle[n])
    /\ Len(bundle[n]) <= MaxBundle(n)

\* A node never leaves an item to a dearer agent while it has room for it or
\* holds a dearer item: each agent's share is its greedy choice.
NoEnvy == \A n \in Agent : \A i \in auction_items[n] :
    (z[n][i] # n /\ costs[n][i] < y[n][i]) =>
        /\ Len(bundle[n]) = MaxBundle(n)
        /\ \A j \in Range(bundle[n]) : costs[n][j] <= costs[n][i]

\* While a node takes part in an auction what it believes of an item only
\* gets cheaper, or goes to a smaller name at the same price: an old bid
\* delivered late changes nothing.
Improves(n, i) ==
    \/ y'[n][i] < y[n][i]
    \/ y'[n][i] = y[n][i] /\ (z'[n][i] = z[n][i] \/ z'[n][i] < z[n][i])

ClaimsImprove == \A n \in Agent : (Bidding(n) /\ Bidding(n)') =>
    \A i \in auction_items[n] : Improves(n, i)

ClaimsOnlyImprove == [][ClaimsImprove]_vars

\* The fleet only gossips about true claims: views and bids, seen as beliefs
\* and as what is told, do nothing that ClaimGossip does not allow, whatever
\* bundles, cascades and losses lie beneath.
Belief == [n \in Agent |-> [i \in Item |-> [price |-> y[n][i], by |-> z[n][i]]]]

ToldOn(c) ==
    UNION {{[item |-> i, claim |-> [price |-> net[c][k].payload.y[i],
                                    by    |-> net[c][k].payload.z[i]]]
              : i \in {j \in Item : net[c][k].payload.z[j] # NoAgent}}
             : k \in {l \in DOMAIN net[c] : net[c][l].kind = "bid"}}

Gossip == INSTANCE ClaimGossip WITH
    bidding <- {n \in Agent : Bidding(n)},
    belief  <- Belief,
    told    <- UNION {ToldOn(c) : c \in Channel}

OnlyGossips == Gossip!Spec

\* Once the fleet has gone quiet without a loss, the agent that opened the
\* auction, which had the items before anybody spoke, knows of every item a
\* claim at least as good as anyone's: no claim died unspoken with its maker.
KnowsAsGood(n, m) == \A i \in auction_items[m] :
    \/ y[n][i] < y[m][i]
    \/ y[n][i] = y[m][i] /\ (z[m][i] = NoAgent \/ z[n][i] \in 1..z[m][i])

AuctioneerInformed == \A a \in Auction :
    (/\ lost = 0 /\ \A c \in Channel : net[c] = <<>>
     /\ Bidding(Auctioneer[a])) =>
        \A n \in Agent : Bidding(n) => KnowsAsGood(Auctioneer[a], n)

\* The plugin's at() lookups find what they look for, however auctions
\* overlap: the items of the auction have a cost and a claim, which bids and
\* bundles are made of, and so has a claim whatever is in a bundle that outlived
\* its auction, for the feedback tells its price.
LookupsSucceed == \A n \in Agent :
    /\ \A i \in auction_items[n] : costs[n][i] # NoBid
    /\ auction_items[n] \cup Range(bundle[n]) \subseteq entries[n]

\* "True if the last update() call changed any y_ or z_ entry": the flag never
\* misses what the rebuilt bundle claims, and a bid that changes nothing clears
\* it, whatever the bids before it changed.
Changed(n) == y'[n] # y[n] \/ z'[n] # z[n]

FlagExact == \A n \in Agent : (Bidding(n) /\ Bidding(n)') =>
    /\ Changed(n) => changed'[n]
    /\ (changed'[n] /\ (~ changed[n] \/ \E s \in Agent : HandleBid(s, n))) => Changed(n)

ChangedFlagExact == [][FlagExact]_vars

\* Two agents do not answer each other for ever.
BidInFlight == \E c \in Channel : \E k \in DOMAIN net[c] : net[c][k].kind = "bid"

ExchangesEnd == <>[] ~ BidInFlight

\* Somebody ends the auction: unless stopped, the agent nobody beats converges.
SomeBidderEnds == \A a \in Auction :
    a \in submitted ~> \E n \in Bidders[a] : Ended(n, a)

-----------------------------------------------------------------------------
(***************************************************************************)
(* What the repository says of the plugin, and the code does not do.       *)
(***************************************************************************)

\* Agents "reach conflict-free assignments through iterative consensus": two
\* successes of one auction name the same winners.
ConflictFree == \A r1, r2 \in results :
    (r1.auction = r2.auction /\ r1.status = "SUCCESS" /\ r2.status = "SUCCESS") =>
        r1.winners = r2.winners

\* "iteratively updates on peer bids until no state change occurs": a node
\* that has heard all its peers and is owed no message converges.
QuietConverges == \A n \in Agent : \A a \in Auction :
    (/\ running[n] /\ goal[n] = a
     /\ HeardAllPeers(n, received_from[n])
     /\ \A c \in Channel : net[c] = <<>>) ~> Ended(n, a)
=============================================================================
