---------------------------- MODULE GreedyPlugin ----------------------------
(***************************************************************************)
(* greedy_sequential::Plugin.  Every agent broadcasts its cost vector once *)
(* and each computes, from what it has heard, who gets which item.         *)
(***************************************************************************)
EXTENDS AuctionPluginBase

VARIABLES
    my_costs,           \* item -> cost, NoBid if the map has no such item
    received_bids,      \* peer -> item -> cost
    received_from,      \* peers that have been heard from
    global_assignment   \* item -> winner, NoAgent for "" and for no entry

greedyVars == <<my_costs, received_bids, received_from, global_assignment>>
pluginVars == <<baseVars, greedyVars>>

PluginTypeOK ==
    /\ participants \in [Agent -> SUBSET Agent]
    /\ auction_items \in [Agent -> SUBSET Item]
    /\ my_costs \in [Agent -> CostVector]
    /\ received_bids \in [Agent -> [Agent -> CostVector]]
    /\ received_from \in [Agent -> SUBSET Agent]
    /\ global_assignment \in [Agent -> Assignment]

PluginInit ==
    /\ participants = [n \in Agent |-> {}]
    /\ auction_items = [n \in Agent |-> {}]
    /\ my_costs = [n \in Agent |-> NoCosts]
    /\ received_bids = [n \in Agent |-> [s \in Agent |-> NoCosts]]
    /\ received_from = [n \in Agent |-> {}]
    /\ global_assignment = [n \in Agent |-> Nobody]

\* The map `to` after every entry of `from` has been written over it.
Overwrite(to, from) ==
    [i \in Item |-> IF from[i] = NoBid THEN to[i] ELSE from[i]]

(***************************************************************************)
(* solve_conflicts.  A cost takes part if it is this agent's own, or was   *)
(* received from a peer that is among the participants.                    *)
(***************************************************************************)
CanWin(c) == c # NoBid /\ c < Infinity

\* The winner among offers, a function agent -> cost: the lowest cost, the
\* smallest name among equals, NoAgent when no offer can win.
Winner(offers) ==
    LET Able == {s \in Agent : CanWin(offers[s])}
    IN  IF Able = {} THEN NoAgent
        ELSE CHOOSE w \in Able : \A s \in Able :
                \/ offers[w] < offers[s]
                \/ offers[w] = offers[s] /\ w <= s

\* Mutant: every bid ever received takes part.
OffersOfAnyone(n, mine, theirs, active, i) ==
    [s \in Agent |-> IF s = n THEN mine[i] ELSE theirs[s][i]]

\* Mutant: an agent's own cost is looked up among the bids it received.
OffersWithoutOwn(n, mine, theirs, active, i) ==
    [s \in Agent |-> IF s \in active THEN theirs[s][i] ELSE NoBid]

Offers(n, mine, theirs, active, i) ==
    [s \in Agent |-> IF s = n THEN mine[i]
                     ELSE IF s \in active THEN theirs[s][i]
                     ELSE NoBid]

\* Mutant: an agent keeps an item when a peer bids the same.
ResolutionKeepingTies(n, mine, theirs, active) ==
    [i \in Item |->
        LET offers == Offers(n, mine, theirs, active, i)
            w == Winner(offers)
        IN  IF w # NoAgent /\ offers[n] = offers[w] THEN n ELSE w]

Resolution(n, mine, theirs, active) ==
    [i \in Item |-> Winner(Offers(n, mine, theirs, active, i))]

\* global_assignment_ after solve_conflicts ran at the end of a handler.
SolveConflicts(n) ==
    global_assignment' = [global_assignment EXCEPT ![n] =
        Resolution(n, my_costs'[n], received_bids'[n], participants'[n])]

(***************************************************************************)
(* The handlers.  on_auction_items_received broadcasts this agent's costs  *)
(* to the participants; it does not clear what earlier bids left behind.   *)
(***************************************************************************)
\* Mutant: conflicts are solved among the participants of the last auction.
OnAuctionItemsReceivedEarly(n, a) ==
    /\ BeginAuction(n, a)
    /\ my_costs' = [my_costs EXCEPT ![n] = Overwrite(@, CostsFor(a, n))]
    /\ UNCHANGED <<received_bids, received_from>>
    /\ global_assignment' = [global_assignment EXCEPT ![n] =
          Resolution(n, my_costs'[n], received_bids[n], participants[n])]

OnAuctionItemsReceived(n, a) ==
    /\ BeginAuction(n, a)
    /\ my_costs' = [my_costs EXCEPT ![n] = Overwrite(@, CostsFor(a, n))]
    /\ UNCHANGED <<received_bids, received_from>>
    /\ SolveConflicts(n)

\* The network after the broadcast.
BroadcastBid(nt, n, a) == SendBid(nt, n, Bidders[a], ItemsOf[a], CostsFor(a, n))

\* Mutant: a bid that arrives before the items is thrown away.
OnBidReceivedOnceStarted(n, s, costs) ==
    /\ IF auction_items[n] = {}
       THEN UNCHANGED <<received_from, received_bids>>
       ELSE /\ received_from' = [received_from EXCEPT ![n] = @ \cup {s}]
            /\ received_bids' = [received_bids EXCEPT ![n][s] = Overwrite(@, costs)]
    /\ UNCHANGED <<baseVars, my_costs>>
    /\ SolveConflicts(n)

\* on_bid_received: update; compute_bid is empty, so nothing is sent.
OnBidReceived(n, s, costs) ==
    /\ received_from' = [received_from EXCEPT ![n] = @ \cup {s}]
    /\ received_bids' = [received_bids EXCEPT ![n][s] = Overwrite(@, costs)]
    /\ UNCHANGED <<baseVars, my_costs>>
    /\ SolveConflicts(n)

CheckConvergence(n) == HeardAllPeers(n, received_from[n])

GetResult(n) ==
    [i \in Item |-> IF i \in auction_items[n] THEN global_assignment[n][i]
                    ELSE NoAgent]

\* my_assignment_: what this agent wins, and the items get_feedback can name.
MyAssignment(n) == {i \in Item : global_assignment[n][i] = n}

FeedbackItems(n) == MyAssignment(n) \cap auction_items[n]

\* Mutant: this agent's costs are not forgotten.
ClearKeepingCosts(n) ==
    /\ received_bids' = [received_bids EXCEPT ![n] = [s \in Agent |-> NoCosts]]
    /\ received_from' = [received_from EXCEPT ![n] = {}]
    /\ auction_items' = [auction_items EXCEPT ![n] = {}]
    /\ global_assignment' = [global_assignment EXCEPT ![n] = Nobody]
    /\ UNCHANGED my_costs

\* Mutant: who has been heard from is not forgotten.
ResetKeepingPeers(n) ==
    /\ my_costs' = [my_costs EXCEPT ![n] = NoCosts]
    /\ received_bids' = [received_bids EXCEPT ![n] = [s \in Agent |-> NoCosts]]
    /\ auction_items' = [auction_items EXCEPT ![n] = {}]
    /\ global_assignment' = [global_assignment EXCEPT ![n] = Nobody]
    /\ UNCHANGED <<participants, received_from>>

Clear(n) ==
    /\ my_costs' = [my_costs EXCEPT ![n] = NoCosts]
    /\ received_bids' = [received_bids EXCEPT ![n] = [s \in Agent |-> NoCosts]]
    /\ received_from' = [received_from EXCEPT ![n] = {}]
    /\ auction_items' = [auction_items EXCEPT ![n] = {}]
    /\ global_assignment' = [global_assignment EXCEPT ![n] = Nobody]

\* reset, which keeps participants_.
Reset(n) == Clear(n) /\ UNCHANGED participants

\* The plugin the constructor of a restarted node loads.
NewPlugin(n) == Clear(n) /\ participants' = [participants EXCEPT ![n] = {}]
=============================================================================
