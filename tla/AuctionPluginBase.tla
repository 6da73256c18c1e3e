-------------------------- MODULE AuctionPluginBase --------------------------
(***************************************************************************)
(* AuctionBehaviorPluginBase: the part of the state and of the handlers    *)
(* that every auction plugin shares.  A bid is a payload the plugin        *)
(* chooses; StartAuction carries the goal, named here by its auction.      *)
(***************************************************************************)
EXTENDS CAGateway

VARIABLES
    participants,    \* participants_
    auction_items    \* the names in auction_items_

baseVars == <<participants, auction_items>>

StartAuction(a) == [kind |-> "start", auction |-> a]
Bid(payload)    == [kind |-> "bid", payload |-> payload]

\* Mutant: participants are added to those of the last auction.
BeginAuctionAccumulating(n, a) ==
    /\ participants' = [participants EXCEPT ![n] = @ \cup Bidders[a]]
    /\ auction_items' = [auction_items EXCEPT ![n] = ItemsOf[a]]

\* set_participans and the base class's on_auction_items_received.
BeginAuction(n, a) ==
    /\ participants' = [participants EXCEPT ![n] = Bidders[a]]
    /\ auction_items' = [auction_items EXCEPT ![n] = ItemsOf[a]]

\* Mutant: a bid without items is sent too.
SendBidAnyway(nt, n, dests, items, payload) ==
    Forward(nt, n, dests, Bid(payload))

\* send_bid: a bid that names no item, or has no participant to go to, is
\* not sent.  A bid names the items of the auction it was made for.
SendBid(nt, n, dests, items, payload) ==
    IF items = {} THEN nt ELSE Forward(nt, n, dests, Bid(payload))

\* Mutant: the first bid is taken for all of them.
HeardSomePeer(n, from) ==
    /\ auction_items[n] # {}
    /\ participants[n] # {}
    /\ participants[n] \ {n} = {} \/ from # {}

\* The loop over participants_ in both plugins' check_convergence.
HeardAllPeers(n, from) ==
    /\ auction_items[n] # {}
    /\ participants[n] # {}
    /\ participants[n] \ {n} \subseteq from
=============================================================================
