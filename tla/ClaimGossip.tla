----------------------------- MODULE ClaimGossip -----------------------------
(***************************************************************************)
(* What the cbba agents of one auction do to each other, below bundles,    *)
(* bids and convergence.  Each holds, of every item, the best claim it has *)
(* come to know.  A claim enters the fleet only from the agent it names,   *)
(* at that agent's own cost; it spreads by being told; and while an agent  *)
(* is bidding it only trades a claim for a better one.                     *)
(***************************************************************************)
EXTENDS AuctionProblem

VARIABLES
    bidding,   \* the agents that take part
    belief,    \* agent -> item -> the best claim known, None if there is none
    told       \* the claims that can still reach somebody

None == [price |-> Infinity, by |-> NoAgent]

Better(c, d) == c.price < d.price \/ (c.price = d.price /\ c.by < d.by)

\* The claims agent n can make on item i.
Own(n, i) ==
    {[price |-> cost[a][n][i], by |-> n]
       : a \in {b \in Auction : i \in ItemsOf[b] /\ cost[b][n][i] < Infinity}}

Told(i, c) == [item |-> i, claim |-> c]

Join(n) ==
    /\ n \notin bidding
    /\ bidding' = bidding \cup {n}
    /\ \A i \in Item : belief'[n][i] \in Own(n, i) \cup {None}

\* n hears claims, takes over the better ones and undercuts what it can.
Hear(n) ==
    /\ n \in bidding
    /\ UNCHANGED bidding
    /\ \A i \in Item :
         LET c == belief'[n][i]
         IN  \/ c = belief[n][i]
             \/ Told(i, c) \in told /\ Better(c, belief[n][i])
             \/ c \in Own(n, i) /\ c.price < belief[n][i].price

Leave(n) ==
    /\ n \in bidding
    /\ bidding' = bidding \ {n}
    /\ \A i \in Item : belief'[n][i] = None

\* A step of n touches no other agent and tells nothing but what n believes.
Act(n) ==
    /\ Join(n) \/ Hear(n) \/ Leave(n)
    /\ \A m \in Agent \ {n} : belief'[m] = belief[m]
    /\ told' \subseteq told \cup {Told(i, belief'[n][i]) : i \in Item}
    /\ UNCHANGED cost

Forget == told' \subseteq told /\ UNCHANGED <<cost, bidding, belief>>

Init ==
    /\ cost \in CostTable
    /\ bidding = {}
    /\ belief = [n \in Agent |-> [i \in Item |-> None]]
    /\ told = {}

Next == Forget \/ \E n \in Agent : Act(n)

Spec == Init /\ [][Next]_<<cost, bidding, belief, told>>
=============================================================================
