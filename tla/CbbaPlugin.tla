----------------------------- MODULE CbbaPlugin -----------------------------
(***************************************************************************)
(* cbba::Plugin.  Every agent keeps, for each item, the lowest bid it has  *)
(* seen (y) and whose it is (z), claims what it can afford into a bundle,  *)
(* and tells the others all it believes whenever it is told something.     *)
(***************************************************************************)
EXTENDS AuctionPluginBase, CbbaClaims

VARIABLES
    costs,           \* item -> this agent's cost
    y,               \* item -> the winning bid, Infinity when unclaimed
    z,               \* item -> the winner, NoAgent when unclaimed
    entries,         \* the items y and z have an entry for
    bundle,          \* the items this agent claims, in the order it did
    received_from,
    changed

cbbaVars == <<costs, y, z, entries, bundle, received_from, changed>>
pluginVars == <<baseVars, cbbaVars>>

PluginTypeOK ==
    /\ participants \in [Agent -> SUBSET Agent]
    /\ auction_items \in [Agent -> SUBSET Item]
    /\ costs \in [Agent -> CostVector]
    /\ y \in [Agent -> Claims]
    /\ z \in [Agent -> Assignment]
    /\ entries \in [Agent -> SUBSET Item]
    /\ bundle \in [Agent -> Seq(Item)]
    /\ received_from \in [Agent -> SUBSET Agent]
    /\ changed \in [Agent -> BOOLEAN]

PluginInit ==
    /\ participants = [n \in Agent |-> {}]
    /\ auction_items = [n \in Agent |-> {}]
    /\ costs = [n \in Agent |-> NoCosts]
    /\ y = [n \in Agent |-> Unclaimed]
    /\ z = [n \in Agent |-> Nobody]
    /\ entries = [n \in Agent |-> {}]
    /\ bundle = [n \in Agent |-> <<>>]
    /\ received_from = [n \in Agent |-> {}]
    /\ changed = [n \in Agent |-> FALSE]

(***************************************************************************)
(* update: consensus item by item, release of the bundle from the first    *)
(* item lost on, and a new bundle.                                         *)
(***************************************************************************)
View(n) == [y |-> y[n], z |-> z[n], bundle |-> bundle[n]]

SetView(n, v) ==
    /\ y' = [y EXCEPT ![n] = v.y]
    /\ z' = [z EXCEPT ![n] = v.z]
    /\ bundle' = [bundle EXCEPT ![n] = v.bundle]

\* Mutant: only a cascade counts as a change.
ChangesOnCascade(n, bid, heard) == LostAt(n, heard) # {}

\* Mutant: the flag is not cleared when update() begins.
ChangesForGood(n, bid, heard) ==
    changed[n] \/ Adopted(auction_items[n], View(n), bid) # {}

\* changed_ after update(), `heard` being the view after consensus.
Changes(n, bid, heard) ==
    Adopted(auction_items[n], View(n), bid) # {} \/ LostAt(n, heard) # {}

\* Mutant: the bundle is not filled up again.
ReleasedOnly(n, heard) == CascadeRemove(n, heard)

Rebuilt(n, heard) ==
    BuildBundle(n, costs[n], auction_items[n], CascadeRemove(n, heard))

Update(n, s, bid) ==
    LET heard == Consensus(auction_items[n], View(n), bid)
    IN  /\ received_from' = [received_from EXCEPT ![n] = @ \cup {s}]
        /\ changed' = [changed EXCEPT ![n] = Changes(n, bid, heard)]
        /\ SetView(n, Rebuilt(n, heard))
        /\ UNCHANGED <<baseVars, costs, entries>>

CheckConvergence(n) == HeardAllPeers(n, received_from[n]) /\ ~ changed[n]

(***************************************************************************)
(* The handlers.  Items that arrive wipe what is known of them; bundle,    *)
(* received_from and changed stay as they are.                             *)
(***************************************************************************)
FirstView(n, a) ==
    LET c == [i \in Item |-> IF i \in ItemsOf[a] THEN cost[a][n][i] ELSE costs[n][i]]
    IN  BuildBundle(n, c, ItemsOf[a],
          [y |-> [i \in Item |-> IF i \in ItemsOf[a] THEN Infinity ELSE y[n][i]],
           z |-> [i \in Item |-> IF i \in ItemsOf[a] THEN NoAgent ELSE z[n][i]],
           bundle |-> bundle[n]])

\* Mutant: the claims of the last auction are cleared, its bundle is not.
OnAuctionItemsReceivedAfresh(n, a) ==
    /\ BeginAuction(n, a)
    /\ costs' = [costs EXCEPT ![n] =
          [i \in Item |-> IF i \in ItemsOf[a] THEN cost[a][n][i] ELSE @[i]]]
    /\ entries' = [entries EXCEPT ![n] = ItemsOf[a]]
    /\ SetView(n, FirstView(n, a))
    /\ UNCHANGED <<received_from, changed>>

OnAuctionItemsReceived(n, a) ==
    /\ BeginAuction(n, a)
    /\ costs' = [costs EXCEPT ![n] =
          [i \in Item |-> IF i \in ItemsOf[a] THEN cost[a][n][i] ELSE @[i]]]
    /\ entries' = [entries EXCEPT ![n] = @ \cup ItemsOf[a]]
    /\ SetView(n, FirstView(n, a))
    /\ UNCHANGED <<received_from, changed>>

\* The network after the broadcast.
BroadcastBid(nt, n, a) ==
    SendBid(nt, n, Bidders[a], ItemsOf[a], ComputeBid(ItemsOf[a], FirstView(n, a)))

OnBidReceived(n, s, bid) == Update(n, s, bid)

\* Mutant: an agent that has heard all its peers has nothing more to say.
AnswerUntilHeard(nt, n) ==
    IF HeardAllPeers(n, received_from[n])' THEN nt
    ELSE SendBid(nt, n, participants[n], auction_items[n],
                 ComputeBid(auction_items[n], View(n)'))

\* The network after on_bid_received, which answers unless it has converged.
Answer(nt, n) ==
    IF CheckConvergence(n)' THEN nt
    ELSE SendBid(nt, n, participants[n], auction_items[n],
                 ComputeBid(auction_items[n], View(n)'))

GetResult(n) ==
    [i \in Item |-> IF i \in auction_items[n] THEN z[n][i] ELSE NoAgent]

\* Mutant: y_ is emptied to the value of a missing cost.
ResetToNoBid(n) ==
    /\ costs' = [costs EXCEPT ![n] = NoCosts]
    /\ y' = [y EXCEPT ![n] = NoCosts]
    /\ z' = [z EXCEPT ![n] = Nobody]
    /\ entries' = [entries EXCEPT ![n] = {}]
    /\ bundle' = [bundle EXCEPT ![n] = <<>>]
    /\ received_from' = [received_from EXCEPT ![n] = {}]
    /\ changed' = [changed EXCEPT ![n] = FALSE]
    /\ auction_items' = [auction_items EXCEPT ![n] = {}]
    /\ UNCHANGED participants

\* Where there is no entry, y and z hold the values of an unclaimed item.
Clear(n) ==
    /\ costs' = [costs EXCEPT ![n] = NoCosts]
    /\ y' = [y EXCEPT ![n] = Unclaimed]
    /\ z' = [z EXCEPT ![n] = Nobody]
    /\ entries' = [entries EXCEPT ![n] = {}]
    /\ bundle' = [bundle EXCEPT ![n] = <<>>]
    /\ received_from' = [received_from EXCEPT ![n] = {}]
    /\ changed' = [changed EXCEPT ![n] = FALSE]
    /\ auction_items' = [auction_items EXCEPT ![n] = {}]

\* reset, which keeps participants_.
Reset(n) == Clear(n) /\ UNCHANGED participants

\* The plugin the constructor of a restarted node loads.
NewPlugin(n) == Clear(n) /\ participants' = [participants EXCEPT ![n] = {}]
=============================================================================
