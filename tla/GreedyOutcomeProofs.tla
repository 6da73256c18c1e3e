------------------------- MODULE GreedyOutcomeProofs -------------------------
(***************************************************************************)
(* The outcome of an auction whose auctioneer bids in it: every node that  *)
(* succeeds reports the cheapest bidders, and every node that fails has an *)
(* item nobody can price.  First for a mission of one auction, where       *)
(* messages may be lost, reordered or dropped by a node that is not        *)
(* configured and nodes may be stopped, paused or restarted at any moment; *)
(* then for any number of auctions in turn, where nodes may be paused but  *)
(* not stopped.  The number of agents and items and their costs are        *)
(* arbitrary.                                                              *)
(***************************************************************************)
EXTENDS GreedyAuctionProofs

(***************************************************************************)
(* The inductive invariant.  Outcomes alone are not inductive: they are    *)
(* computed from what the plugin holds, which came through the network.    *)
(* With one auction every bid on the way is its sender's cost vector,      *)
(* StartAuction only travels to bidders, so only bidders ever hold items,  *)
(* and what a node holds of a peer is nothing or that peer's vector.       *)
(***************************************************************************)
Legit(c, m) == \A a \in Auction :
    /\ m.kind = "start" => c[2] \in Bidders[a]
    /\ m.kind = "bid" => m.payload = CostsFor(a, c[1])

AllLegit(nt) == \A c \in Channel : \A k \in DOMAIN nt[c] : Legit(c, nt[c][k])

InvitedOnly == \A n \in Agent : self_goals[n] # <<>> => \A a \in Auction : n \in Bidders[a]

HoldsTruth(n) == \A a \in Auction :
    /\ my_costs[n] = IF auction_items[n] = {} THEN NoCosts ELSE CostsFor(a, n)
    /\ \A s \in Agent : received_bids[n][s] \in {NoCosts, CostsFor(a, s)}
    /\ \A s \in received_from[n] : received_bids[n][s] = CostsFor(a, s)
    /\ auction_items[n] # {} => /\ auction_items[n] = ItemsOf[a]
                                /\ participants[n] = Bidders[a]
                                /\ n \in Bidders[a]

OutcomeInv ==
    /\ TypeInv
    /\ AssignmentFresh
    /\ AllLegit(net)
    /\ InvitedOnly
    /\ \A n \in Agent : HoldsTruth(n)
    /\ CheapestWins
    /\ FailureJustified

-----------------------------------------------------------------------------
LEMMA ForwardLegit ==
    ASSUME NEW nt \in [Channel -> Seq(Message)], AllLegit(nt), NEW s \in Agent,
           NEW dests \in SUBSET Agent, NEW m \in Message,
           \A d \in dests : Legit(<<s, d>>, m)
    PROVE  AllLegit(Forward(nt, s, dests, m))
<1> SUFFICES ASSUME NEW c \in Channel, NEW k \in DOMAIN Forward(nt, s, dests, m)[c]
             PROVE  Legit(c, Forward(nt, s, dests, m)[c][k])
  BY DEF AllLegit
<1>1. CASE c[1] = s /\ c[2] \in dests /\ c[2] # s
  <2>1. Forward(nt, s, dests, m)[c] = Append(nt[c], m)
    BY <1>1 DEF Forward
  <2>2. c = <<s, c[2]>>
    BY <1>1 DEF Channel
  <2>3. Append(nt[c], m)[k] = m \/ (k \in DOMAIN nt[c] /\ Append(nt[c], m)[k] = nt[c][k])
    BY <2>1, AppendProperties
  <2> QED  BY <1>1, <2>1, <2>2, <2>3 DEF AllLegit
<1>2. CASE ~ (c[1] = s /\ c[2] \in dests /\ c[2] # s)
  BY <1>2 DEF Forward, AllLegit
<1> QED  BY <1>1, <1>2

LEMMA WithoutLegit ==
    ASSUME net \in [Channel -> Seq(Message)], AllLegit(net), NEW c \in Channel,
           NEW k \in DOMAIN net[c]
    PROVE  AllLegit(Without(c, k))
<1> SUFFICES ASSUME NEW d \in Channel, NEW j \in DOMAIN Without(c, k)[d]
             PROVE  Legit(d, Without(c, k)[d][j])
  BY DEF AllLegit
<1>1. CASE d = c
  <2>1. Without(c, k)[d] = RemoveAt(net[c], k)
    BY <1>1 DEF Without
  <2>2. PICK i \in DOMAIN net[c] : RemoveAt(net[c], k)[j] = net[c][i]
    BY <2>1, RemoveAtFacts
  <2> QED  BY <1>1, <2>1, <2>2 DEF AllLegit
<1>2. CASE d # c
  BY <1>2 DEF Without, AllLegit
<1> QED  BY <1>1, <1>2

LEMMA BroadcastBidLegit ==
    ASSUME SingleAuction, cost \in CostTable, NEW nt \in [Channel -> Seq(Message)],
           AllLegit(nt), NEW n \in Agent, NEW a \in Auction
    PROVE  AllLegit(BroadcastBid(nt, n, a))
<1>1. Bid(CostsFor(a, n)) \in Message
  BY CostsForType DEF Bid, Message
<1>2. \A d \in Bidders[a] : Legit(<<n, d>>, Bid(CostsFor(a, n)))
  BY DEF Legit, Bid, SingleAuction, OneAuction
<1>3. Bidders[a] \in SUBSET Agent
  BY GoalAssumption
<1> QED  BY <1>1, <1>2, <1>3, ForwardLegit DEF BroadcastBid, SendBid

\* Opening, or joining, the auction sends only what is legitimate.
LEMMA OpenLegit ==
    ASSUME SingleAuction, cost \in CostTable, net \in [Channel -> Seq(Message)],
           AllLegit(net), NEW n \in Agent, NEW a \in Auction
    PROVE  AllLegit(Forward(BroadcastBid(net, n, a), n, Bidders[a], StartAuction(a)))
<1>1. BroadcastBid(net, n, a) \in [Channel -> Seq(Message)] /\ AllLegit(BroadcastBid(net, n, a))
  BY BroadcastBidType, BroadcastBidLegit
<1>2. StartAuction(a) \in Message
  BY DEF StartAuction, Message
<1>3. \A d \in Bidders[a] : Legit(<<n, d>>, StartAuction(a))
  BY DEF Legit, StartAuction, SingleAuction, OneAuction
<1>4. Bidders[a] \in SUBSET Agent
  BY GoalAssumption
<1> QED  BY <1>1, <1>2, <1>3, <1>4, ForwardLegit

-----------------------------------------------------------------------------
\* Writing a cost vector over nothing, or over itself, gives that vector.
LEMMA OverwriteCosts ==
    ASSUME NEW a \in Auction, NEW n \in Agent, NEW to \in {NoCosts, CostsFor(a, n)}
    PROVE  Overwrite(to, CostsFor(a, n)) = CostsFor(a, n)
BY DEF Overwrite, NoCosts, CostsFor

\* The costs of an auction do not change.
LEMMA CostsForStable ==
    ASSUME cost' = cost
    PROVE  \A a, s : CostsFor(a, s)' = CostsFor(a, s)
BY DEF CostsFor

\* HoldsTruth is kept by the three ways the plugin's state changes.
LEMMA ItemsKeepTruth ==
    ASSUME SingleAuction, TypeInv, \A m \in Agent : HoldsTruth(m), cost' = cost,
           NEW n \in Agent, NEW a \in Auction, n \in Bidders[a], OnAuctionItemsReceived(n, a)
    PROVE  \A m \in Agent : HoldsTruth(m)'
<1> SUFFICES ASSUME NEW m \in Agent PROVE HoldsTruth(m)'
  OBVIOUS
<1>1. Auction = {a} /\ \A b, s : CostsFor(b, s)' = CostsFor(b, s)
  BY CostsForStable DEF SingleAuction, OneAuction
<1>2. Overwrite(my_costs[n], CostsFor(a, n)) = CostsFor(a, n)
  BY OverwriteCosts DEF HoldsTruth
<1>3. /\ participants' = [participants EXCEPT ![n] = Bidders[a]]
      /\ auction_items' = [auction_items EXCEPT ![n] = ItemsOf[a]]
      /\ my_costs' = [my_costs EXCEPT ![n] = CostsFor(a, n)]
      /\ received_bids' = received_bids /\ received_from' = received_from
  BY <1>2 DEF OnAuctionItemsReceived, BeginAuction
<1>4. /\ participants \in [Agent -> SUBSET Agent]
      /\ auction_items \in [Agent -> SUBSET Item]
      /\ my_costs \in [Agent -> CostVector]
  BY DEF TypeInv, TypeOK, PluginTypeOK
<1>5. CASE m = n
  <2>1. ItemsOf[a] = {} => CostsFor(a, n) = NoCosts
    BY DEF CostsFor, NoCosts
  <2> QED  BY <1>1, <1>3, <1>4, <1>5, <2>1 DEF HoldsTruth
<1>6. CASE m # n
  BY <1>1, <1>3, <1>4, <1>6 DEF HoldsTruth
<1> QED  BY <1>5, <1>6

LEMMA BidKeepsTruth ==
    ASSUME SingleAuction, TypeInv, \A m \in Agent : HoldsTruth(m), cost' = cost,
           NEW s \in Agent, NEW n \in Agent, NEW costs,
           \A a \in Auction : costs = CostsFor(a, s), OnBidReceived(n, s, costs)
    PROVE  \A m \in Agent : HoldsTruth(m)'
<1> SUFFICES ASSUME NEW m \in Agent PROVE HoldsTruth(m)'
  OBVIOUS
<1> PICK a : Auction = {a}
  BY DEF SingleAuction, OneAuction
<1>1. a \in Auction /\ \A b, t : CostsFor(b, t)' = CostsFor(b, t)
  BY CostsForStable
<1>2. Overwrite(received_bids[n][s], costs) = CostsFor(a, s)
  BY <1>1, OverwriteCosts DEF HoldsTruth
<1>3. /\ received_bids' = [received_bids EXCEPT ![n][s] = CostsFor(a, s)]
      /\ received_from' = [received_from EXCEPT ![n] = @ \cup {s}]
      /\ my_costs' = my_costs /\ participants' = participants
      /\ auction_items' = auction_items
  BY <1>2 DEF OnBidReceived, baseVars
<1>4. /\ received_bids \in [Agent -> [Agent -> CostVector]]
      /\ received_from \in [Agent -> SUBSET Agent]
  BY DEF TypeInv, TypeOK, PluginTypeOK
<1>5. /\ \A t \in Agent : received_bids'[m][t] \in {NoCosts, CostsFor(a, t)}
      /\ \A t \in received_from'[m] : received_bids'[m][t] = CostsFor(a, t)
  BY <1>1, <1>3, <1>4 DEF HoldsTruth
<1> QED  BY <1>1, <1>3, <1>5 DEF HoldsTruth

LEMMA ResetKeepsTruth ==
    ASSUME TypeInv, \A m \in Agent : HoldsTruth(m), cost' = cost, NEW n \in Agent,
           Reset(n) \/ NewPlugin(n)
    PROVE  \A m \in Agent : HoldsTruth(m)'
<1> SUFFICES ASSUME NEW m \in Agent PROVE HoldsTruth(m)'
  OBVIOUS
<1>1. \A a, s : CostsFor(a, s)' = CostsFor(a, s)
  BY CostsForStable
<1>2. PluginTypeOK
  BY DEF TypeInv, TypeOK
<1>3. CASE m = n
  BY <1>1, <1>2, <1>3 DEF HoldsTruth, Reset, NewPlugin, Clear, PluginTypeOK
<1>4. CASE m # n
  BY <1>1, <1>2, <1>4 DEF HoldsTruth, Reset, NewPlugin, Clear, PluginTypeOK
<1> QED  BY <1>3, <1>4

LEMMA UnchangedKeepsTruth ==
    ASSUME \A m \in Agent : HoldsTruth(m), cost' = cost, UNCHANGED pluginVars
    PROVE  \A m \in Agent : HoldsTruth(m)'
<1>1. \A a, s : CostsFor(a, s)' = CostsFor(a, s)
  BY CostsForStable
<1> QED  BY <1>1 DEF HoldsTruth, pluginVars, baseVars, greedyVars

LEMMA LegitStable ==
    ASSUME cost' = cost, AllLegit(net') PROVE AllLegit(net)'
<1>1. \A a, s : CostsFor(a, s)' = CostsFor(a, s)
  BY CostsForStable
<1> QED  BY <1>1 DEF AllLegit, Legit

-----------------------------------------------------------------------------
\* The node holds the cost vector of every bidder of auction a.
HoldsOffers(n, a) ==
    /\ auction_items[n] = ItemsOf[a] /\ participants[n] = Bidders[a]
    /\ n \in Bidders[a] /\ my_costs[n] = CostsFor(a, n)
    /\ \A s \in Bidders[a] \ {n} : received_bids[n][s] = CostsFor(a, s)

\* What it computed is then the reference assignment.
LEMMA ResolvedIsRight ==
    ASSUME TypeInv, AssignmentFresh, NEW n \in Agent, NEW a \in Auction, HoldsOffers(n, a),
           NEW i \in ItemsOf[a]
    PROVE  IF GetResult(n)[i] = NoAgent THEN Unassignable(a, i)
           ELSE IsCheapest(a, GetResult(n)[i], i)
<1> DEFINE offers == Offers(n, my_costs[n], received_bids[n], participants[n], i)
<1>1. /\ auction_items[n] = ItemsOf[a] /\ participants[n] = Bidders[a]
      /\ n \in Bidders[a] /\ my_costs[n] = CostsFor(a, n)
      /\ \A s \in Bidders[a] \ {n} : received_bids[n][s] = CostsFor(a, s)
  BY DEF HoldsOffers
<1>2. i \in Item /\ Bidders[a] \subseteq Agent
  BY GoalAssumption
<1>3. \A s \in Agent : offers[s] = IF s \in Bidders[a] THEN cost[a][s][i] ELSE NoBid
  BY <1>1, <1>2 DEF Offers, CostsFor
<1>4. offers \in [Agent -> CostValue \cup {NoBid}]
  BY <1>2 DEF Offers, TypeInv, TypeOK, PluginTypeOK, CostVector
<1>5. \A s \in Agent : CanWin(offers[s]) <=> Prices(a, s, i)
  <2>1. \A s \in Agent : cost[a][s][i] \in Nat
    <3>1. cost[a] \in [Agent -> [Item -> CostValue]]
      BY DEF TypeInv, TypeOK, CostTable
    <3> QED  BY <1>2, <3>1, CostAssumption
  <2> HIDE DEF offers
  <2> QED  BY <1>3, <2>1 DEF CanWin, Prices, NoBid
<1>6. GetResult(n)[i] = Winner(offers)
  BY <1>1, <1>2 DEF GetResult, AssignmentFresh, Resolution
<1> HIDE DEF offers
<1>7. CASE GetResult(n)[i] = NoAgent
  BY <1>4, <1>5, <1>6, <1>7, WinnerFacts, AgentAssumption DEF Unassignable
<1>8. CASE GetResult(n)[i] # NoAgent
  <2> DEFINE w == GetResult(n)[i]
  <2>1. /\ w \in Agent /\ CanWin(offers[w])
        /\ \A s \in Agent : CanWin(offers[s]) =>
             offers[w] < offers[s] \/ (offers[w] = offers[s] /\ w <= s)
    BY <1>4, <1>6, <1>8, WinnerFacts
  <2> HIDE DEF w
  <2>2. IsCheapest(a, w, i)
    BY <1>3, <1>5, <2>1 DEF IsCheapest, Prices
  <2> QED  BY <1>8, <2>2 DEF w
<1> QED  BY <1>7, <1>8

\* With one auction a node that has converged holds every offer.
LEMMA ConvergedHolds ==
    ASSUME SingleAuction, OutcomeInv, NEW n \in Agent, CheckConvergence(n), NEW a \in Auction
    PROVE  HoldsOffers(n, a)
BY DEF OutcomeInv, HoldsTruth, CheckConvergence, HeardAllPeers, HoldsOffers

\* Being the cheapest, or unassignable, outlives every step.
LEMMA OutcomeStable ==
    ASSUME cost' = cost, CheapestWins, FailureJustified, UNCHANGED results
    PROVE  CheapestWins' /\ FailureJustified'
BY DEF CheapestWins, FailureJustified, IsCheapest, Unassignable, Prices

-----------------------------------------------------------------------------
LEMMA ActivateKeeps ==
    ASSUME SingleAuction, OutcomeInv, NEW n \in Agent, NEW a \in Auction, NEW name,
           n \in Bidders[a], Activate(n, a, name)
    PROVE  /\ AllLegit(net)'
           /\ \A m \in Agent : HoldsTruth(m)'
           /\ CheapestWins' /\ FailureJustified'
<1>1. cost' = cost /\ UNCHANGED results
  BY DEF Activate, ActivateNode, AnnounceStart
<1>2. AllLegit(net')
  <2>1. ASSUME OpenAuction(n, a) PROVE AllLegit(net')
    BY <2>1, OpenLegit DEF OpenAuction, OutcomeInv, TypeInv, TypeOK
  <2>2. ASSUME StartTicking(n) PROVE AllLegit(net')
    BY <2>2 DEF StartTicking, netVars, OutcomeInv
  <2> QED  BY <2>1, <2>2 DEF Activate
<1>3. \A m \in Agent : HoldsTruth(m)'
  BY <1>1, ItemsKeepTruth, UnchangedKeepsTruth
  DEF Activate, OpenAuction, StartTicking, OutcomeInv
<1> QED  BY <1>1, <1>2, <1>3, LegitStable, OutcomeStable DEF OutcomeInv

\* A step that only takes a message off a channel, or leaves the network and
\* the plugins alone.
LEMMA QuietStepKeeps ==
    ASSUME OutcomeInv, cost' = cost, UNCHANGED pluginVars, UNCHANGED results,
           \/ net' = net
           \/ \E c \in Channel : \E k \in DOMAIN net[c] : net' = Without(c, k)
    PROVE  /\ AllLegit(net)'
           /\ \A m \in Agent : HoldsTruth(m)'
           /\ CheapestWins' /\ FailureJustified'
<1>1. AllLegit(net')
  BY WithoutLegit DEF OutcomeInv, TypeInv, TypeOK
<1> QED  BY <1>1, LegitStable, UnchangedKeepsTruth, OutcomeStable DEF OutcomeInv

\* The end of an execution: SUCCESS and FAILURE are reported when converged.
LEMMA EndIsRight ==
    ASSUME TypeInv, AssignmentFresh, CheapestWins, FailureJustified, NEW n \in Agent,
           RunSuccess(n) \/ RunFailure(n) \/ Stop(n),
           CheckConvergence(n) => HoldsOffers(n, goal[n])
    PROVE  CheapestWins' /\ FailureJustified'
<1>1. cost' = cost
  BY DEF RunSuccess, RunFailure, Stop
<1>2. running[n] /\ goal[n] \in Auction
  BY DEF RunSuccess, RunFailure, Ticking, Stop, StopNode, RetractStart, TypeInv, RunningHasGoal
<1>3. CASE RunSuccess(n)
  <2>1. \A i \in ItemsOf[goal[n]] : IsCheapest(goal[n], GetResult(n)[i], i)
    <3>1. HoldsOffers(n, goal[n]) /\ auction_items[n] = ItemsOf[goal[n]]
      BY <1>3 DEF RunSuccess, Converged, HoldsOffers
    <3> QED  BY <1>2, <1>3, <3>1, ResolvedIsRight DEF RunSuccess, Unassigned
  <2>2. results' = results \cup {[by |-> n, auction |-> goal[n], status |-> "SUCCESS",
                                  winners |-> GetResult(n)]}
    BY <1>3 DEF RunSuccess, EndSuccess, Report
  <2> QED  BY <1>1, <2>1, <2>2
    DEF CheapestWins, FailureJustified, IsCheapest, Unassignable, Prices
<1>4. CASE RunFailure(n)
  <2>1. \E i \in ItemsOf[goal[n]] : Unassignable(goal[n], i)
    <3>1. HoldsOffers(n, goal[n]) /\ auction_items[n] = ItemsOf[goal[n]]
      BY <1>4 DEF RunFailure, Converged, HoldsOffers
    <3> QED  BY <1>2, <1>4, <3>1, ResolvedIsRight DEF RunFailure, Unassigned
  <2>2. results' = results \cup {[by |-> n, auction |-> goal[n], status |-> "FAILURE",
                                  winners |-> Nobody]}
    BY <1>4 DEF RunFailure, EndFailure, RetractStart, Report
  <2> QED  BY <1>1, <2>1, <2>2
    DEF CheapestWins, FailureJustified, IsCheapest, Unassignable, Prices
<1>5. CASE Stop(n)
  <2>1. results' = results \cup {[by |-> n, auction |-> goal[n], status |-> "ABORTED",
                                  winners |-> Nobody]}
    BY <1>5 DEF Stop, StopNode, RetractStart, Report
  <2> QED  BY <1>1, <2>1
    DEF CheapestWins, FailureJustified, IsCheapest, Unassignable, Prices
<1> QED  BY <1>3, <1>4, <1>5

LEMMA EndKeeps ==
    ASSUME SingleAuction, OutcomeInv, NEW n \in Agent, RunSuccess(n) \/ RunFailure(n) \/ Stop(n)
    PROVE  CheapestWins' /\ FailureJustified'
<1>1. goal[n] \in Auction
  BY DEF RunSuccess, RunFailure, Ticking, Stop, StopNode, OutcomeInv, TypeInv, RunningHasGoal
<1> QED  BY <1>1, ConvergedHolds, EndIsRight DEF OutcomeInv

-----------------------------------------------------------------------------
LEMMA OutcomeInit == ASSUME SingleAuction PROVE Init => OutcomeInv
<1> SUFFICES ASSUME Init PROVE OutcomeInv
  OBVIOUS
<1>1. TypeInv
  BY TypeInvInit
<1>2. AssignmentFresh
  BY EmptyResolution DEF Init, PluginInit, AssignmentFresh
<1>3. AllLegit(net) /\ InvitedOnly /\ CheapestWins /\ FailureJustified
  BY DEF Init, NodeInit, AllLegit, InvitedOnly, CheapestWins, FailureJustified
<1>4. \A n \in Agent : HoldsTruth(n)
  BY DEF Init, PluginInit, HoldsTruth
<1> QED  BY <1>1, <1>2, <1>3, <1>4 DEF OutcomeInv

\* One case per action; TypeInv and AssignmentFresh are kept by earlier lemmas.
LEMMA OutcomeNext == ASSUME SingleAuction PROVE OutcomeInv /\ [Next]_vars => OutcomeInv'
<1> SUFFICES ASSUME OutcomeInv, [Next]_vars PROVE OutcomeInv'
  OBVIOUS
<1> DEFINE Rest == /\ AllLegit(net)
                   /\ \A m \in Agent : HoldsTruth(m)
                   /\ CheapestWins
                   /\ FailureJustified
<1>1. TypeInv' /\ AssignmentFresh'
  BY TypeInvNext, FreshNext DEF OutcomeInv
<1>2. /\ self_goals \in [Agent -> Seq(Auction)] /\ net \in [Channel -> Seq(Message)]
      /\ \A a \in Auction : Auctioneer[a] \in Bidders[a] /\ Auctioneer[a] \in Agent
      /\ \A a, b \in Auction : a = b
  BY GoalAssumption DEF OutcomeInv, TypeInv, TypeOK, NodeTypeOK, SingleAuction, OneAuction
<1>3. ASSUME NEW a \in Auction, ReceiveGoal(a) PROVE Rest' /\ InvitedOnly'
  <2>1. Rest'
    BY <1>2, <1>3, ActivateKeeps DEF ReceiveGoal
  <2>2. InvitedOnly'
    BY <1>3 DEF ReceiveGoal, InvitedOnly, OutcomeInv
  <2> QED  BY <2>1, <2>2
<1>4. ASSUME NEW a \in Auction, RefuseActivation(a), UNCHANGED greedyVars
      PROVE  Rest' /\ InvitedOnly'
  <2>1. Rest'
    BY <1>4, QuietStepKeeps DEF RefuseActivation, RejectGoal, netVars, pluginVars
  <2>2. InvitedOnly'
    BY <1>4 DEF RefuseActivation, InvitedOnly, OutcomeInv
  <2> QED  BY <2>1, <2>2
<1>5. ASSUME NEW n \in Agent, SelfGoal(n) PROVE Rest' /\ InvitedOnly'
  <2>1. self_goals[n] # <<>> /\ self_goals' = [self_goals EXCEPT ![n] = Tail(@)]
    BY <1>5 DEF SelfGoal, ReceiveSelfGoal, RefuseSelfGoal
  <2>2. Head(self_goals[n]) \in Auction /\ n \in Bidders[Head(self_goals[n])]
    BY <1>2, <2>1, HeadTailProperties DEF OutcomeInv, InvitedOnly
  <2>3. ASSUME ReceiveSelfGoal(n) PROVE Rest'
    BY <2>2, <2>3, ActivateKeeps DEF ReceiveSelfGoal
  <2>4. ASSUME RefuseSelfGoal(n), UNCHANGED greedyVars PROVE Rest'
    BY <2>4, QuietStepKeeps DEF RefuseSelfGoal, netVars, pluginVars
  <2>5. InvitedOnly'
    BY <1>2, <2>1 DEF InvitedOnly, OutcomeInv
  <2> QED  BY <1>5, <2>3, <2>4, <2>5 DEF SelfGoal
<1>6. ASSUME NEW s \in Agent, NEW n \in Agent, HandleStart(s, n) PROVE Rest' /\ InvitedOnly'
  <2>1. PICK k \in DOMAIN net[<<s, n>>] :
          /\ net[<<s, n>>][k].kind = "start"
          /\ JoinAuction(n, net[<<s, n>>][k].auction)
          /\ OnAuctionItemsReceived(n, net[<<s, n>>][k].auction)
          /\ net' = BroadcastBid(Without(<<s, n>>, k), n, net[<<s, n>>][k].auction)
          /\ cost' = cost
    BY <1>6 DEF HandleStart, Deliverable
  <2> DEFINE a == net[<<s, n>>][k].auction
  <2>2. <<s, n>> \in Channel /\ net[<<s, n>>][k] \in Message
    BY <1>2, <2>1 DEF Channel
  <2>3. a \in Auction
    BY <2>1, <2>2 DEF Message
  <2>4. \A b \in Auction : n \in Bidders[b]
    BY <2>1, <2>2 DEF OutcomeInv, AllLegit, Legit
  <2>5. AllLegit(net)'
    <3>1. Without(<<s, n>>, k) \in [Channel -> Seq(Message)] /\ AllLegit(Without(<<s, n>>, k))
      BY <1>2, <2>1, <2>2, WithoutType, WithoutLegit DEF OutcomeInv
    <3>2. AllLegit(net')
      BY <2>1, <2>3, <3>1, BroadcastBidLegit DEF OutcomeInv, TypeInv, TypeOK
    <3> QED  BY <2>1, <3>2, LegitStable
  <2>6. \A m \in Agent : HoldsTruth(m)'
    BY <2>1, <2>3, <2>4, ItemsKeepTruth DEF OutcomeInv
  <2>7. CheapestWins' /\ FailureJustified'
    BY <2>1, OutcomeStable DEF JoinAuction, OutcomeInv
  <2>8. InvitedOnly'
    BY <1>2, <2>1, <2>4 DEF InvitedOnly, JoinAuction, OutcomeInv
  <2> QED  BY <2>5, <2>6, <2>7, <2>8
<1>7. ASSUME NEW s \in Agent, NEW n \in Agent, HandleBid(s, n) PROVE Rest' /\ InvitedOnly'
  <2>1. PICK k \in DOMAIN net[<<s, n>>] :
          /\ net[<<s, n>>][k].kind = "bid"
          /\ OnBidReceived(n, s, net[<<s, n>>][k].payload)
          /\ net' = Without(<<s, n>>, k)
    BY <1>7 DEF HandleBid, Deliverable
  <2>2. <<s, n>> \in Channel /\ cost' = cost /\ UNCHANGED <<results, self_goals>>
    BY <1>7 DEF HandleBid, Channel, nodeVars
  <2>3. AllLegit(net)'
    BY <1>2, <2>1, <2>2, WithoutLegit, LegitStable DEF OutcomeInv
  <2>4. \A a \in Auction : net[<<s, n>>][k].payload = CostsFor(a, s)
    BY <2>1, <2>2 DEF OutcomeInv, AllLegit, Legit
  <2>5. \A m \in Agent : HoldsTruth(m)'
    BY <2>1, <2>2, <2>4, BidKeepsTruth DEF OutcomeInv
  <2>6. CheapestWins' /\ FailureJustified' /\ InvitedOnly'
    BY <2>2, OutcomeStable DEF OutcomeInv, InvitedOnly
  <2> QED  BY <2>3, <2>5, <2>6
<1>8. ASSUME NEW s \in Agent, NEW n \in Agent,
             HandleStartUnloadable(s, n) \/ DropUnregistered(s, n) \/ LoseMessage(s, n),
             UNCHANGED greedyVars
      PROVE  Rest' /\ InvitedOnly'
  <2>1. /\ \E k \in DOMAIN net[<<s, n>>] : net' = Without(<<s, n>>, k)
        /\ cost' = cost /\ UNCHANGED <<pluginVars, results, self_goals>>
    BY <1>8 DEF HandleStartUnloadable, DropUnregistered, LoseMessage, Lose, Deliverable,
       nodeVars, pluginVars
  <2>2. <<s, n>> \in Channel
    BY DEF Channel
  <2> QED  BY <2>1, <2>2, QuietStepKeeps DEF InvitedOnly, OutcomeInv
<1>9. ASSUME NEW n \in Agent, RunSuccess(n) \/ RunFailure(n) \/ Stop(n)
      PROVE  Rest' /\ InvitedOnly'
  <2>1. /\ cost' = cost /\ net' = net /\ self_goals' = self_goals
        /\ Reset(n)
    BY <1>9 DEF RunSuccess, RunFailure, Stop, EndSuccess, EndFailure, StopNode, RetractStart, netVars
  <2>2. AllLegit(net)'
    BY <2>1, LegitStable DEF OutcomeInv
  <2>3. \A m \in Agent : HoldsTruth(m)'
    BY <2>1, ResetKeepsTruth DEF OutcomeInv
  <2>4. InvitedOnly'
    BY <2>1 DEF InvitedOnly, OutcomeInv
  <2> QED  BY <1>9, <2>2, <2>3, <2>4, EndKeeps
<1>10. ASSUME NEW n \in Agent,
              \/ (Configure(n) \/ Pause(n) \/ Resume(n)) /\ UNCHANGED greedyVars
              \/ RunWaiting(n)
       PROVE  Rest' /\ InvitedOnly'
  <2>1. cost' = cost /\ net' = net /\ UNCHANGED <<pluginVars, results, self_goals>>
    BY <1>10 DEF Configure, ConfigureNode, Pause, PauseNode, Resume, ResumeNode, RunWaiting,
       vars, netVars, nodeVars, pluginVars
  <2> QED  BY <2>1, QuietStepKeeps DEF InvitedOnly, OutcomeInv
<1>11. ASSUME NEW n \in Agent, Restart(n) PROVE Rest' /\ InvitedOnly'
  <2>1. cost' = cost /\ net' = net /\ UNCHANGED results /\ NewPlugin(n)
    BY <1>11 DEF Restart, RestartNode, netVars
  <2>2. AllLegit(net)'
    BY <2>1, LegitStable DEF OutcomeInv
  <2>3. \A m \in Agent : HoldsTruth(m)'
    BY <2>1, ResetKeepsTruth DEF OutcomeInv
  <2>4. InvitedOnly'
    BY <1>2, <1>11 DEF Restart, RestartNode, InvitedOnly, OutcomeInv
  <2> QED  BY <2>1, <2>2, <2>3, <2>4, OutcomeStable DEF OutcomeInv
<1>12. ASSUME UNCHANGED vars PROVE Rest' /\ InvitedOnly'
  <2>1. cost' = cost /\ net' = net /\ UNCHANGED <<pluginVars, results, self_goals>>
    BY <1>12 DEF vars, netVars, nodeVars
  <2> QED  BY <2>1, QuietStepKeeps DEF InvitedOnly, OutcomeInv
<1>13. Rest' /\ InvitedOnly'
  <2> HIDE DEF Rest
  <2> QED
    BY <1>3, <1>4, <1>5, <1>6, <1>7, <1>8, <1>9, <1>10, <1>11, <1>12 DEF Next, Handle, Ignore, SelfGoal, OnRun, Environment
<1> QED  BY <1>1, <1>13 DEF OutcomeInv

\* The conflict rule holds fleet-wide: whoever reports success reports, for
\* every item, the cheapest bidder.
THEOREM CheapestAlwaysWins ==
    ASSUME SingleAuction PROVE Spec => []CheapestWins
<1>1. OutcomeInv => CheapestWins
  BY DEF OutcomeInv
<1> QED  BY <1>1, OutcomeInit, OutcomeNext, PTL DEF Spec

\* Nobody gives up on an auction that has an assignment.
THEOREM FailureAlwaysJustified ==
    ASSUME SingleAuction PROVE Spec => []FailureJustified
<1>1. OutcomeInv => FailureJustified
  BY DEF OutcomeInv
<1> QED  BY <1>1, OutcomeInit, OutcomeNext, PTL DEF Spec

-----------------------------------------------------------------------------
(***************************************************************************)
(* With one auction a node joins it, and ends it, at most once.            *)
(***************************************************************************)
LEMMA BroadcastStarts ==
    ASSUME NEW nt \in [Channel -> Seq(Message)], NEW n \in Agent, NEW a
    PROVE  /\ OneStart(nt) => OneStart(BroadcastBid(nt, n, a))
           /\ \A m \in Agent : Starting(BroadcastBid(nt, n, a), m) => Starting(nt, m)
BY BidStarts DEF BroadcastBid, SendBid

LEMMA JoinsOnceNext ==
    ASSUME OneAuction PROVE TypeInv /\ JoinsOnce /\ [Next]_vars => JoinsOnce'
<1> SUFFICES ASSUME TypeInv, JoinsOnce, [Next]_vars PROVE JoinsOnce'
  OBVIOUS
<1>1. JoinTypes /\ cost \in CostTable
  BY DEF JoinTypes, TypeInv, TypeOK, NodeTypeOK, PluginTypeOK
<1>2. net \in [Channel -> Seq(Message)] /\ OneStart(net)
  BY DEF TypeInv, TypeOK, JoinsOnce
<1>3. ASSUME NEW n \in Agent, NEW a \in Auction, OnAuctionItemsReceived(n, a)
      PROVE  \A m \in Agent \ {n} : auction_items'[m] = auction_items[m]
  BY <1>1, <1>3 DEF OnAuctionItemsReceived, BeginAuction, JoinTypes
<1>4. ASSUME NEW a \in Auction, ReceiveGoal(a) PROVE JoinsOnce'
  <2> DEFINE A == Auctioneer[a]
  <2>1. /\ MaySubmit(a) /\ ActivateNode(A, a, a) /\ UNCHANGED self_goals
        /\ submitted' = submitted \cup {a} /\ A \in Agent
    BY <1>4, GoalAssumption DEF ReceiveGoal, Activate
  <2>2. \A n \in Agent : Outside(n) /\ ~ Starting(net, n)
    BY <2>1 DEF JoinsOnce, MaySubmit
  <2>3. OpenAuction(A, a)
    BY <1>4, <2>1, <2>2 DEF ReceiveGoal, Activate, StartTicking, Outside
  <2>4. /\ BroadcastBid(net, A, a) \in [Channel -> Seq(Message)]
        /\ \A n \in Agent : ~ Starting(BroadcastBid(net, A, a), n)
    BY <1>1, <1>2, <2>1, <2>2, BroadcastStarts, BroadcastBidType
  <2>5. OneStart(net') /\ ~ Starting(net', A)
    BY <2>1, <2>3, <2>4, AskStarts DEF OpenAuction
  <2>6. \A n \in Agent \ {A} : auction_items'[n] = auction_items[n]
    BY <1>3, <2>1, <2>3 DEF OpenAuction
  <2> QED  BY <1>1, <2>1, <2>5, <2>6, JoinOpen
<1>5. ASSUME NEW n \in Agent, SelfGoal(n) PROVE JoinsOnce'
  <2>1. self_goals[n] # <<>> /\ self_goals' = [self_goals EXCEPT ![n] = Tail(@)]
    BY <1>5 DEF SelfGoal, ReceiveSelfGoal, RefuseSelfGoal
  <2>2. is_participant[n] /\ ~ running[n]
    BY <2>1 DEF JoinsOnce
  <2>3. ReceiveSelfGoal(n) /\ StartTicking(n)
    BY <1>5, <2>2 DEF SelfGoal, RefuseSelfGoal, ReceiveSelfGoal, Activate, OpenAuction
  <2>4. ActivateNode(n, Head(self_goals[n]), NoName) /\ UNCHANGED <<net, submitted, auction_items>>
    BY <2>3 DEF ReceiveSelfGoal, Activate, StartTicking, netVars, pluginVars, baseVars
  <2> QED  BY <1>1, <2>1, <2>4, JoinSelfGoal
<1>6. ASSUME NEW s \in Agent, NEW n \in Agent, HandleStart(s, n) PROVE JoinsOnce'
  <2>1. PICK k \in DOMAIN net[<<s, n>>] :
          /\ net[<<s, n>>][k].kind = "start"
          /\ JoinAuction(n, net[<<s, n>>][k].auction)
          /\ OnAuctionItemsReceived(n, net[<<s, n>>][k].auction)
          /\ net' = BroadcastBid(Without(<<s, n>>, k), n, net[<<s, n>>][k].auction)
    BY <1>6 DEF HandleStart, Deliverable
  <2> DEFINE a == net[<<s, n>>][k].auction
             c == <<s, n>>
  <2>2. c \in Channel /\ a \in Auction /\ IsStart(net[c][k]) /\ c[2] = n
    BY <1>2, <2>1 DEF Channel, Message, IsStart
  <2>3. Without(c, k) \in [Channel -> Seq(Message)]
    BY <1>2, <2>1, <2>2, WithoutType
  <2>4. /\ OneStart(Without(c, k)) /\ ~ Starting(Without(c, k), n)
        /\ \A m \in Agent : Starting(Without(c, k), m) => Starting(net, m)
    BY <1>2, <2>1, <2>2, WithoutStarts
  <2>5. /\ OneStart(net') /\ ~ Starting(net', n)
        /\ \A m \in Agent : Starting(net', m) => Starting(net, m)
    BY <2>1, <2>3, <2>4, BroadcastStarts
  <2>6. Starting(net, n)
    BY <2>1, <2>2 DEF Starting
  <2>7. \A m \in Agent \ {n} : auction_items'[m] = auction_items[m]
    BY <1>3, <2>1, <2>2
  <2> QED  BY <1>1, <2>1, <2>2, <2>5, <2>6, <2>7, JoinStart
<1>7. ASSUME NEW s \in Agent, NEW n \in Agent,
             HandleBid(s, n) \/ HandleStartUnloadable(s, n) \/ DropUnregistered(s, n) \/ LoseMessage(s, n)
      PROVE  JoinsOnce'
  <2>1. PICK k \in DOMAIN net[<<s, n>>] : net' = Without(<<s, n>>, k)
    BY <1>7 DEF HandleBid, HandleStartUnloadable, DropUnregistered, LoseMessage, Lose, Deliverable
  <2>2. UNCHANGED joinVars
    BY <1>7 DEF HandleBid, OnBidReceived, HandleStartUnloadable, DropUnregistered, LoseMessage,
       joinVars, nodeVars, roleVars, serverVars, baseVars
  <2>3. <<s, n>> \in Channel
    BY DEF Channel
  <2>4. OneStart(net') /\ \A m \in Agent : Starting(net', m) => Starting(net, m)
    BY <1>2, <2>1, <2>3, WithoutStarts
  <2> QED  BY <2>2, <2>4, JoinQuiet
<1>8. ASSUME NEW n \in Agent, RunSuccess(n) \/ RunFailure(n) \/ Stop(n) PROVE JoinsOnce'
  <2>1. PICK status, w : Report(n, status, w)
    BY <1>8 DEF RunSuccess, EndSuccess, RunFailure, EndFailure, Stop, StopNode
  <2>2. /\ running[n] /\ running' = [running EXCEPT ![n] = FALSE]
        /\ UNCHANGED <<is_participant, self_goals, submitted, net>> /\ Clear(n)
    BY <1>8 DEF RunSuccess, EndSuccess, RunFailure, EndFailure, Stop, StopNode, Ticking,
       roleVars, netVars, Reset
  <2>3. \A m \in Agent \ {n} : auction_items'[m] = auction_items[m]
    BY <1>1, <2>2 DEF Clear, JoinTypes
  <2> QED  BY <1>1, <2>1, <2>2, <2>3, JoinEnd
<1>9. ASSUME NEW n \in Agent, Restart(n) PROVE JoinsOnce'
  <2>1. RestartNode(n) /\ UNCHANGED net /\ auction_items' = [auction_items EXCEPT ![n] = {}]
    BY <1>9 DEF Restart, NewPlugin, Clear, netVars
  <2>2. auction_items'[n] = {} /\ \A m \in Agent \ {n} : auction_items'[m] = auction_items[m]
    BY <1>1, <2>1 DEF JoinTypes
  <2> QED  BY <1>1, <2>1, <2>2, JoinRestart
<1>10. ASSUME \/ UNCHANGED vars
              \/ \E n \in Agent : RunWaiting(n) \/ Configure(n) \/ Pause(n) \/ Resume(n)
       PROVE  JoinsOnce'
  <2>1. UNCHANGED joinVars /\ UNCHANGED net
    BY <1>10 DEF RunWaiting, Configure, ConfigureNode, Pause, PauseNode, Resume, ResumeNode,
       vars, joinVars, netVars, nodeVars, roleVars, serverVars, pluginVars, baseVars
  <2> QED  BY <1>2, <2>1, JoinQuiet
<1> QED
  BY <1>1, <1>4, <1>5, <1>6, <1>7, <1>8, <1>9, <1>10, JoinRefuse
  DEF Next, Handle, Ignore, OnRun, Environment

LEMMA JoinsOnceInit == Init => JoinsOnce
BY JoinInit DEF Init, PluginInit

-----------------------------------------------------------------------------
(***************************************************************************)
(* The refinement.  An activation begins the auction of its goal, a step   *)
(* that ends an execution ends the auction the node executes, and a        *)
(* process that dies executes nothing any more; every other step is a      *)
(* stutter.                                                                *)
(***************************************************************************)
LEMMA ExecutingFacts ==
    ASSUME TypeInv, NEW n \in Agent
    PROVE  /\ Executing \in [Agent -> Auction \cup {NoName}]
           /\ running[n] => Executing[n] = goal[n]
           /\ ~ running[n] => Executing[n] = NoName
           /\ running' = [running EXCEPT ![n] = FALSE] /\ (\A m \in Agent \ {n} : goal'[m] = goal[m]) =>
                 Executing' = [Executing EXCEPT ![n] = NoName]
           /\ \A a : running' = [running EXCEPT ![n] = TRUE] /\ goal' = [goal EXCEPT ![n] = a] =>
                 Executing' = [Executing EXCEPT ![n] = a]
<1>1. running \in [Agent -> BOOLEAN] /\ goal \in [Agent -> Auction \cup {NoName}]
  BY DEF TypeInv, TypeOK, NodeTypeOK
<1> QED  BY <1>1 DEF Executing

\* Whoever activates on a goal begins its auction.
LEMMA BeginIsPromised ==
    ASSUME TypeInv, NEW n \in Agent, NEW a \in Auction, NEW name, n \in Bidders[a],
           ActivateNode(n, a, name), cost' = cost, ~ Ended(n, a)
    PROVE  Promise!Next
<1>1. /\ ~ running[n] /\ running' = [running EXCEPT ![n] = TRUE]
      /\ goal' = [goal EXCEPT ![n] = a] /\ results' = results
  BY DEF ActivateNode
<1>2. Executing[n] = NoName /\ Executing' = [Executing EXCEPT ![n] = a]
  BY <1>1, ExecutingFacts
<1>3. ~ Promise!Reported(n, a)
  BY DEF Ended, Promise!Reported
<1>4. Promise!Begin(n, a)
  BY <1>1, <1>2, <1>3 DEF Promise!Begin, Promise!NoName, NoName
<1> QED  BY <1>4 DEF Promise!Next

LEMMA DieIsPromised ==
    ASSUME TypeInv, NEW n \in Agent, Restart(n)
    PROVE  Promise!Next
<1>1. /\ "restart" \in Requests /\ n \in Late /\ cost' = cost /\ results' = results
      /\ running' = [running EXCEPT ![n] = FALSE] /\ goal' = [goal EXCEPT ![n] = NoName]
  BY DEF Restart, RestartNode
<1>2. \A m \in Agent \ {n} : goal'[m] = goal[m]
  BY <1>1 DEF TypeInv, TypeOK, NodeTypeOK
<1>3. Executing' = [Executing EXCEPT ![n] = NoName]
  BY <1>1, <1>2, ExecutingFacts
<1>4. Promise!Die(n)
  BY <1>1, <1>3 DEF Promise!Die, Promise!NoName, NoName
<1> QED  BY <1>4 DEF Promise!Next

LEMMA EndIsPromised ==
    ASSUME TypeInv, AssignmentFresh, NEW n \in Agent,
           RunSuccess(n) \/ RunFailure(n) \/ Stop(n),
           CheckConvergence(n) => HoldsOffers(n, goal[n])
    PROVE  Promise!Next
<1> DEFINE a == goal[n]
<1>1. /\ cost' = cost /\ running[n] /\ a \in Auction
  BY DEF RunSuccess, RunFailure, Ticking, Stop, StopNode, TypeInv, RunningHasGoal
<1>2. Executing[n] = a /\ Executing' = [Executing EXCEPT ![n] = Promise!NoName]
  <2>1. running' = [running EXCEPT ![n] = FALSE] /\ goal' = goal
    BY DEF RunSuccess, EndSuccess, RunFailure, EndFailure, Stop, StopNode
  <2> QED  BY <1>1, <2>1, ExecutingFacts DEF Promise!NoName, NoName
<1>3. CheckConvergence(n) => HoldsOffers(n, a) /\ auction_items[n] = ItemsOf[a]
  BY DEF HoldsOffers
<1>4. CASE RunSuccess(n)
  <2>1. CheckConvergence(n) /\ \A i \in auction_items[n] : GetResult(n)[i] # NoAgent
    BY <1>4 DEF RunSuccess, Converged, Unassigned
  <2>2. Promise!Right(a, GetResult(n))
    <3> SUFFICES ASSUME NEW i \in Item
                 PROVE  IF i \in ItemsOf[a] THEN IsCheapest(a, GetResult(n)[i], i)
                                            ELSE GetResult(n)[i] = NoAgent
      BY DEF Promise!Right, Promise!IsCheapest, Promise!Prices, Promise!NoAgent,
             IsCheapest, Prices, NoAgent
    <3>1. CASE i \in ItemsOf[a]
      BY <1>1, <1>3, <2>1, <3>1, ResolvedIsRight
    <3>2. CASE i \notin ItemsOf[a]
      BY <1>3, <2>1, <3>2 DEF GetResult
    <3> QED  BY <3>1, <3>2
  <2>3. GetResult(n) \in Promise!Assignment
    BY GetResultType DEF TypeInv, TypeOK, Assignment, Promise!Assignment,
                         NoAgent, Promise!NoAgent
  <2>4. results' = results \cup {[by |-> n, auction |-> a, status |-> "SUCCESS",
                                  winners |-> GetResult(n)]}
    BY <1>4 DEF RunSuccess, EndSuccess, Report
  <2>5. Promise!Succeed(n, a)
    BY <1>1, <1>2, <2>2, <2>3, <2>4 DEF Promise!Succeed, Promise!End
  <2> QED  BY <1>1, <2>5 DEF Promise!Next
<1>5. CASE RunFailure(n)
  <2>1. \E i \in ItemsOf[a] : Unassignable(a, i)
    BY <1>1, <1>3, <1>5, ResolvedIsRight DEF RunFailure, Converged, Unassigned
  <2>2. results' = results \cup {[by |-> n, auction |-> a, status |-> "FAILURE",
                                  winners |-> Nobody]}
    BY <1>5 DEF RunFailure, EndFailure, RetractStart, Report
  <2>3. Promise!GiveUp(n, a)
    BY <1>1, <1>2, <2>1, <2>2
    DEF Promise!GiveUp, Promise!End, Promise!Unassignable, Promise!Prices, Promise!Nobody,
        Promise!NoAgent, Unassignable, Prices, Nobody, NoAgent
  <2> QED  BY <1>1, <2>3 DEF Promise!Next
<1>6. CASE Stop(n)
  <2>1. results' = results \cup {[by |-> n, auction |-> a, status |-> "ABORTED",
                                  winners |-> Nobody]}
    BY <1>6 DEF Stop, StopNode, RetractStart, Report
  <2>2. Promise!Abort(n, a)
    BY <1>1, <1>2, <2>1
    DEF Promise!Abort, Promise!End, Promise!Nobody, Promise!NoAgent, Nobody, NoAgent
  <2> QED  BY <1>1, <2>2 DEF Promise!Next
<1> QED  BY <1>4, <1>5, <1>6

\* A step that neither begins nor ends an execution.
Bystanding == UNCHANGED <<cost, results, running, goal>>

LEMMA BystandingStutters ==
    ASSUME Bystanding PROVE UNCHANGED Promise!promiseVars
BY DEF Bystanding, Promise!promiseVars, Executing

\* What the other handlers leave alone.
LEMMA HandlersStandBy ==
    ASSUME \/ UNCHANGED vars
           \/ \E a \in Auction : RefuseActivation(a)
           \/ \E n \in Agent : RefuseSelfGoal(n) \/ Configure(n) \/ Pause(n) \/ Resume(n)
           \/ \E s, n \in Agent : Handle(s, n) \/ LoseMessage(s, n)
    PROVE  Bystanding
BY DEF Bystanding, RefuseActivation, RejectGoal, RefuseSelfGoal, Configure, ConfigureNode, Pause,
   PauseNode, Resume, ResumeNode, Handle, HandleStart, JoinAuction, HandleBid, Ignore,
   HandleStartUnloadable, DropUnregistered, LoseMessage, vars, nodeVars, serverVars

LEMMA BeginKeepsPromise ==
    ASSUME SingleAuction, OutcomeInv, JoinsOnce,
           \/ \E a \in Auction : ReceiveGoal(a)
           \/ \E n \in Agent : ReceiveSelfGoal(n)
    PROVE  Promise!Next
<1>1. TypeInv /\ \A a \in Auction : Auctioneer[a] \in Agent /\ Auctioneer[a] \in Bidders[a]
  BY GoalAssumption DEF OutcomeInv, SingleAuction
<1>2. ASSUME NEW a \in Auction, ReceiveGoal(a) PROVE Promise!Next
  <2>1. ActivateNode(Auctioneer[a], a, a) /\ cost' = cost /\ a \notin submitted
    BY <1>2 DEF ReceiveGoal, Activate, MaySubmit
  <2>2. ~ Ended(Auctioneer[a], a)
    BY <1>1, <2>1 DEF JoinsOnce, Outside, NoResult, Ended
  <2> QED  BY <1>1, <2>1, <2>2, BeginIsPromised
<1>3. ASSUME NEW n \in Agent, ReceiveSelfGoal(n) PROVE Promise!Next
  <2> DEFINE a == Head(self_goals[n])
  <2>1. ActivateNode(n, a, NoName) /\ cost' = cost /\ self_goals[n] # <<>>
    BY <1>3 DEF ReceiveSelfGoal, Activate
  <2>2. a \in Auction
    BY <1>1, <2>1, HeadTailProperties DEF TypeInv, TypeOK, NodeTypeOK
  <2>3. n \in Bidders[a] /\ ~ Ended(n, a)
    BY <2>1, <2>2 DEF OutcomeInv, InvitedOnly, JoinsOnce, NoResult, Ended
  <2> HIDE DEF a
  <2> QED  BY <1>1, <2>1, <2>2, <2>3, BeginIsPromised
<1> QED  BY <1>2, <1>3

LEMMA EndKeepsPromise ==
    ASSUME SingleAuction, OutcomeInv, NEW n \in Agent, RunSuccess(n) \/ RunFailure(n) \/ Stop(n)
    PROVE  Promise!Next
<1>1. goal[n] \in Auction
  BY DEF RunSuccess, RunFailure, Ticking, Stop, StopNode, OutcomeInv, TypeInv, RunningHasGoal
<1> QED  BY <1>1, ConvergedHolds, EndIsPromised DEF OutcomeInv

LEMMA PromiseInit == Init => Promise!Init
<1> SUFFICES ASSUME Init PROVE Promise!Init
  OBVIOUS
<1>1. cost \in Promise!CostTable /\ results = {}
  BY DEF Init, NodeInit, CostTable, Promise!CostTable
<1>2. Executing = [n \in Agent |-> Promise!NoName]
  BY DEF Init, NodeInit, Executing, Promise!NoName, NoName
<1> QED  BY <1>1, <1>2 DEF Promise!Init

\* The fleet implements the abstract auction: whatever the handlers do to each
\* other, a node begins the auction only until it has ended it, and ends it for
\* one of the reasons the promise gives it.
THEOREM PromiseIsKept ==
    ASSUME SingleAuction PROVE Spec => KeepsPromise
<1>1. OutcomeInv /\ JoinsOnce /\ [Next]_vars => [Promise!Next]_(Promise!promiseVars)
  <2> SUFFICES ASSUME OutcomeInv, JoinsOnce, [Next]_vars
               PROVE  Promise!Next \/ Bystanding
    BY BystandingStutters
  <2>1. ASSUME NEW n \in Agent, OnRun(n) \/ Stop(n)
        PROVE  Promise!Next \/ Bystanding
    BY <2>1, EndKeepsPromise, HandlersStandBy DEF OnRun, RunWaiting
  <2>2. ASSUME NEW n \in Agent, Restart(n) PROVE Promise!Next
    BY <2>2, DieIsPromised DEF OutcomeInv
  <2> QED
    BY <2>1, <2>2, BeginKeepsPromise, HandlersStandBy DEF Next, SelfGoal, Environment
<1>2. OutcomeInv => TypeInv
  BY DEF OutcomeInv
<1>3. SingleAuction => OneAuction
  BY DEF SingleAuction
<1> QED
  BY <1>1, <1>2, <1>3, PromiseInit, OutcomeInit, OutcomeNext, JoinsOnceInit, JoinsOnceNext, PTL
  DEF Spec, KeepsPromise, Promise!Spec

-----------------------------------------------------------------------------
\* Who holds its costs of the items it has, or none, wins none but these.
LEMMA WinsOwnItems ==
    ASSUME TypeInv, AssignmentFresh, NEW n \in Agent, NEW a \in Auction,
           my_costs[n] = NoCosts \/ (my_costs[n] = CostsFor(a, n) /\ auction_items[n] = ItemsOf[a])
    PROVE  FeedbackItems(n) = MyAssignment(n)
<1> SUFFICES ASSUME NEW i \in MyAssignment(n) PROVE i \in auction_items[n]
  BY DEF FeedbackItems
<1> DEFINE offers == Offers(n, my_costs[n], received_bids[n], participants[n], i)
<1>1. i \in Item /\ n = Winner(offers)
  BY DEF MyAssignment, AssignmentFresh, Resolution
<1>2. offers \in [Agent -> CostValue \cup {NoBid}] /\ offers[n] = my_costs[n][i]
  <2>1. /\ my_costs[n] \in [Item -> CostValue \cup {NoBid}]
        /\ \A s \in Agent : received_bids[n][s] \in [Item -> CostValue \cup {NoBid}]
    BY DEF TypeInv, TypeOK, PluginTypeOK, CostVector
  <2> QED  BY <1>1, <2>1 DEF Offers
<1> HIDE DEF offers
<1>3. my_costs[n][i] # NoBid
  BY <1>1, <1>2, WinnerFacts, AgentAssumption DEF CanWin
<1> QED  BY <1>1, <1>3 DEF CostsFor, NoCosts

\* While a node executes the auction, nothing it wins is missing from the items
\* get_feedback looks the names up in.
THEOREM FeedbackAlwaysAligned ==
    ASSUME SingleAuction PROVE Spec => []FeedbackAligned
<1>1. OutcomeInv => FeedbackAligned
  <2> SUFFICES ASSUME OutcomeInv, NEW n \in Agent PROVE FeedbackItems(n) = MyAssignment(n)
    BY DEF FeedbackAligned
  <2> PICK a : Auction = {a}
    BY DEF SingleAuction, OneAuction
  <2> QED  BY WinsOwnItems DEF OutcomeInv, HoldsTruth
<1> QED  BY <1>1, OutcomeInit, OutcomeNext, PTL DEF Spec

-----------------------------------------------------------------------------
(***************************************************************************)
(* A node that cannot load the item plugin never sends a bid, so no node   *)
(* that waits for its bid ever converges.                                  *)
(***************************************************************************)
Able(n) == \A a \in Auction : TypeOf[a] \in Installed[n]

AbleOnly ==
    /\ \A n \in Agent : loaded_item_type[n] \in Installed[n] \cup {NoType}
    /\ \A c \in Channel : \A m \in InFlight(net, c) : m.kind = "bid" => Able(c[1])
    /\ \A n \in Agent : auction_items[n] # {} => Able(n)
    /\ \A n \in Agent : \A s \in received_from[n] : Able(s)

\* Every goal, self-goal and StartAuction passes through the loader.
LEMMA LoadedAble ==
    ASSUME OneAuction, AbleOnly, NEW n \in Agent, NEW a \in Auction, LoadItemPlugin(n, TypeOf[a]),
           loaded_item_type \in [Agent -> ItemType \cup {NoType}]
    PROVE  /\ Able(n)
           /\ \A m \in Agent : loaded_item_type'[m] \in Installed[m] \cup {NoType}
<1>1. TypeOf[a] \in Installed[n]
  BY GoalAssumption, NodeAssumption DEF AbleOnly, LoadItemPlugin, Loadable
<1> QED  BY <1>1 DEF LoadItemPlugin, OneAuction, Able, AbleOnly

LEMMA AbleBids ==
    ASSUME cost \in CostTable, NEW nt \in [Channel -> Seq(Message)], NEW n \in Agent,
           NEW a \in Auction, NEW c \in Channel, NEW m \in InFlight(BroadcastBid(nt, n, a), c)
    PROVE  m \in InFlight(nt, c) \/ c[1] = n
BY ForwardInFlight DEF BroadcastBid, SendBid

LEMMA AbleOnlyNext ==
    ASSUME OneAuction PROVE TypeInv /\ AbleOnly /\ [Next]_vars => AbleOnly'
<1> SUFFICES ASSUME TypeInv, AbleOnly, [Next]_vars PROVE AbleOnly'
  OBVIOUS
<1> DEFINE Loads(l) == \A n \in Agent : l[n] \in Installed[n] \cup {NoType}
           Bids(nt) == \A c \in Channel : \A m \in InFlight(nt, c) : m.kind = "bid" => Able(c[1])
           Holds(items) == \A n \in Agent : items[n] # {} => Able(n)
           Heard(from) == \A n \in Agent : \A s \in from[n] : Able(s)
           All == /\ Loads(loaded_item_type') /\ Bids(net')
                  /\ Holds(auction_items') /\ Heard(received_from')
<1>1. /\ cost \in CostTable /\ net \in [Channel -> Seq(Message)] /\ PluginTypeOK
      /\ self_goals \in [Agent -> Seq(Auction)]
      /\ loaded_item_type \in [Agent -> ItemType \cup {NoType}]
  BY DEF TypeInv, TypeOK, NodeTypeOK
<1>2. Loads(loaded_item_type) /\ Bids(net) /\ Holds(auction_items) /\ Heard(received_from)
  BY DEF AbleOnly
<1>3. All => AbleOnly'
  BY DEF AbleOnly, InFlight, Able
<1>4. ASSUME NEW n \in Agent, NEW a \in Auction, Able(n), OnAuctionItemsReceived(n, a)
      PROVE  Holds(auction_items') /\ Heard(received_from')
  BY <1>1, <1>2, <1>4 DEF OnAuctionItemsReceived, BeginAuction, PluginTypeOK
<1>5. ASSUME NEW n \in Agent, NEW a \in Auction, NEW name, Activate(n, a, name) PROVE All
  <2>1. Able(n) /\ Loads(loaded_item_type')
    BY <1>1, <1>5, LoadedAble DEF Activate, ActivateNode
  <2>2. ASSUME OpenAuction(n, a) PROVE Bids(net') /\ Holds(auction_items') /\ Heard(received_from')
    <3>1. BroadcastBid(net, n, a) \in [Channel -> Seq(Message)]
      BY <1>1, BroadcastBidType
    <3>2. Bids(BroadcastBid(net, n, a))
      BY <1>1, <1>2, <2>1, AbleBids
    <3>3. Bids(net')
      BY <2>2, <3>1, <3>2, ForwardInFlight DEF OpenAuction, StartAuction
    <3> QED  BY <1>4, <2>1, <2>2, <3>3 DEF OpenAuction
  <2>3. ASSUME StartTicking(n) PROVE Bids(net') /\ Holds(auction_items') /\ Heard(received_from')
    BY <1>2, <2>3 DEF StartTicking, netVars, pluginVars, baseVars, greedyVars
  <2> QED  BY <1>5, <2>1, <2>2, <2>3 DEF Activate
<1>6. ASSUME NEW s \in Agent, NEW n \in Agent, HandleStart(s, n) PROVE All
  <2>1. PICK k \in DOMAIN net[<<s, n>>] :
          /\ net[<<s, n>>][k].kind = "start"
          /\ JoinAuction(n, net[<<s, n>>][k].auction)
          /\ OnAuctionItemsReceived(n, net[<<s, n>>][k].auction)
          /\ net' = BroadcastBid(Without(<<s, n>>, k), n, net[<<s, n>>][k].auction)
    BY <1>6 DEF HandleStart, Deliverable
  <2> DEFINE a == net[<<s, n>>][k].auction
             left == Without(<<s, n>>, k)
  <2>2. <<s, n>> \in Channel /\ a \in Auction
    BY <1>1, <2>1 DEF Channel, Message
  <2>3. Able(n) /\ Loads(loaded_item_type')
    BY <1>1, <2>1, <2>2, LoadedAble DEF JoinAuction
  <2>4. left \in [Channel -> Seq(Message)] /\ Bids(left)
    BY <1>1, <1>2, <2>1, <2>2, WithoutType, WithoutInFlight
  <2>5. Bids(net')
    <3> HIDE DEF left, a
    <3>1. net' = BroadcastBid(left, n, a)
      BY <2>1 DEF left, a
    <3> QED  BY <1>1, <2>2, <2>3, <2>4, <3>1, AbleBids
  <2> QED  BY <1>4, <2>1, <2>2, <2>3, <2>5
<1>7. ASSUME NEW s \in Agent, NEW n \in Agent,
             HandleBid(s, n) \/ ((Ignore(s, n) \/ LoseMessage(s, n)) /\ UNCHANGED greedyVars)
      PROVE  All
  <2>1. PICK k \in DOMAIN net[<<s, n>>] :
          net' = Without(<<s, n>>, k) /\ (HandleBid(s, n) => net[<<s, n>>][k].kind = "bid")
    <3>1. ASSUME HandleBid(s, n)
          PROVE  \E k \in DOMAIN net[<<s, n>>] :
                    net' = Without(<<s, n>>, k) /\ net[<<s, n>>][k].kind = "bid"
      BY <3>1 DEF HandleBid, Deliverable
    <3>2. ASSUME Ignore(s, n) \/ LoseMessage(s, n)
          PROVE  \E k \in DOMAIN net[<<s, n>>] : net' = Without(<<s, n>>, k)
      BY <3>2 DEF Ignore, HandleStartUnloadable, DropUnregistered, LoseMessage, Lose, Deliverable
    <3> QED  BY <1>7, <3>1, <3>2
  <2>2. UNCHANGED <<loaded_item_type, auction_items>> /\ <<s, n>> \in Channel
    BY <1>7 DEF HandleBid, OnBidReceived, Ignore, HandleStartUnloadable, DropUnregistered,
       LoseMessage, nodeVars, roleVars, baseVars, Channel
  <2>3. Heard(received_from')
    <3>1. CASE HandleBid(s, n)
      <4>1. received_from' = [received_from EXCEPT ![n] = @ \cup {s}]
        BY <3>1 DEF HandleBid, OnBidReceived
      <4>2. net[<<s, n>>][k] \in InFlight(net, <<s, n>>)
        BY DEF InFlight
      <4>3. Able(s)
        BY <1>2, <2>1, <2>2, <3>1, <4>2
      <4> QED  BY <1>1, <1>2, <4>1, <4>3 DEF PluginTypeOK
    <3>2. CASE UNCHANGED greedyVars
      BY <1>2, <3>2 DEF greedyVars
    <3> QED  BY <1>7, <3>1, <3>2
  <2>4. Bids(net')
    BY <1>1, <1>2, <2>1, <2>2, WithoutInFlight
  <2> QED  BY <1>2, <2>2, <2>3, <2>4
<1>8. ASSUME NEW n \in Agent, RunWaiting(n) \/ RunSuccess(n) \/ RunFailure(n) \/ Stop(n) \/ Restart(n)
      PROVE  All
  <2>1. /\ net' = net
        /\ loaded_item_type' = loaded_item_type \/ loaded_item_type' = [loaded_item_type EXCEPT ![n] = NoType]
    BY <1>8 DEF RunWaiting, RunSuccess, EndSuccess, RunFailure, EndFailure, Stop, StopNode,
       Restart, RestartNode, vars, nodeVars, roleVars, netVars
  <2>2. UNCHANGED pluginVars \/ Reset(n) \/ NewPlugin(n)
    BY <1>8 DEF RunWaiting, RunSuccess, RunFailure, Stop, Restart, vars
  <2>3. Holds(auction_items') /\ Heard(received_from')
    BY <1>1, <1>2, <2>2 DEF pluginVars, baseVars, greedyVars, Reset, NewPlugin, Clear, PluginTypeOK
  <2> QED  BY <1>1, <1>2, <2>1, <2>3
<1>9. ASSUME UNCHANGED <<net, loaded_item_type, auction_items, received_from>> PROVE All
  BY <1>2, <1>9
<1>10. ASSUME NEW a \in Auction, ReceiveGoal(a) PROVE All
  BY <1>5, <1>10, GoalAssumption DEF ReceiveGoal
<1>11. ASSUME NEW n \in Agent, ReceiveSelfGoal(n) PROVE All
  <2>1. Head(self_goals[n]) \in Auction
    BY <1>1, <1>11, HeadTailProperties DEF ReceiveSelfGoal
  <2> QED  BY <1>5, <1>11, <2>1 DEF ReceiveSelfGoal
<1>12. ASSUME NEW n \in Agent, RefuseSelfGoal(n) \/ Configure(n) \/ Pause(n) \/ Resume(n),
              UNCHANGED greedyVars
       PROVE  UNCHANGED <<net, loaded_item_type, auction_items, received_from>>
  BY <1>12 DEF RefuseSelfGoal, Configure, ConfigureNode, Pause, PauseNode, Resume, ResumeNode,
     netVars, baseVars, roleVars, greedyVars
<1>13. ASSUME NEW a \in Auction, RefuseActivation(a), UNCHANGED greedyVars
       PROVE  UNCHANGED <<net, loaded_item_type, auction_items, received_from>>
  BY <1>13 DEF RefuseActivation, RejectGoal, netVars, baseVars, greedyVars
<1>14. ASSUME UNCHANGED vars
       PROVE  UNCHANGED <<net, loaded_item_type, auction_items, received_from>>
  BY <1>14 DEF vars, netVars, nodeVars, roleVars, pluginVars, baseVars, greedyVars
<1> HIDE DEF All
<1> QED
  BY <1>3, <1>6, <1>7, <1>8, <1>9, <1>10, <1>11, <1>12, <1>13, <1>14
  DEF Next, Handle, Ignore, SelfGoal, OnRun, Environment

LEMMA AbleOnlyInit == Init => AbleOnly
BY DEF Init, NodeInit, PluginInit, AbleOnly, InFlight

LEMMA AllOrNothingNext ==
    ASSUME SingleAuction
    PROVE  OutcomeInv /\ AbleOnly /\ AllOrNothing /\ [Next]_vars => AllOrNothing'
<1> SUFFICES ASSUME OutcomeInv, AbleOnly, AllOrNothing, [Next]_vars PROVE AllOrNothing'
  OBVIOUS
<1>1. ASSUME NEW n \in Agent, RunSuccess(n) PROVE AllOrNothing'
  <2>1. goal[n] \in Auction /\ CheckConvergence(n)
    BY <1>1 DEF RunSuccess, Ticking, Converged, OutcomeInv, TypeInv, RunningHasGoal
  <2>2. /\ auction_items[n] # {} /\ participants[n] = Bidders[goal[n]]
        /\ Bidders[goal[n]] \ {n} \subseteq received_from[n]
    BY <2>1 DEF CheckConvergence, HeardAllPeers, OutcomeInv, HoldsTruth
  <2>3. \A m \in Bidders[goal[n]] : TypeOf[goal[n]] \in Installed[m]
    BY <2>1, <2>2 DEF AbleOnly, Able
  <2>4. results' = results \cup {[by |-> n, auction |-> goal[n], status |-> "SUCCESS",
                                  winners |-> GetResult(n)]}
    BY <1>1 DEF RunSuccess, EndSuccess, Report
  <2> QED  BY <2>3, <2>4 DEF AllOrNothing
<1>2. ASSUME UNCHANGED results \/ \E m \in Agent, status \in {"FAILURE", "ABORTED"} : Report(m, status, Nobody)
      PROVE  AllOrNothing'
  BY <1>2 DEF AllOrNothing, Report
<1>3. ASSUME NEW n \in Agent, RunFailure(n) \/ Stop(n)
      PROVE  \E m \in Agent, status \in {"FAILURE", "ABORTED"} : Report(m, status, Nobody)
  BY <1>3 DEF RunFailure, EndFailure, Stop, StopNode
<1>4. ASSUME NEW a \in Auction, ReceiveGoal(a) \/ RefuseActivation(a) PROVE UNCHANGED results
  BY <1>4 DEF ReceiveGoal, Activate, ActivateNode, RefuseActivation, RejectGoal
<1>5. ASSUME NEW n \in Agent,
             \/ SelfGoal(n) \/ RunWaiting(n) \/ Restart(n) \/ Configure(n) \/ Pause(n) \/ Resume(n)
      PROVE  UNCHANGED results
  BY <1>5 DEF SelfGoal, ReceiveSelfGoal, RefuseSelfGoal, Activate, ActivateNode, RunWaiting, Restart,
     RestartNode, Configure, ConfigureNode, Pause, PauseNode, Resume, ResumeNode, vars, nodeVars
<1>6. ASSUME NEW s \in Agent, NEW n \in Agent, Handle(s, n) \/ LoseMessage(s, n)
      PROVE  UNCHANGED results
  BY <1>6 DEF Handle, HandleStart, JoinAuction, HandleBid, Ignore, HandleStartUnloadable,
     DropUnregistered, LoseMessage, nodeVars
<1>7. CASE UNCHANGED vars
  BY <1>2, <1>7 DEF vars, nodeVars
<1> QED
  BY <1>1, <1>2, <1>3, <1>4, <1>5, <1>6, <1>7 DEF Next, OnRun, Environment

\* A success means that every bidder could load the item plugin.
THEOREM AlwaysAllOrNothing ==
    ASSUME SingleAuction PROVE Spec => []AllOrNothing
<1>1. Init => AllOrNothing
  BY DEF Init, NodeInit, AllOrNothing
<1>2. OutcomeInv => TypeInv
  BY DEF OutcomeInv
<1>3. SingleAuction => OneAuction
  BY DEF SingleAuction
<1> QED
  BY <1>1, <1>2, <1>3, OutcomeInit, OutcomeNext, AbleOnlyInit, AbleOnlyNext, AllOrNothingNext, PTL
  DEF Spec

-----------------------------------------------------------------------------
(***************************************************************************)
(* No bid disappears inside a node.  This is about the nodes, so nothing   *)
(* may disappear outside them: no message is lost, and every node has      *)
(* registered its handlers before the auction starts.                      *)
(***************************************************************************)
Reliable == MaxLoss = 0 /\ Late = {} /\ \A a \in Auction : ItemsOf[a] # {}

HasBid(nt, c) == \E m \in InFlight(nt, c) : m.kind = "bid"

\* A node joins the auction before it executes it, and holds the items then.
JoinedFirst ==
    /\ \A n \in Agent : configured[n] = AllDone
    /\ \A n \in Agent : running[n] \/ self_goals[n] # <<>> => auction_items[n] # {}

LEMMA BroadcastBids ==
    ASSUME cost \in CostTable, NEW nt \in [Channel -> Seq(Message)], NEW n \in Agent,
           NEW a \in Auction, ItemsOf[a] # {}
    PROVE  /\ \A c \in Channel : HasBid(nt, c) => HasBid(BroadcastBid(nt, n, a), c)
           /\ \A d \in Bidders[a] \ {n} : HasBid(BroadcastBid(nt, n, a), <<n, d>>)
<1>1. BroadcastBid(nt, n, a) = Forward(nt, n, Bidders[a], Bid(CostsFor(a, n)))
  BY DEF BroadcastBid, SendBid
<1>2. \A c \in Channel : InFlight(nt, c) \subseteq InFlight(BroadcastBid(nt, n, a), c)
  BY <1>1, ForwardInFlight
<1>3. ASSUME NEW d \in Bidders[a] \ {n} PROVE HasBid(BroadcastBid(nt, n, a), <<n, d>>)
  <2>1. <<n, d>> \in Channel
    BY GoalAssumption DEF Channel
  <2>2. Bid(CostsFor(a, n)) \in InFlight(BroadcastBid(nt, n, a), <<n, d>>)
    <3>1. Bid(CostsFor(a, n)) \in InFlight(Forward(nt, n, Bidders[a], Bid(CostsFor(a, n))), <<n, d>>)
      BY <1>3, <2>1, ForwardInFlight
    <3> QED  BY <1>1, <3>1
  <2> QED  BY <2>2 DEF HasBid, Bid
<1> QED  BY <1>2, <1>3 DEF HasBid

LEMMA WithoutBids ==
    ASSUME net \in [Channel -> Seq(Message)], NEW c \in Channel, NEW k \in DOMAIN net[c]
    PROVE  /\ \A d \in Channel \ {c} : HasBid(net, d) => HasBid(Without(c, k), d)
           /\ net[c][k].kind # "bid" => \A d \in Channel : HasBid(net, d) => HasBid(Without(c, k), d)
<1>1. /\ \A d \in Channel \ {c} : InFlight(Without(c, k), d) = InFlight(net, d)
      /\ InFlight(net, c) = InFlight(Without(c, k), c) \cup {net[c][k]}
  BY WithoutInFlight
<1>2. \A d \in Channel \ {c} : HasBid(net, d) => HasBid(Without(c, k), d)
  BY <1>1 DEF HasBid
<1>3. net[c][k].kind # "bid" /\ HasBid(net, c) => HasBid(Without(c, k), c)
  BY <1>1 DEF HasBid
<1> QED  BY <1>2, <1>3

\* BidConserved, with the items a node holds for the auction it has joined.
BidsHeld == \A s, n \in Agent : \A a \in Auction :
    (/\ s # n /\ {s, n} \subseteq Bidders[a]
     /\ auction_items[s] # {} \/ Ended(s, a)
     /\ ~ Ended(n, a)) => s \in received_from[n] \/ HasBid(net, <<s, n>>)

LEMMA HeldConserves == ASSUME JoinedFirst, BidsHeld PROVE BidConserved
<1>1. \A s, n : HasBid(net, <<s, n>>) <=> \E k \in DOMAIN net[<<s, n>>] : net[<<s, n>>][k].kind = "bid"
  BY DEF HasBid, InFlight
<1>2. ASSUME NEW s \in Agent, NEW a, Joined(s, a) PROVE auction_items[s] # {} \/ Ended(s, a)
  BY <1>2 DEF Joined, JoinedFirst
<1> QED  BY <1>1, <1>2 DEF BidsHeld, BidConserved

\* What a step owes to BidsHeld.
BidsKept == \A a \in Auction : \A n \in Bidders[a] :
    /\ Ended(n, a) => Ended(n, a)'
    /\ \A s \in Bidders[a] \ {n} :
          /\ auction_items'[s] # {} \/ Ended(s, a)' =>
                auction_items[s] # {} \/ Ended(s, a) \/ HasBid(net', <<s, n>>)
          /\ s \in received_from[n] => s \in received_from'[n] \/ Ended(n, a)'
          /\ HasBid(net, <<s, n>>) => HasBid(net', <<s, n>>) \/ s \in received_from'[n]

LEMMA KeptHolds ==
    ASSUME BidsHeld, BidsKept
    PROVE  BidsHeld'
<1> SUFFICES ASSUME NEW s \in Agent, NEW n \in Agent, NEW a \in Auction,
                    s # n, {s, n} \subseteq Bidders[a],
                    auction_items'[s] # {} \/ Ended(s, a)', ~ Ended(n, a)'
             PROVE  s \in received_from'[n] \/ HasBid(net', <<s, n>>)
  BY DEF BidsHeld, HasBid, InFlight
<1>1. auction_items[s] # {} \/ Ended(s, a) => s \in received_from[n] \/ HasBid(net, <<s, n>>)
  BY DEF BidsHeld, BidsKept
<1> QED  BY <1>1 DEF BidsKept

\* A node that joins tells every other bidder.
LEMMA JoinKeepsBids ==
    ASSUME Reliable, TypeInv, NEW n \in Agent, NEW a \in Auction, NEW nt \in [Channel -> Seq(Message)],
           OneAuction, OnAuctionItemsReceived(n, a), UNCHANGED results,
           \A c \in Channel : HasBid(net, c) => HasBid(nt, c),
           \A c \in Channel : HasBid(BroadcastBid(nt, n, a), c) => HasBid(net', c)
    PROVE  BidsKept
<1>1. /\ \A c \in Channel : HasBid(net, c) => HasBid(net', c)
      /\ \A d \in Bidders[a] \ {n} : HasBid(net', <<n, d>>)
  <2>1. cost \in CostTable /\ ItemsOf[a] # {} /\ Bidders[a] \subseteq Agent
    BY GoalAssumption DEF Reliable, TypeInv, TypeOK
  <2> QED  BY <2>1, BroadcastBids DEF Channel
<1>2. /\ received_from' = received_from
      /\ \A m \in Agent \ {n} : auction_items'[m] = auction_items[m]
  BY DEF OnAuctionItemsReceived, BeginAuction, TypeInv, TypeOK, PluginTypeOK
<1>3. \A m, b : Ended(m, b)' <=> Ended(m, b)
  BY DEF Ended
<1>4. \A b \in Auction : b = a /\ Bidders[b] \subseteq Agent
  BY GoalAssumption DEF OneAuction
<1> QED  BY <1>1, <1>2, <1>3, <1>4 DEF BidsKept, Channel

\* Nothing happens to bids, joined nodes and ended ones.
LEMMA IdleKeepsBids ==
    ASSUME UNCHANGED <<net, auction_items, received_from, results>> PROVE BidsKept
BY DEF BidsKept, Ended, HasBid, InFlight

LEMMA ConservedNext ==
    ASSUME OneAuction, Reliable
    PROVE  TypeInv /\ JoinsOnce /\ JoinedFirst /\ [Next]_vars => JoinedFirst' /\ BidsKept
<1> SUFFICES ASSUME TypeInv, JoinsOnce, JoinedFirst, [Next]_vars PROVE JoinedFirst' /\ BidsKept
  OBVIOUS
<1>1. /\ cost \in CostTable /\ net \in [Channel -> Seq(Message)] /\ PluginTypeOK
      /\ self_goals \in [Agent -> Seq(Auction)] /\ running \in [Agent -> BOOLEAN]
      /\ configured \in [Agent -> Nat] /\ lost \in 0..MaxLoss
      /\ auction_items \in [Agent -> SUBSET Item] /\ received_from \in [Agent -> SUBSET Agent]
      /\ \A a \in Auction : Auctioneer[a] \in Agent /\ Bidders[a] \subseteq Agent
      /\ \A a \in Auction : ItemsOf[a] # {}
      /\ \A a, b \in Auction : a = b
  BY GoalAssumption DEF TypeInv, TypeOK, NodeTypeOK, PluginTypeOK, Reliable, OneAuction
<1>2. ASSUME NEW n \in Agent, NEW a \in Auction, OnAuctionItemsReceived(n, a)
      PROVE  auction_items'[n] # {} /\ \A m \in Agent \ {n} : auction_items'[m] = auction_items[m]
  BY <1>1, <1>2 DEF OnAuctionItemsReceived, BeginAuction
<1>3. ASSUME NEW a \in Auction, ReceiveGoal(a) PROVE JoinedFirst' /\ BidsKept
  <2> DEFINE A == Auctioneer[a]
  <2>1. OpenAuction(A, a) /\ A \in Agent
    BY <1>1, <1>3 DEF ReceiveGoal, Activate, StartTicking, JoinsOnce, MaySubmit, Outside
  <2>2. /\ running' = [running EXCEPT ![A] = TRUE] /\ UNCHANGED <<self_goals, configured, results>>
    BY <1>3 DEF ReceiveGoal, Activate, ActivateNode, AnnounceStart
  <2>3. JoinedFirst'
    BY <1>1, <1>2, <2>1, <2>2 DEF OpenAuction, JoinedFirst
  <2>4. BroadcastBid(net, A, a) \in [Channel -> Seq(Message)]
    BY <1>1, <2>1, BroadcastBidType
  <2>5. \A c \in Channel : HasBid(BroadcastBid(net, A, a), c) => HasBid(net', c)
    BY <2>1, <2>4, ForwardInFlight DEF OpenAuction, HasBid
  <2> QED  BY <1>1, <2>1, <2>2, <2>3, <2>5, JoinKeepsBids DEF OpenAuction
<1>4. ASSUME NEW n \in Agent, SelfGoal(n) PROVE JoinedFirst' /\ BidsKept
  <2>1. self_goals[n] # <<>> /\ self_goals' = [self_goals EXCEPT ![n] = Tail(@)]
    BY <1>4 DEF SelfGoal, ReceiveSelfGoal, RefuseSelfGoal
  <2>2. is_participant[n] /\ ~ running[n]
    BY <2>1 DEF JoinsOnce
  <2>3. ReceiveSelfGoal(n) /\ StartTicking(n)
    BY <1>4, <2>2 DEF SelfGoal, RefuseSelfGoal, ReceiveSelfGoal, Activate, OpenAuction
  <2>4. /\ UNCHANGED <<net, auction_items, received_from, results, configured>>
        /\ running' = [running EXCEPT ![n] = TRUE]
    BY <2>3 DEF ReceiveSelfGoal, Activate, ActivateNode, AnnounceStart, StartTicking, netVars,
       pluginVars, baseVars, greedyVars
  <2>5. JoinedFirst'
    BY <1>1, <2>1, <2>4 DEF JoinedFirst
  <2> QED  BY <2>4, <2>5, IdleKeepsBids
<1>5. ASSUME NEW s \in Agent, NEW n \in Agent, HandleStart(s, n) PROVE JoinedFirst' /\ BidsKept
  <2>1. PICK k \in DOMAIN net[<<s, n>>] :
          /\ net[<<s, n>>][k].kind = "start"
          /\ JoinAuction(n, net[<<s, n>>][k].auction)
          /\ OnAuctionItemsReceived(n, net[<<s, n>>][k].auction)
          /\ net' = BroadcastBid(Without(<<s, n>>, k), n, net[<<s, n>>][k].auction)
    BY <1>5 DEF HandleStart, Deliverable
  <2> DEFINE a == net[<<s, n>>][k].auction
             left == Without(<<s, n>>, k)
  <2>2. <<s, n>> \in Channel /\ a \in Auction
    BY <1>1, <2>1 DEF Channel, Message
  <2>3. left \in [Channel -> Seq(Message)] /\ \A c \in Channel : HasBid(net, c) => HasBid(left, c)
    BY <1>1, <2>1, <2>2, WithoutType, WithoutBids
  <2>4. /\ UNCHANGED <<running, configured, results>>
        /\ self_goals' = [self_goals EXCEPT ![n] = Append(@, a)]
    BY <2>1 DEF JoinAuction, serverVars
  <2>5. JoinedFirst'
    BY <1>1, <1>2, <2>1, <2>2, <2>4 DEF JoinedFirst
  <2> HIDE DEF left, a
  <2>6. net' = BroadcastBid(left, n, a) /\ OnAuctionItemsReceived(n, a)
    BY <2>1 DEF left, a
  <2> QED  BY <2>2, <2>3, <2>4, <2>5, <2>6, JoinKeepsBids
<1>6. ASSUME NEW s \in Agent, NEW n \in Agent, HandleBid(s, n) PROVE JoinedFirst' /\ BidsKept
  <2>1. PICK k \in DOMAIN net[<<s, n>>] :
          /\ net' = Without(<<s, n>>, k)
          /\ received_from' = [received_from EXCEPT ![n] = @ \cup {s}]
    BY <1>6 DEF HandleBid, OnBidReceived, Deliverable
  <2>2. UNCHANGED <<auction_items, results, configured, running, self_goals>> /\ <<s, n>> \in Channel
    BY <1>6 DEF HandleBid, OnBidReceived, nodeVars, roleVars, serverVars, baseVars, Channel
  <2>3. \A c \in Channel \ {<<s, n>>} : HasBid(net, c) => HasBid(net', c)
    BY <1>1, <2>1, <2>2, WithoutBids
  <2>4. /\ \A x, y \in Agent : x \in received_from[y] => x \in received_from'[y]
        /\ s \in received_from'[n]
    BY <1>1, <2>1
  <2>5. \A m, b : Ended(m, b)' <=> Ended(m, b)
    BY <2>2 DEF Ended
  <2>6. \A x, y \in Agent : HasBid(net, <<x, y>>) => HasBid(net', <<x, y>>) \/ x \in received_from'[y]
    BY <2>3, <2>4 DEF Channel
  <2>7. BidsKept
    BY <1>1, <2>2, <2>4, <2>5, <2>6 DEF BidsKept
  <2> QED  BY <2>2, <2>7 DEF JoinedFirst
<1>7. ASSUME NEW s \in Agent, NEW n \in Agent, HandleStartUnloadable(s, n), UNCHANGED greedyVars
      PROVE  JoinedFirst' /\ BidsKept
  <2>1. PICK k \in DOMAIN net[<<s, n>>] : net[<<s, n>>][k].kind = "start" /\ net' = Without(<<s, n>>, k)
    BY <1>7 DEF HandleStartUnloadable, Deliverable
  <2>2. /\ UNCHANGED <<auction_items, received_from, results, configured, running, self_goals>>
        /\ <<s, n>> \in Channel
    BY <1>7 DEF HandleStartUnloadable, nodeVars, roleVars, serverVars, baseVars, greedyVars, Channel
  <2>3. \A c \in Channel : HasBid(net, c) => HasBid(net', c)
    BY <1>1, <2>1, <2>2, WithoutBids
  <2>4. \A m, b : Ended(m, b)' <=> Ended(m, b)
    BY <2>2 DEF Ended
  <2>5. BidsKept
    BY <1>1, <2>2, <2>3, <2>4 DEF BidsKept, Channel
  <2> QED  BY <2>2, <2>5 DEF JoinedFirst
<1>8. ASSUME NEW s \in Agent, NEW n \in Agent, DropUnregistered(s, n) \/ LoseMessage(s, n) PROVE FALSE
  BY <1>1, <1>8 DEF DropUnregistered, Registered, AllDone, JoinedFirst, LoseMessage, Lose, Reliable
<1>9. ASSUME NEW n \in Agent, RunSuccess(n) \/ RunFailure(n) \/ Stop(n) PROVE JoinedFirst' /\ BidsKept
  <2>1. PICK status, w : Report(n, status, w)
    BY <1>9 DEF RunSuccess, EndSuccess, RunFailure, EndFailure, Stop, StopNode
  <2>2. /\ running[n] /\ running' = [running EXCEPT ![n] = FALSE]
        /\ UNCHANGED <<configured, self_goals, net>> /\ Clear(n)
    BY <1>9 DEF RunSuccess, EndSuccess, RunFailure, EndFailure, Stop, StopNode, Ticking,
       roleVars, netVars, Reset
  <2>3. auction_items[n] # {} /\ self_goals[n] = <<>>
    BY <2>2 DEF JoinedFirst, JoinsOnce
  <2> PICK b \in Auction : b = goal[n]
    BY <2>2 DEF TypeInv, RunningHasGoal
  <2>4. /\ Ended(n, b)'
        /\ \A m \in Agent \ {n} : \A a : Ended(m, a)' <=> Ended(m, a)
        /\ \A m, a : Ended(m, a) => Ended(m, a)'
    <3> DEFINE ended == [by |-> n, auction |-> b, status |-> status, winners |-> w]
    <3>1. results' = results \cup {ended} /\ ended.by = n /\ ended.auction = b
      BY <2>1 DEF Report
    <3> HIDE DEF ended
    <3> QED  BY <3>1 DEF Ended
  <2>5. \A m \in Agent \ {n} :
          auction_items'[m] = auction_items[m] /\ received_from'[m] = received_from[m]
    BY <1>1, <2>2 DEF Clear
  <2>6. JoinedFirst'
    BY <1>1, <2>2, <2>3, <2>5 DEF JoinedFirst
  <2>7. ASSUME NEW a \in Auction, NEW m \in Bidders[a], NEW s \in Bidders[a] \ {m}
        PROVE  /\ Ended(m, a) => Ended(m, a)'
               /\ auction_items'[s] # {} \/ Ended(s, a)' => auction_items[s] # {} \/ Ended(s, a)
               /\ s \in received_from[m] => s \in received_from'[m] \/ Ended(m, a)'
    <3>1. m \in Agent /\ s \in Agent /\ a = b
      BY <1>1, <2>7
    <3> QED  BY <2>3, <2>4, <2>5, <3>1
  <2>8. BidsKept
    BY <1>1, <2>2, <2>3, <2>4, <2>7 DEF BidsKept
  <2> QED  BY <2>6, <2>8
<1>10. ASSUME NEW n \in Agent, Restart(n) \/ Configure(n) PROVE FALSE
  BY <1>1, <1>10 DEF Restart, RestartNode, Configure, ConfigureNode, JoinedFirst, Reliable, AllDone
<1>11. ASSUME UNCHANGED <<net, auction_items, received_from, results, configured, running, self_goals>>
       PROVE  JoinedFirst' /\ BidsKept
  BY <1>11, IdleKeepsBids DEF JoinedFirst
<1>12. ASSUME NEW n \in Agent, RunWaiting(n) \/ ((Pause(n) \/ Resume(n)) /\ UNCHANGED greedyVars)
       PROVE  UNCHANGED <<net, auction_items, received_from, results, configured, running, self_goals>>
  BY <1>12 DEF RunWaiting, Pause, PauseNode, Resume, ResumeNode, vars, netVars, nodeVars, roleVars,
     serverVars, pluginVars, baseVars, greedyVars
<1>13. ASSUME NEW a \in Auction, RefuseActivation(a), UNCHANGED greedyVars
       PROVE  UNCHANGED <<net, auction_items, received_from, results, configured, running, self_goals>>
  BY <1>13 DEF RefuseActivation, RejectGoal, netVars, serverVars, baseVars, greedyVars
<1>14. ASSUME UNCHANGED vars
       PROVE  UNCHANGED <<net, auction_items, received_from, results, configured, running, self_goals>>
  BY <1>14 DEF vars, netVars, nodeVars, roleVars, serverVars, pluginVars, baseVars, greedyVars
<1> QED
  BY <1>3, <1>4, <1>5, <1>6, <1>7, <1>8, <1>9, <1>10, <1>11, <1>12, <1>13, <1>14
  DEF Next, Handle, Ignore, OnRun, Environment

\* While a node is in the auction, the bid of everyone who joined it is on its
\* way to it or counted, however early it came.
THEOREM BidAlwaysConserved ==
    ASSUME OneAuction, Reliable PROVE Spec => []BidConserved
<1>1. Init => JoinedFirst /\ BidsHeld
  BY DEF Init, NodeInit, PluginInit, JoinedFirst, BidsHeld, Reliable, Ended
<1> QED
  BY <1>1, TypeInvInit, TypeInvNext, JoinsOnceInit, JoinsOnceNext, ConservedNext, KeptHolds,
     HeldConserves, PTL DEF Spec

-----------------------------------------------------------------------------
(***************************************************************************)
(* Auctions in turn.  What holds of one auction holds of any number of     *)
(* them as long as missions wait for a quiet fleet and nobody is stopped   *)
(* or started again: then the quiet fleet has forgotten the last auction,  *)
(* and until it is quiet again every node is in the same one.  Messages    *)
(* may still be lost, reordered or dropped, and plugins may not load; an   *)
(* auction that hangs for it is simply the last.                           *)
(***************************************************************************)
SerialMissions ==
    /\ Serial
    /\ Requests \subseteq {"pause"}
    /\ \A a \in Auction : Auctioneer[a] \in Bidders[a]

\* Node n has joined, or opened, auction a.
In(n, a) == self_goals[n] # <<>> \/ running[n] \/ Ended(n, a)

\* At most one message of each kind is on its way on a channel.
Once(nt) == \A c \in Channel : \A j, k \in DOMAIN nt[c] :
    nt[c][j].kind = nt[c][k].kind => j = k

\* What may be on its way on channel c while a is auctioned: an invitation to
\* a node that has not joined, a bid its receiver has yet to count.
Told(a, c, m) ==
    /\ c[1] # c[2] /\ c[1] \in Bidders[a] /\ c[2] \in Bidders[a]
    /\ \/ m = StartAuction(a) /\ c[1] = Auctioneer[a] /\ ~ In(c[2], a)
       \/ /\ m = Bid(CostsFor(a, c[1])) /\ In(c[1], a)
          /\ c[1] \notin received_from[c[2]] /\ ~ Ended(c[2], a)

\* How far node n has got with auction a: not in it, waiting for its
\* self-goal, executing, or done.
Position(n, a) ==
    /\ self_goals[n] \in {<<>>, <<a>>}
    /\ is_participant[n] <=> self_goals[n] # <<>>
    /\ running[n] => self_goals[n] = <<>> /\ goal[n] = a
    /\ In(n, a) => n \in Bidders[a] /\ TypeOf[a] \in Installed[n]
    /\ Ended(n, a) => /\ ~ running[n] /\ self_goals[n] = <<>>
                      /\ \A s \in Bidders[a] : In(s, a)

\* What node n holds: its own costs of auction a as long as it is in it, and
\* those of the bidders it has heard from, of whom it forgets when it is done.
Holding(n, a) ==
    /\ running[n] \/ self_goals[n] # <<>> =>
          auction_items[n] = ItemsOf[a] /\ participants[n] = Bidders[a] /\ my_costs[n] = CostsFor(a, n)
    /\ ~ running[n] /\ self_goals[n] = <<>> => auction_items[n] = {} /\ my_costs[n] = NoCosts
    /\ \A s \in Agent : received_bids[n][s] = IF s \in received_from[n] THEN CostsFor(a, s) ELSE NoCosts
    /\ \A s \in received_from[n] : s # n /\ In(s, a)
    /\ n \notin Bidders[a] \/ Ended(n, a) => received_from[n] = {}

Stage(a) ==
    /\ \A c \in Channel : \A m \in InFlight(net, c) : Told(a, c, m)
    /\ Once(net)
    /\ \A n \in Agent : Position(n, a) /\ Holding(n, a)

\* Nothing of an auction is left.
Calm ==
    /\ Quiet
    /\ \A n \in Agent :
          /\ ~ is_participant[n]
          /\ auction_items[n] = {} /\ my_costs[n] = NoCosts
          /\ received_from[n] = {} /\ \A s \in Agent : received_bids[n][s] = NoCosts

\* What was reported is right, of a submitted auction, and joined by all.
Outcomes ==
    /\ CheapestWins
    /\ FailureJustified
    /\ AllOrNothing
    /\ \A r \in results : r.auction \in submitted

\* Whatever is loaded is installed.
LoadedInstalled == \A n \in Agent : loaded_item_type[n] \in Installed[n] \cup {NoType}

Staged == Calm \/ \E a \in submitted : Stage(a)

SerialInv ==
    /\ TypeInv
    /\ AssignmentFresh
    /\ Outcomes
    /\ LoadedInstalled
    /\ Staged

-----------------------------------------------------------------------------
LEMMA OnceForward ==
    ASSUME NEW nt \in [Channel -> Seq(Message)], Once(nt), NEW s, NEW dests, NEW m \in Message,
           \A c \in Channel : c[1] = s /\ c[2] \in dests =>
              \A x \in InFlight(nt, c) : x.kind # m.kind
    PROVE  Once(Forward(nt, s, dests, m))
<1> SUFFICES ASSUME NEW c \in Channel, NEW j \in DOMAIN Forward(nt, s, dests, m)[c],
                    NEW k \in DOMAIN Forward(nt, s, dests, m)[c],
                    Forward(nt, s, dests, m)[c][j].kind = Forward(nt, s, dests, m)[c][k].kind
             PROVE  j = k
  BY DEF Once
<1>1. CASE c[1] = s /\ c[2] \in dests /\ c[2] # s
  <2> DEFINE q == nt[c]
  <2>1. Forward(nt, s, dests, m)[c] = Append(q, m)
    BY <1>1 DEF Forward
  <2>2. q \in Seq(Message) /\ \A i \in DOMAIN q : q[i].kind # m.kind
    BY <1>1 DEF InFlight
  <2>3. \A i, h \in DOMAIN q : q[i].kind = q[h].kind => i = h
    BY DEF Once
  <2> HIDE DEF q
  <2>4. /\ DOMAIN q = 1..Len(q) /\ Len(q) \in Nat /\ DOMAIN Append(q, m) = 1..(Len(q) + 1)
        /\ \A i \in 1..Len(q) : Append(q, m)[i] = q[i]
        /\ Append(q, m)[Len(q) + 1] = m
    BY <2>2
  <2>5. \A i \in 1..(Len(q) + 1) : i \in 1..Len(q) \/ i = Len(q) + 1
    BY <2>4
  <2> QED  BY <2>1, <2>2, <2>3, <2>4, <2>5
<1>2. CASE ~ (c[1] = s /\ c[2] \in dests /\ c[2] # s)
  BY <1>2 DEF Forward, Once
<1> QED  BY <1>1, <1>2

\* What is taken off a channel was the only one of its kind.
LEMMA OnceWithout ==
    ASSUME net \in [Channel -> Seq(Message)], Once(net), NEW c \in Channel, NEW k \in DOMAIN net[c]
    PROVE  /\ Once(Without(c, k))
           /\ \A x \in InFlight(Without(c, k), c) : x.kind # net[c][k].kind
<1> DEFINE q == net[c]
           at(j) == IF j < k THEN j ELSE j + 1
<1>1. Without(c, k)[c] = RemoveAt(q, k) /\ \A d \in Channel \ {c} : Without(c, k)[d] = net[d]
  BY DEF Without
<1>2. q \in Seq(Message) /\ DOMAIN q = 1..Len(q) /\ Len(q) \in Nat /\ k \in 1..Len(q)
  OBVIOUS
<1>3. \A i, h \in DOMAIN q : q[i].kind = q[h].kind => i = h
  BY DEF Once
<1> HIDE DEF q
<1>4. /\ DOMAIN RemoveAt(q, k) = 1..(Len(q) - 1)
      /\ \A j \in 1..(Len(q) - 1) : RemoveAt(q, k)[j] = q[at(j)]
  <2>1. k \in DOMAIN q
    BY <1>2
  <2>2. /\ DOMAIN RemoveAt(q, k) = 1..(Len(q) - 1)
        /\ \A j \in 1..(Len(q) - 1) : RemoveAt(q, k)[j] = IF j < k THEN q[j] ELSE q[j + 1]
    BY <1>2, <2>1, RemoveAtFacts
  <2> QED  BY <2>2
<1>5. \A j \in 1..(Len(q) - 1) : at(j) \in 1..Len(q) /\ at(j) # k
  BY <1>2
<1>6. \A j, h \in 1..(Len(q) - 1) : at(j) = at(h) => j = h
  BY <1>2
<1> HIDE DEF at
<1>7. Once(Without(c, k))
  <2>1. ASSUME NEW j \in 1..(Len(q) - 1), NEW h \in 1..(Len(q) - 1),
               RemoveAt(q, k)[j].kind = RemoveAt(q, k)[h].kind
        PROVE  j = h
    BY <1>2, <1>3, <1>4, <1>5, <1>6, <2>1
  <2>2. \A j, h \in DOMAIN Without(c, k)[c] :
          Without(c, k)[c][j].kind = Without(c, k)[c][h].kind => j = h
    BY <1>1, <1>4, <2>1
  <2> QED  BY <1>1, <2>2 DEF Once
<1>8. \A j \in 1..(Len(q) - 1) : RemoveAt(q, k)[j].kind # q[k].kind
  BY <1>2, <1>3, <1>4, <1>5
<1>9. \A x \in InFlight(Without(c, k), c) : x.kind # q[k].kind
  BY <1>1, <1>4, <1>8 DEF InFlight
<1> QED  BY <1>7, <1>9 DEF q

-----------------------------------------------------------------------------
stageVars == <<self_goals, running, results, is_participant, goal, auction_items, participants,
               my_costs, received_bids, received_from>>

LEMMA StageTypes ==
    ASSUME TypeInv
    PROVE  /\ cost \in CostTable /\ net \in [Channel -> Seq(Message)] /\ PluginTypeOK
           /\ self_goals \in [Agent -> Seq(Auction)] /\ running \in [Agent -> BOOLEAN]
           /\ is_participant \in [Agent -> BOOLEAN] /\ goal \in [Agent -> Auction \cup {NoName}]
           /\ loaded_item_type \in [Agent -> ItemType \cup {NoType}]
BY DEF TypeInv, TypeOK, NodeTypeOK

\* Nodes are where they were; messages may be gone.
LEMMA StageIdle ==
    ASSUME NEW a \in Auction, Stage(a), cost' = cost, UNCHANGED stageVars,
           \A c \in Channel : InFlight(net', c) \subseteq InFlight(net, c), Once(net')
    PROVE  Stage(a)'
<1>1. /\ \A b, s : CostsFor(b, s)' = CostsFor(b, s)
      /\ \A n : Ended(n, a)' <=> Ended(n, a)
      /\ \A n : In(n, a)' <=> In(n, a)
  BY CostsForStable DEF stageVars, Ended, In
<1>2. \A c, m : Told(a, c, m)' <=> Told(a, c, m)
  BY <1>1 DEF Told, stageVars
<1>3. \A c \in Channel : \A m \in InFlight(net', c) : Told(a, c, m)'
  BY <1>2 DEF Stage
<1>4. ASSUME NEW n \in Agent PROVE Position(n, a)' /\ Holding(n, a)'
  <2>1. Position(n, a) /\ Holding(n, a)
    BY DEF Stage
  <2>2. Position(n, a)'
    BY <1>1, <2>1 DEF Position, stageVars
  <2>3. Holding(n, a)'
    BY <1>1, <2>1 DEF Holding, stageVars
  <2> QED  BY <2>2, <2>3
<1> QED  BY <1>3, <1>4 DEF Stage, InFlight, Once

\* A message is lost, dropped or ignored.
LEMMA StageTake ==
    ASSUME TypeInv, NEW a \in Auction, Stage(a), cost' = cost, UNCHANGED stageVars,
           NEW c \in Channel, NEW k \in DOMAIN net[c], net' = Without(c, k)
    PROVE  Stage(a)'
<1>1. Once(net') /\ \A d \in Channel : InFlight(net', d) \subseteq InFlight(net, d)
  BY StageTypes, OnceWithout, WithoutInFlight DEF Stage
<1> QED  BY <1>1, StageIdle

LEMMA StageHear ==
    ASSUME TypeInv, NEW a \in Auction, Stage(a), NEW s \in Agent, NEW n \in Agent, HandleBid(s, n)
    PROVE  Stage(a)'
<1> DEFINE c == <<s, n>>
<1>1. PICK k \in DOMAIN net[c] :
        /\ net[c][k].kind = "bid"
        /\ OnBidReceived(n, s, net[c][k].payload)
        /\ net' = Without(c, k)
  BY DEF HandleBid, Deliverable
<1> DEFINE m == net[c][k]
<1>2. /\ cost' = cost /\ UNCHANGED <<self_goals, running, results, is_participant, goal>>
      /\ UNCHANGED <<auction_items, participants, my_costs>> /\ c \in Channel
  BY DEF HandleBid, OnBidReceived, nodeVars, roleVars, serverVars, baseVars, Channel
<1>3. Told(a, c, m)
  BY <1>2 DEF Stage, InFlight
<1>4. /\ m = Bid(CostsFor(a, s)) /\ In(s, a) /\ s # n
      /\ s \notin received_from[n] /\ ~ Ended(n, a) /\ n \in Bidders[a]
  BY <1>1, <1>3 DEF Told, StartAuction
<1>5. /\ PluginTypeOK /\ net \in [Channel -> Seq(Message)]
      /\ \A x \in Agent : Position(x, a) /\ Holding(x, a)
  BY StageTypes DEF Stage
<1>6. Overwrite(received_bids[n][s], CostsFor(a, s)) = CostsFor(a, s)
  <2>1. received_bids[n][s] = NoCosts
    BY <1>4, <1>5 DEF Holding
  <2> QED  BY <2>1, OverwriteCosts
<1>7. /\ received_from' = [received_from EXCEPT ![n] = @ \cup {s}]
      /\ received_bids' = [received_bids EXCEPT ![n][s] = CostsFor(a, s)]
  <2>1. OnBidReceived(n, s, CostsFor(a, s))
    BY <1>1, <1>4 DEF Bid
  <2> QED  BY <1>6, <2>1 DEF OnBidReceived
<1>8. /\ \A b, x : CostsFor(b, x)' = CostsFor(b, x)
      /\ \A x : Ended(x, a)' <=> Ended(x, a)
      /\ \A x : In(x, a)' <=> In(x, a)
  BY <1>2, CostsForStable DEF Ended, In
<1>9. Once(net') /\ \A x \in InFlight(net', c) : x.kind # "bid"
  BY <1>1, <1>2, <1>5, OnceWithout DEF Stage
<1>10. ASSUME NEW d \in Channel, NEW x \in InFlight(net', d) PROVE Told(a, d, x)'
  <2>1. Told(a, d, x)
    BY <1>1, <1>2, <1>5, WithoutInFlight DEF Stage
  <2>2. x = StartAuction(a) \/ d[1] \notin received_from'[d[2]]
    <3>1. CASE d = c
      BY <1>9, <1>10, <2>1, <3>1 DEF Told, Bid
    <3>2. CASE d # c
      BY <1>5, <1>7, <2>1, <3>2 DEF Told, PluginTypeOK, Channel
    <3> QED  BY <3>1, <3>2
  <2> QED  BY <1>8, <2>1, <2>2 DEF Told, StartAuction, Bid
<1>11. ASSUME NEW x \in Agent PROVE Position(x, a)' /\ Holding(x, a)'
  <2>1. Position(x, a) /\ Holding(x, a)
    BY <1>5
  <2>2. Position(x, a)'
    BY <1>2, <1>8, <2>1 DEF Position
  <2>3. /\ \A y \in Agent : received_bids'[x][y] =
             IF y \in received_from'[x] THEN CostsFor(a, y) ELSE NoCosts
        /\ \A y \in received_from'[x] : y # x /\ In(y, a)
        /\ x \notin Bidders[a] \/ Ended(x, a) => received_from'[x] = {}
    <3>1. CASE x = n
      BY <1>4, <1>5, <1>7, <2>1, <3>1 DEF Holding, PluginTypeOK
    <3>2. CASE x # n
      BY <1>5, <1>7, <2>1, <3>2 DEF Holding, PluginTypeOK
    <3> QED  BY <3>1, <3>2
  <2>4. Holding(x, a)'
    BY <1>2, <1>8, <2>1, <2>3 DEF Holding
  <2> QED  BY <2>2, <2>4
<1> QED  BY <1>9, <1>10, <1>11 DEF Stage, InFlight, Once

LEMMA BroadcastInFlight ==
    ASSUME NEW nt \in [Channel -> Seq(Message)], NEW n \in Agent, NEW a \in Auction,
           NEW c \in Channel, NEW m \in InFlight(BroadcastBid(nt, n, a), c)
    PROVE  m \in InFlight(nt, c) \/ (/\ m = Bid(CostsFor(a, n)) /\ c[1] = n
                                     /\ c[2] \in Bidders[a] /\ c[2] # n)
BY ForwardInFlight DEF BroadcastBid, SendBid

\* A node that joins is heard of by nobody yet, and asked by nobody else.
LEMMA StageJoin ==
    ASSUME TypeInv, NEW a \in Auction, Stage(a), NEW s \in Agent, NEW n \in Agent, HandleStart(s, n),
           loaded_item_type[n] \in Installed[n] \cup {NoType}
    PROVE  Stage(a)'
<1> DEFINE c == <<s, n>>
<1>1. PICK k \in DOMAIN net[c] :
        /\ net[c][k].kind = "start"
        /\ JoinAuction(n, net[c][k].auction)
        /\ OnAuctionItemsReceived(n, net[c][k].auction)
        /\ net' = BroadcastBid(Without(c, k), n, net[c][k].auction)
        /\ cost' = cost
  BY DEF HandleStart, Deliverable
<1> DEFINE m == net[c][k]
           left == Without(c, k)
<1>2. c \in Channel /\ Told(a, c, m)
  BY DEF Stage, InFlight, Channel
<1>3. m = StartAuction(a) /\ s = Auctioneer[a] /\ ~ In(n, a) /\ n \in Bidders[a]
  BY <1>1, <1>2 DEF Told, Bid
<1>4. /\ PluginTypeOK /\ net \in [Channel -> Seq(Message)] /\ cost \in CostTable
      /\ self_goals \in [Agent -> Seq(Auction)] /\ is_participant \in [Agent -> BOOLEAN]
      /\ \A x \in Agent : Position(x, a) /\ Holding(x, a)
      /\ Bidders[a] \subseteq Agent /\ Bid(CostsFor(a, n)) \in Message
  <2>1. /\ PluginTypeOK /\ net \in [Channel -> Seq(Message)] /\ cost \in CostTable
        /\ self_goals \in [Agent -> Seq(Auction)] /\ is_participant \in [Agent -> BOOLEAN]
    BY StageTypes
  <2> QED  BY <2>1, CostsForType, GoalAssumption DEF Stage, Bid, Message
<1>5. JoinAuction(n, a) /\ OnAuctionItemsReceived(n, a) /\ net' = BroadcastBid(left, n, a)
  BY <1>1, <1>3 DEF StartAuction
<1>6. ~ running[n] /\ self_goals[n] = <<>> /\ my_costs[n] = NoCosts
  BY <1>3, <1>4 DEF In, Holding
<1>7. Overwrite(my_costs[n], CostsFor(a, n)) = CostsFor(a, n)
  BY <1>6, OverwriteCosts
<1>8. /\ self_goals' = [self_goals EXCEPT ![n] = <<a>>]
      /\ is_participant' = [is_participant EXCEPT ![n] = TRUE]
      /\ UNCHANGED <<running, goal, results, received_from, received_bids>>
      /\ auction_items' = [auction_items EXCEPT ![n] = ItemsOf[a]]
      /\ participants' = [participants EXCEPT ![n] = Bidders[a]]
      /\ my_costs' = [my_costs EXCEPT ![n] = CostsFor(a, n)]
      /\ TypeOf[a] \in Installed[n]
  <2>1. Append(self_goals[n], a) = <<a>>
    BY <1>6
  <2>2. TypeOf[a] \in Installed[n]
    BY <1>5, GoalAssumption, NodeAssumption DEF JoinAuction, LoadItemPlugin, Loadable
  <2> QED
    BY <1>5, <1>7, <2>1, <2>2 DEF JoinAuction, serverVars, OnAuctionItemsReceived, BeginAuction
<1>9. /\ \A b, x : CostsFor(b, x)' = CostsFor(b, x)
      /\ \A x : Ended(x, a)' <=> Ended(x, a)
      /\ \A x \in Agent : In(x, a)' <=> In(x, a) \/ x = n
  <2>1. \A b, x : CostsFor(b, x)' = CostsFor(b, x)
    BY <1>1, CostsForStable
  <2>2. \A x : Ended(x, a)' <=> Ended(x, a)
    BY <1>8 DEF Ended
  <2>3. \A x \in Agent : self_goals'[x] # <<>> <=> self_goals[x] # <<>> \/ x = n
    BY <1>4, <1>8
  <2> QED  BY <1>8, <2>1, <2>2, <2>3 DEF In
<1>10. /\ Once(left) /\ left \in [Channel -> Seq(Message)]
       /\ \A x \in InFlight(left, c) : x.kind # "start"
       /\ \A d \in Channel : InFlight(left, d) \subseteq InFlight(net, d)
  <2>1. Once(net) /\ net \in [Channel -> Seq(Message)] /\ k \in DOMAIN net[c] /\ c \in Channel
    BY <1>1, <1>2, <1>4 DEF Stage
  <2> HIDE DEF c
  <2>2. left \in [Channel -> Seq(Message)]
    BY <2>1, WithoutType
  <2>3. Once(left) /\ \A x \in InFlight(left, c) : x.kind # net[c][k].kind
    BY <2>1, OnceWithout
  <2>4. \A d \in Channel : InFlight(left, d) \subseteq InFlight(net, d)
    BY <2>1, WithoutInFlight
  <2> QED  BY <1>1, <2>2, <2>3, <2>4
<1> HIDE DEF left, c, m
<1>11. ASSUME NEW d \in Channel, NEW x \in InFlight(left, d) PROVE Told(a, d, x)'
  <2>1. Told(a, d, x)
    BY <1>10 DEF Stage
  <2>2. d[1] \in Agent /\ d[2] \in Agent /\ d = <<d[1], d[2]>>
    BY DEF Channel
  <2>3. x = StartAuction(a) => d[2] # n
    <3> SUFFICES ASSUME x = StartAuction(a), d[2] = n PROVE FALSE
      OBVIOUS
    <3>1. d = c
      BY <1>3, <2>1, <2>2 DEF Told, StartAuction, Bid, c
    <3> QED  BY <1>10, <1>11, <3>1 DEF StartAuction
  <2> QED  BY <1>8, <1>9, <2>1, <2>2, <2>3 DEF Told
<1>12. \A d \in Channel : d[1] = n /\ d[2] \in Bidders[a] =>
          \A x \in InFlight(left, d) : x.kind # Bid(CostsFor(a, n)).kind
  <2> SUFFICES ASSUME NEW d \in Channel, d[1] = n, NEW x \in InFlight(left, d), x.kind = "bid"
               PROVE  FALSE
    BY DEF Bid
  <2>1. Told(a, d, x)
    BY <1>10 DEF Stage
  <2> QED  BY <1>3, <2>1 DEF Told, StartAuction
<1>13. Once(net') /\ \A d \in Channel : \A x \in InFlight(net', d) :
          x \in InFlight(left, d) \/ (/\ x = Bid(CostsFor(a, n)) /\ d[1] = n
                                      /\ d[2] \in Bidders[a] /\ d[2] # n)
  <2>1. ASSUME ItemsOf[a] = {} PROVE Once(net')
    BY <1>5, <1>10, <2>1 DEF BroadcastBid, SendBid
  <2>2. ASSUME ItemsOf[a] # {} PROVE Once(net')
    <3>1. net' = Forward(left, n, Bidders[a], Bid(CostsFor(a, n)))
      BY <1>5, <2>2 DEF BroadcastBid, SendBid
    <3>2. Once(Forward(left, n, Bidders[a], Bid(CostsFor(a, n))))
      BY <1>4, <1>10, <1>12, OnceForward
    <3> QED  BY <3>1, <3>2
  <2>3. \A d \in Channel : \A x \in InFlight(BroadcastBid(left, n, a), d) :
          x \in InFlight(left, d) \/ (/\ x = Bid(CostsFor(a, n)) /\ d[1] = n
                                      /\ d[2] \in Bidders[a] /\ d[2] # n)
    BY <1>10, BroadcastInFlight
  <2> QED  BY <1>5, <2>1, <2>2, <2>3
<1>14. ASSUME NEW d \in Channel, d[1] = n, d[2] \in Bidders[a], d[2] # n
       PROVE  Told(a, d, Bid(CostsFor(a, n)))'
  <2>1. d[2] \in Agent /\ Position(d[2], a) /\ Holding(d[2], a)
    BY <1>4 DEF Channel
  <2>2. ~ Ended(d[2], a) /\ n \notin received_from[d[2]]
    BY <1>3, <2>1 DEF Position, Holding
  <2> QED  BY <1>3, <1>8, <1>9, <1>14, <2>2 DEF Told, Bid
<1>15. ASSUME NEW d \in Channel, NEW x \in InFlight(net', d) PROVE Told(a, d, x)'
  <2>1. CASE x \in InFlight(left, d)
    BY <1>11, <2>1
  <2>2. CASE x = Bid(CostsFor(a, n)) /\ d[1] = n /\ d[2] \in Bidders[a] /\ d[2] # n
    <3>1. Told(a, d, Bid(CostsFor(a, n)))'
      BY <1>14, <2>2
    <3>2. Bid(CostsFor(a, n))' = Bid(CostsFor(a, n))
      BY <1>9 DEF Bid
    <3> QED  BY <2>2, <3>1, <3>2
  <2> QED  BY <1>13, <2>1, <2>2
<1>16. ASSUME NEW x \in Agent PROVE Position(x, a)'
  <2>1. Position(x, a)
    BY <1>4
  <2>2. \A y \in Bidders[a] : In(y, a) => In(y, a)'
    BY <1>4, <1>9
  <2>3. CASE x = n
    <3>1. ~ Ended(n, a)
      BY <1>3 DEF In
    <3>2. self_goals'[n] = <<a>> /\ is_participant'[n] /\ <<a>> # <<>>
      BY <1>4, <1>8
    <3> QED  BY <1>3, <1>6, <1>8, <1>9, <2>3, <3>1, <3>2 DEF Position
  <2>4. CASE x # n
    <3>1. self_goals'[x] = self_goals[x] /\ is_participant'[x] = is_participant[x]
      BY <1>4, <1>8, <2>4
    <3> QED  BY <1>8, <1>9, <2>1, <2>2, <2>4, <3>1 DEF Position
  <2> QED  BY <2>3, <2>4
<1>17. ASSUME NEW x \in Agent PROVE Holding(x, a)'
  <2>1. Holding(x, a) /\ \A y \in received_from[x] : y \in Agent
    BY <1>4 DEF PluginTypeOK
  <2>2. CASE x = n
    <3>1. /\ self_goals'[n] = <<a>> /\ <<a>> # <<>> /\ auction_items'[n] = ItemsOf[a]
          /\ participants'[n] = Bidders[a] /\ my_costs'[n] = CostsFor(a, n)
      BY <1>4, <1>8 DEF PluginTypeOK
    <3> QED  BY <1>8, <1>9, <2>1, <2>2, <3>1 DEF Holding
  <2>3. CASE x # n
    <3>1. /\ self_goals'[x] = self_goals[x] /\ auction_items'[x] = auction_items[x]
          /\ participants'[x] = participants[x] /\ my_costs'[x] = my_costs[x]
      BY <1>4, <1>8, <2>3 DEF PluginTypeOK
    <3> QED  BY <1>8, <1>9, <2>1, <2>3, <3>1 DEF Holding
  <2> QED  BY <2>2, <2>3
<1> QED  BY <1>13, <1>15, <1>16, <1>17 DEF Stage, InFlight, Once

\* The self-goal of a node that joined comes back to it.
LEMMA StageBegin ==
    ASSUME TypeInv, NEW a \in Auction, Stage(a), NEW n \in Agent, SelfGoal(n)
    PROVE  /\ Stage(a)'
           /\ \E name : ActivateNode(n, a, name)
           /\ n \in Bidders[a] /\ ~ Ended(n, a) /\ cost' = cost
<1>1. self_goals[n] # <<>> /\ self_goals' = [self_goals EXCEPT ![n] = Tail(@)]
  BY DEF SelfGoal, ReceiveSelfGoal, RefuseSelfGoal
<1>2. /\ self_goals \in [Agent -> Seq(Auction)] /\ running \in [Agent -> BOOLEAN]
      /\ is_participant \in [Agent -> BOOLEAN] /\ goal \in [Agent -> Auction \cup {NoName}]
      /\ \A x \in Agent : Position(x, a) /\ Holding(x, a)
  BY StageTypes DEF Stage
<1>3. self_goals[n] = <<a>> /\ ~ running[n] /\ is_participant[n] /\ In(n, a) /\ ~ Ended(n, a)
  BY <1>1, <1>2 DEF Position, In
<1>4. ReceiveSelfGoal(n) /\ StartTicking(n)
  BY <1>3 DEF SelfGoal, RefuseSelfGoal, ReceiveSelfGoal, Activate, OpenAuction
<1>5. Head(self_goals[n]) = a /\ Tail(self_goals[n]) = <<>>
  BY <1>3
<1>6. /\ running' = [running EXCEPT ![n] = TRUE] /\ goal' = [goal EXCEPT ![n] = a]
      /\ is_participant' = [is_participant EXCEPT ![n] = FALSE]
      /\ self_goals' = [self_goals EXCEPT ![n] = <<>>]
      /\ UNCHANGED <<results, cost, net>>
      /\ UNCHANGED <<auction_items, participants, my_costs, received_bids, received_from>>
  BY <1>1, <1>4, <1>5 DEF ReceiveSelfGoal, Activate, ActivateNode, AnnounceStart, StartTicking,
     netVars, pluginVars, baseVars, greedyVars
<1>7. /\ \A b, s : CostsFor(b, s)' = CostsFor(b, s)
      /\ \A x : Ended(x, a)' <=> Ended(x, a)
      /\ \A x \in Agent : In(x, a)' <=> In(x, a)
  <2>1. \A x : Ended(x, a)' <=> Ended(x, a)
    BY <1>6 DEF Ended
  <2>2. ASSUME NEW x \in Agent
        PROVE  self_goals'[x] # <<>> \/ running'[x] <=> self_goals[x] # <<>> \/ running[x]
    <3>1. CASE x = n
      BY <1>1, <1>2, <1>6, <3>1
    <3>2. CASE x # n
      BY <1>2, <1>6, <3>2
    <3> QED  BY <3>1, <3>2
  <2> QED  BY <1>6, <2>1, <2>2, CostsForStable DEF In
<1>8. ASSUME NEW c \in Channel, NEW m \in InFlight(net, c) PROVE Told(a, c, m)'
  <2>1. Told(a, c, m) /\ c[1] \in Agent /\ c[2] \in Agent
    BY DEF Stage, Channel
  <2> QED  BY <1>6, <1>7, <2>1 DEF Told
<1>9. ASSUME NEW x \in Agent PROVE Position(x, a)' /\ Holding(x, a)'
  <2>1. /\ Position(x, a) /\ Holding(x, a) /\ Bidders[a] \subseteq Agent
        /\ \A s \in received_from[x] : s \in Agent
    BY <1>2, GoalAssumption, StageTypes DEF PluginTypeOK
  <2>2. CASE x = n
    <3>1. running'[n] /\ self_goals'[n] = <<>> /\ ~ is_participant'[n] /\ goal'[n] = a
      BY <1>2, <1>6
    <3>2. Position(n, a)'
      BY <1>2, <1>3, <1>7, <3>1 DEF Position
    <3>3. Holding(n, a)'
      <4>1. /\ auction_items[n] = ItemsOf[a] /\ participants[n] = Bidders[a]
            /\ my_costs[n] = CostsFor(a, n)
        BY <1>1, <2>1, <2>2 DEF Holding
      <4>2. /\ \A s \in Agent : received_bids[n][s] =
                  IF s \in received_from[n] THEN CostsFor(a, s) ELSE NoCosts
            /\ \A s \in received_from[n] : s \in Agent /\ s # n /\ In(s, a)
            /\ n \notin Bidders[a] \/ Ended(n, a) => received_from[n] = {}
        BY <2>1, <2>2 DEF Holding
      <4> QED  BY <1>6, <1>7, <3>1, <4>1, <4>2 DEF Holding
    <3> QED  BY <2>2, <3>2, <3>3
  <2>3. CASE x # n
    <3>1. /\ running'[x] = running[x] /\ self_goals'[x] = self_goals[x]
          /\ is_participant'[x] = is_participant[x] /\ goal'[x] = goal[x]
      BY <1>2, <1>6, <2>3
    <3>2. Position(x, a)'
      BY <1>7, <2>1, <3>1 DEF Position
    <3>3. Holding(x, a)'
      BY <1>6, <1>7, <2>1, <3>1 DEF Holding
    <3> QED  BY <3>2, <3>3
  <2> QED  BY <2>2, <2>3
<1>10. Once(net)'
  BY <1>6 DEF Stage, Once
<1>11. \A c \in Channel : \A m \in InFlight(net, c)' : Told(a, c, m)'
  BY <1>6, <1>8 DEF InFlight
<1>12. n \in Bidders[a] /\ \E name : ActivateNode(n, a, name)
  BY <1>2, <1>3, <1>4, <1>5 DEF Position, ReceiveSelfGoal, Activate
<1> QED  BY <1>3, <1>6, <1>9, <1>10, <1>11, <1>12 DEF Stage

\* A node that converges in the stage holds every offer, and no bid is left
\* for it.
LEMMA StageConverged ==
    ASSUME NEW a \in Auction, Stage(a), NEW n \in Agent, running[n], CheckConvergence(n)
    PROVE  /\ goal[n] = a /\ HoldsOffers(n, a) /\ ~ Ended(n, a)
           /\ \A s \in Bidders[a] : In(s, a)
           /\ \A c \in Channel : c[2] = n => \A m \in InFlight(net, c) : m = StartAuction(a)
<1>1. Position(n, a) /\ Holding(n, a) /\ In(n, a)
  BY DEF Stage, In
<1>2. /\ goal[n] = a /\ ~ Ended(n, a) /\ n \in Bidders[a]
      /\ auction_items[n] = ItemsOf[a] /\ participants[n] = Bidders[a] /\ my_costs[n] = CostsFor(a, n)
  BY <1>1 DEF Position, Holding
<1>3. Bidders[a] \ {n} \subseteq received_from[n] /\ Bidders[a] \subseteq Agent
  BY <1>2, GoalAssumption DEF CheckConvergence, HeardAllPeers
<1>4. \A s \in Bidders[a] \ {n} : received_bids[n][s] = CostsFor(a, s) /\ In(s, a)
  BY <1>1, <1>3 DEF Holding
<1>5. ASSUME NEW c \in Channel, c[2] = n, NEW m \in InFlight(net, c) PROVE m = StartAuction(a)
  <2>1. Told(a, c, m)
    BY DEF Stage
  <2> QED  BY <1>3, <1>5, <2>1 DEF Told
<1> QED  BY <1>1, <1>2, <1>4, <1>5 DEF HoldsOffers

LEMMA StageEnd ==
    ASSUME TypeInv, NEW a \in Auction, Stage(a), NEW n \in Agent, RunSuccess(n) \/ RunFailure(n)
    PROVE  Stage(a)'
<1>1. running[n] /\ CheckConvergence(n)
  BY DEF RunSuccess, RunFailure, Ticking, Converged
<1>2. /\ goal[n] = a /\ ~ Ended(n, a) /\ \A s \in Bidders[a] : In(s, a)
      /\ \A c \in Channel : c[2] = n => \A m \in InFlight(net, c) : m = StartAuction(a)
  BY <1>1, StageConverged
<1>3. PICK status, w : Report(n, status, w)
  BY DEF RunSuccess, EndSuccess, RunFailure, EndFailure
<1>4. /\ running' = [running EXCEPT ![n] = FALSE]
      /\ UNCHANGED <<is_participant, goal, self_goals, participants, cost, net>> /\ Clear(n)
  BY DEF RunSuccess, EndSuccess, RunFailure, EndFailure, roleVars, netVars, Reset
<1>5. /\ PluginTypeOK /\ running \in [Agent -> BOOLEAN]
      /\ \A x \in Agent : Position(x, a) /\ Holding(x, a)
  BY StageTypes DEF Stage
<1>6. /\ \A b, s : CostsFor(b, s)' = CostsFor(b, s)
      /\ \A x : Ended(x, a)' <=> Ended(x, a) \/ x = n
      /\ \A x \in Agent : In(x, a)' <=> In(x, a)
  <2> DEFINE ended == [by |-> n, auction |-> a, status |-> status, winners |-> w]
  <2>1. results' = results \cup {ended} /\ ended.by = n /\ ended.auction = a
    BY <1>2, <1>3 DEF Report
  <2> HIDE DEF ended
  <2>2. \A x : Ended(x, a)' <=> Ended(x, a) \/ x = n
    BY <2>1 DEF Ended
  <2>3. \A x \in Agent : running'[x] <=> running[x] /\ x # n
    BY <1>4, <1>5
  <2> QED  BY <1>1, <1>4, <2>2, <2>3, CostsForStable DEF In
<1>7. /\ \A x \in Agent \ {n} :
            /\ running'[x] = running[x] /\ auction_items'[x] = auction_items[x]
            /\ my_costs'[x] = my_costs[x] /\ received_bids'[x] = received_bids[x]
            /\ received_from'[x] = received_from[x]
      /\ ~ running'[n] /\ auction_items'[n] = {} /\ my_costs'[n] = NoCosts
      /\ received_from'[n] = {} /\ \A s \in Agent : received_bids'[n][s] = NoCosts
  BY <1>4, <1>5 DEF Clear, PluginTypeOK
<1>8. ASSUME NEW c \in Channel, NEW m \in InFlight(net, c) PROVE Told(a, c, m)'
  <2>1. Told(a, c, m) /\ c[1] \in Agent /\ c[2] \in Agent
    BY DEF Stage, Channel
  <2>2. CASE c[2] = n
    BY <1>2, <1>6, <2>1, <2>2, <1>8 DEF Told, StartAuction, Bid
  <2>3. CASE c[2] # n
    BY <1>4, <1>6, <1>7, <2>1, <2>3 DEF Told
  <2> QED  BY <2>2, <2>3
<1>9. ASSUME NEW x \in Agent PROVE Position(x, a)' /\ Holding(x, a)'
  <2>1. /\ Position(x, a) /\ Holding(x, a) /\ Bidders[a] \subseteq Agent
        /\ \A s \in received_from[x] : s \in Agent
    BY <1>5, GoalAssumption DEF PluginTypeOK
  <2>2. CASE x = n
    <3>1. self_goals[n] = <<>>
      BY <1>1, <2>1, <2>2 DEF Position
    <3>2. Position(n, a)'
      BY <1>2, <1>4, <1>6, <1>7, <2>1, <2>2, <3>1 DEF Position
    <3>3. Holding(n, a)'
      BY <1>4, <1>7, <3>1 DEF Holding
    <3> QED  BY <2>2, <3>2, <3>3
  <2>3. CASE x # n
    <3>2. Position(x, a)'
      BY <1>4, <1>6, <1>7, <2>1, <2>3 DEF Position
    <3>3. Holding(x, a)'
      BY <1>4, <1>6, <1>7, <2>1, <2>3 DEF Holding
    <3> QED  BY <3>2, <3>3
  <2> QED  BY <2>2, <2>3
<1>10. Once(net)'
  BY <1>4 DEF Stage, Once
<1>11. \A c \in Channel : \A m \in InFlight(net, c)' : Told(a, c, m)'
  BY <1>4, <1>8 DEF InFlight
<1> QED  BY <1>9, <1>10, <1>11 DEF Stage

-----------------------------------------------------------------------------
\* When all is quiet whoever joined has ended, and whoever ended waited for
\* every bidder: either all are done and blank, or nobody has heard anything.
LEMMA QuietIsCalm ==
    ASSUME TypeInv, NEW a \in Auction, Stage(a), Quiet
    PROVE  Calm
<1>1. ASSUME NEW n \in Agent
      PROVE  ~ running[n] /\ self_goals[n] = <<>> /\ Position(n, a) /\ Holding(n, a)
  BY DEF Quiet, Stage
<1>2. ASSUME NEW n \in Agent PROVE received_from[n] = {}
  <2> SUFFICES ASSUME NEW s \in received_from[n] PROVE FALSE
    OBVIOUS
  <2>1. s \in Agent /\ In(s, a) /\ n \in Bidders[a] /\ ~ Ended(n, a)
    BY <1>1, StageTypes DEF Holding, PluginTypeOK
  <2>2. Ended(s, a)
    BY <1>1, <2>1 DEF In
  <2>3. In(n, a)
    BY <1>1, <2>1, <2>2 DEF Position
  <2> QED  BY <1>1, <2>1, <2>3 DEF In
<1>3. \A n \in Agent : /\ ~ is_participant[n] /\ auction_items[n] = {} /\ my_costs[n] = NoCosts
                       /\ \A s \in Agent : received_bids[n][s] = NoCosts
  BY <1>1, <1>2 DEF Position, Holding
<1> QED  BY <1>2, <1>3 DEF Calm

\* A mission's goal, once all is quiet, is the start of a stage.
LEMMA StageOpen ==
    ASSUME SerialMissions, TypeInv, Calm, NEW a \in Auction, ReceiveGoal(a),
           \A r \in results : r.auction \in submitted,
           \A n \in Agent : loaded_item_type[n] \in Installed[n] \cup {NoType}
    PROVE  Stage(a)'
<1> DEFINE A == Auctioneer[a]
<1>1. /\ A \in Agent /\ A \in Bidders[a] /\ a \notin submitted /\ Bidders[a] \subseteq Agent
      /\ ActivateNode(A, a, a) /\ UNCHANGED <<self_goals, cost>>
      /\ OpenAuction(A, a) \/ StartTicking(A)
  BY GoalAssumption DEF ReceiveGoal, MaySubmit, Activate, SerialMissions
<1>2. /\ PluginTypeOK /\ net \in [Channel -> Seq(Message)] /\ cost \in CostTable
      /\ running \in [Agent -> BOOLEAN] /\ is_participant \in [Agent -> BOOLEAN]
      /\ goal \in [Agent -> Auction \cup {NoName}]
  BY StageTypes
<1>3. \A n \in Agent : /\ ~ running[n] /\ self_goals[n] = <<>> /\ ~ is_participant[n]
                       /\ auction_items[n] = {} /\ my_costs[n] = NoCosts /\ received_from[n] = {}
                       /\ \A s \in Agent : received_bids[n][s] = NoCosts
  BY DEF Calm, Quiet
<1>4. OpenAuction(A, a)
  BY <1>1, <1>3 DEF StartTicking
<1>5. Overwrite(my_costs[A], CostsFor(a, A)) = CostsFor(a, A)
  BY <1>1, <1>3, OverwriteCosts
<1> DEFINE asked == BroadcastBid(net, A, a)
<1>6. /\ running' = [running EXCEPT ![A] = TRUE] /\ goal' = [goal EXCEPT ![A] = a]
      /\ is_participant' = [is_participant EXCEPT ![A] = FALSE]
      /\ auction_items' = [auction_items EXCEPT ![A] = ItemsOf[a]]
      /\ participants' = [participants EXCEPT ![A] = Bidders[a]]
      /\ my_costs' = [my_costs EXCEPT ![A] = CostsFor(a, A)]
      /\ UNCHANGED <<received_from, received_bids, results>>
      /\ net' = Forward(asked, A, Bidders[a], StartAuction(a))
  BY <1>1, <1>4, <1>5 DEF ActivateNode, AnnounceStart, OpenAuction, OnAuctionItemsReceived, BeginAuction
<1>7. TypeOf[a] \in Installed[A]
  BY <1>1, GoalAssumption, NodeAssumption DEF ActivateNode, LoadItemPlugin, Loadable
<1> HIDE DEF A
<1>8. /\ \A b, s : CostsFor(b, s)' = CostsFor(b, s)
      /\ \A x : ~ Ended(x, a)'
      /\ \A x \in Agent : In(x, a)' <=> x = A
  <2>1. \A x : ~ Ended(x, a)'
    BY <1>1, <1>6 DEF Ended
  <2>2. \A x \in Agent : running'[x] <=> x = A
    BY <1>1, <1>2, <1>3, <1>6
  <2> QED  BY <1>1, <1>3, <2>1, <2>2, CostsForStable DEF In
<1>9. /\ \A c \in Channel : InFlight(net, c) = {} /\ net[c] = <<>>
      /\ asked \in [Channel -> Seq(Message)]
  <2>1. asked \in [Channel -> Seq(Message)]
    BY <1>1, <1>2, BroadcastBidType
  <2> QED  BY <2>1 DEF Calm, Quiet, InFlight
<1>10. \A c \in Channel : \A m \in InFlight(asked, c) :
          m = Bid(CostsFor(a, A)) /\ c[1] = A /\ c[2] \in Bidders[a] /\ c[2] # A
  BY <1>1, <1>2, <1>9, BroadcastInFlight
<1>11. Once(asked)
  <2>1. Once(net)
    BY <1>9 DEF Once
  <2>2. Bid(CostsFor(a, A)) \in Message
    BY <1>1, <1>2, CostsForType DEF Bid, Message
  <2>3. Once(Forward(net, A, Bidders[a], Bid(CostsFor(a, A))))
    BY <1>2, <1>9, <2>1, <2>2, OnceForward
  <2> QED  BY <2>1, <2>3 DEF BroadcastBid, SendBid
<1> HIDE DEF asked
<1>12. Once(net')
  <2>1. StartAuction(a) \in Message /\ \A c \in Channel : \A m \in InFlight(asked, c) :
           m.kind # StartAuction(a).kind
    BY <1>10 DEF StartAuction, Message, Bid
  <2> QED  BY <1>6, <1>9, <1>11, <2>1, OnceForward
<1>13. \A c \in Channel : \A m \in InFlight(net', c) :
          /\ m = Bid(CostsFor(a, A)) \/ m = StartAuction(a)
          /\ c[1] = A /\ c[2] \in Bidders[a] /\ c[2] # A
  BY <1>6, <1>9, <1>10, ForwardInFlight
<1>14. ASSUME NEW c \in Channel, NEW m \in InFlight(net', c) PROVE Told(a, c, m)'
  <2>1. /\ m = Bid(CostsFor(a, A)) \/ m = StartAuction(a)
        /\ c[1] = A /\ c[2] \in Bidders[a] /\ c[2] # A /\ c[2] \in Agent
    BY <1>1, <1>13
  <2>2. received_from'[c[2]] = {}
    BY <1>3, <1>6, <2>1
  <2>3. /\ Bid(CostsFor(a, A))' = Bid(CostsFor(a, A)) /\ StartAuction(a)' = StartAuction(a)
        /\ A = Auctioneer[a] /\ c[1] \in Bidders[a]
    BY <1>1, <1>8, <2>1 DEF Bid, StartAuction, A
  <2> QED  BY <1>1, <1>8, <2>1, <2>2, <2>3 DEF Told
<1>15. ASSUME NEW x \in Agent PROVE Position(x, a)' /\ Holding(x, a)'
  <2>1. CASE x = A
    <3>1. /\ running'[x] /\ goal'[x] = a /\ ~ is_participant'[x] /\ self_goals'[x] = <<>>
          /\ auction_items'[x] = ItemsOf[a] /\ participants'[x] = Bidders[a]
          /\ my_costs'[x] = CostsFor(a, x) /\ received_from'[x] = {}
          /\ \A s \in Agent : received_bids'[x][s] = NoCosts
      BY <1>1, <1>2, <1>3, <1>6, <2>1 DEF PluginTypeOK
    <3>2. Position(x, a)'
      BY <1>1, <1>7, <1>8, <2>1, <3>1 DEF Position
    <3> QED  BY <1>8, <3>1, <3>2 DEF Holding
  <2>2. CASE x # A
    <3>1. /\ ~ running'[x] /\ ~ is_participant'[x] /\ self_goals'[x] = <<>>
          /\ auction_items'[x] = {} /\ my_costs'[x] = NoCosts /\ received_from'[x] = {}
          /\ \A s \in Agent : received_bids'[x][s] = NoCosts
      BY <1>1, <1>2, <1>3, <1>6, <2>2 DEF PluginTypeOK
    <3>2. Position(x, a)'
      BY <1>8, <2>2, <3>1 DEF Position
    <3> QED  BY <1>8, <3>1, <3>2 DEF Holding
  <2> QED  BY <2>1, <2>2
<1> QED  BY <1>12, <1>14, <1>15 DEF Stage, InFlight, Once

LEMMA CalmStays ==
    ASSUME Calm, UNCHANGED <<net, self_goals, running>>,
           UNCHANGED <<auction_items, my_costs, received_from, received_bids>>,
           \A n \in Agent : is_participant'[n] => is_participant[n]
    PROVE  Calm'
BY DEF Calm, Quiet

-----------------------------------------------------------------------------
LEMMA OutcomesStay ==
    ASSUME Outcomes, cost' = cost, UNCHANGED results, submitted \subseteq submitted'
    PROVE  Outcomes'
<1>1. CheapestWins' /\ FailureJustified'
  BY OutcomeStable DEF Outcomes
<1> QED  BY <1>1 DEF Outcomes, AllOrNothing

LEMMA OutcomesAtEnd ==
    ASSUME TypeInv, AssignmentFresh, Outcomes, NEW a \in Auction, a \in submitted, Stage(a),
           NEW n \in Agent, RunSuccess(n) \/ RunFailure(n)
    PROVE  Outcomes' /\ Promise!Next
<1>1. running[n] /\ CheckConvergence(n) /\ UNCHANGED submitted
  BY DEF RunSuccess, RunFailure, Ticking, Converged, EndSuccess, EndFailure
<1>2. goal[n] = a /\ HoldsOffers(n, a) /\ ~ Ended(n, a) /\ \A s \in Bidders[a] : In(s, a)
  BY <1>1, StageConverged
<1>3. CheapestWins' /\ FailureJustified'
  BY <1>2, EndIsRight DEF Outcomes
<1>4. PICK status, w : results' = results \cup {[by |-> n, auction |-> a, status |-> status, winners |-> w]}
  BY <1>2 DEF RunSuccess, RunFailure, EndSuccess, EndFailure, Report
<1>5. \A r \in results' : r \in results \/ r.auction = a
  BY <1>4
<1>6. \A s \in Bidders[a] : TypeOf[a] \in Installed[s]
  BY <1>2, GoalAssumption DEF Stage, Position
<1>7. AllOrNothing' /\ \A r \in results' : r.auction \in submitted'
  BY <1>1, <1>5, <1>6 DEF Outcomes, AllOrNothing
<1>8. Promise!Next
  BY <1>2, EndIsPromised
<1> QED  BY <1>3, <1>7, <1>8 DEF Outcomes

LEMMA LoadKeepsInstalled ==
    ASSUME TypeInv, LoadedInstalled, NEW n \in Agent, NEW t, LoadItemPlugin(n, t)
    PROVE  LoadedInstalled'
BY StageTypes DEF LoadedInstalled, LoadItemPlugin, Loadable

LEMMA SerialInit == Init => SerialInv
<1> SUFFICES ASSUME Init PROVE SerialInv
  OBVIOUS
<1>1. TypeInv
  BY TypeInvInit
<1>2. AssignmentFresh
  BY EmptyResolution DEF Init, PluginInit, AssignmentFresh
<1>3. Calm
  BY DEF Init, PluginInit, NodeInit, Calm, Quiet, Channel
<1> QED
  BY <1>1, <1>2, <1>3
  DEF SerialInv, Outcomes, CheapestWins, FailureJustified, AllOrNothing, LoadedInstalled, Staged,
      Init, NodeInit

\* One case per action.  Nobody is stopped or started again; from a calm
\* fleet only a goal gets anything going.
LEMMA SerialNext ==
    ASSUME SerialMissions
    PROVE  SerialInv /\ [Next]_vars => SerialInv' /\ [Promise!Next]_(Promise!promiseVars)
<1> SUFFICES ASSUME SerialInv, [Next]_vars
             PROVE  SerialInv' /\ [Promise!Next]_(Promise!promiseVars)
  OBVIOUS
<1> DEFINE Same == cost' = cost /\ UNCHANGED results /\ submitted \subseteq submitted'
           Good == /\ Same \/ Outcomes'
                   /\ Bystanding \/ Promise!Next
                   /\ LoadedInstalled' /\ Staged'
<1>1. /\ TypeInv /\ AssignmentFresh /\ Outcomes /\ LoadedInstalled /\ Staged
      /\ submitted \subseteq Auction
  BY DEF SerialInv, TypeInv, TypeOK, NodeTypeOK
<1>2. TypeInv' /\ AssignmentFresh'
  BY <1>1, TypeInvNext, FreshNext
<1>3. ASSUME Quiet PROVE Calm
  BY <1>1, <1>3, QuietIsCalm DEF Staged
<1>4. ASSUME NEW a \in Auction, ReceiveGoal(a) PROVE Good
  <2>1. Same /\ a \in submitted' /\ LoadItemPlugin(Auctioneer[a], TypeOf[a])
    BY <1>4 DEF ReceiveGoal, Activate, ActivateNode
  <2>2. Calm
    BY <1>3, <1>4 DEF ReceiveGoal, MaySubmit, SerialMissions
  <2>3. Stage(a)'
    BY <1>1, <1>4, <2>2, StageOpen DEF Outcomes, LoadedInstalled
  <2>4. LoadedInstalled'
    BY <1>1, <2>1, LoadKeepsInstalled, GoalAssumption
  <2>5. Promise!Next
    <3>1. Auctioneer[a] \in Agent /\ Auctioneer[a] \in Bidders[a]
      BY GoalAssumption DEF SerialMissions
    <3>2. ActivateNode(Auctioneer[a], a, a) /\ a \notin submitted
      BY <1>4 DEF ReceiveGoal, Activate, MaySubmit
    <3>3. ~ Ended(Auctioneer[a], a)
      BY <1>1, <3>2 DEF Outcomes, Ended
    <3> QED  BY <1>1, <2>1, <3>1, <3>2, <3>3, BeginIsPromised
  <2> QED  BY <2>1, <2>3, <2>4, <2>5 DEF Staged
<1>5. ASSUME NEW a \in Auction, RefuseActivation(a), UNCHANGED greedyVars PROVE Good
  <2>1. Calm
    BY <1>3, <1>5 DEF RefuseActivation, MaySubmit, SerialMissions
  <2>2. /\ Same /\ UNCHANGED <<net, self_goals, running, auction_items, loaded_item_type>>
        /\ is_participant' = [is_participant EXCEPT ![Auctioneer[a]] = FALSE]
    BY <1>5 DEF RefuseActivation, RejectGoal, netVars, baseVars, serverVars
  <2>3. \A n \in Agent : is_participant'[n] => is_participant[n]
    BY <1>1, <2>2, StageTypes, GoalAssumption
  <2>4. Calm'
    BY <1>5, <2>1, <2>2, <2>3, CalmStays DEF greedyVars
  <2>5. Bystanding
    BY <1>5, HandlersStandBy
  <2> QED  BY <1>1, <2>2, <2>4, <2>5 DEF Staged, LoadedInstalled
<1>6. ASSUME NEW s \in Agent, NEW n \in Agent, Handle(s, n) \/ (LoseMessage(s, n) /\ UNCHANGED greedyVars)
      PROVE  Good
  <2>1. Same /\ UNCHANGED submitted /\ Bystanding
    <3>1. Same /\ UNCHANGED submitted
      BY <1>6 DEF Handle, HandleStart, JoinAuction, HandleBid, Ignore, HandleStartUnloadable,
         DropUnregistered, LoseMessage, nodeVars
    <3> QED  BY <1>6, <3>1, HandlersStandBy
  <2>2. DOMAIN net[<<s, n>>] # {} /\ <<s, n>> \in Channel
    BY <1>6 DEF Handle, HandleStart, HandleBid, Ignore, HandleStartUnloadable, DropUnregistered,
       LoseMessage, Lose, Deliverable, Channel
  <2>3. PICK a \in submitted : Stage(a)
    BY <1>1, <2>2 DEF Staged, Calm, Quiet
  <2>4. ASSUME HandleStart(s, n) PROVE Stage(a)' /\ LoadedInstalled'
    <3>1. Stage(a)'
      BY <1>1, <2>3, <2>4, StageJoin DEF LoadedInstalled
    <3>2. \E t : LoadItemPlugin(n, t)
      BY <2>4 DEF HandleStart, JoinAuction
    <3> QED  BY <1>1, <3>1, <3>2, LoadKeepsInstalled
  <2>5. ASSUME HandleBid(s, n) PROVE Stage(a)' /\ LoadedInstalled'
    <3>1. Stage(a)'
      BY <1>1, <2>3, <2>5, StageHear
    <3> QED  BY <1>1, <2>5, <3>1 DEF HandleBid, nodeVars, roleVars, LoadedInstalled
  <2>6. ASSUME Ignore(s, n) \/ (LoseMessage(s, n) /\ UNCHANGED greedyVars)
        PROVE  Stage(a)' /\ LoadedInstalled'
    <3>1. /\ \E k \in DOMAIN net[<<s, n>>] : net' = Without(<<s, n>>, k)
          /\ cost' = cost /\ UNCHANGED stageVars /\ UNCHANGED loaded_item_type
      BY <2>6 DEF Ignore, HandleStartUnloadable, DropUnregistered, LoseMessage, Lose, Deliverable,
         stageVars, nodeVars, roleVars, serverVars, baseVars, greedyVars
    <3>2. Stage(a)'
      BY <1>1, <2>2, <2>3, <3>1, StageTake
    <3> QED  BY <1>1, <3>1, <3>2 DEF LoadedInstalled
  <2> QED  BY <1>6, <2>1, <2>3, <2>4, <2>5, <2>6 DEF Handle, Staged
<1>7. ASSUME NEW n \in Agent, SelfGoal(n) PROVE Good
  <2>1. /\ cost' = cost /\ UNCHANGED submitted /\ self_goals[n] # <<>>
        /\ UNCHANGED loaded_item_type \/ \E t : LoadItemPlugin(n, t)
    BY <1>7 DEF SelfGoal, ReceiveSelfGoal, RefuseSelfGoal, Activate, ActivateNode, roleVars
  <2>2. PICK a \in submitted : Stage(a)
    BY <1>1, <2>1 DEF Staged, Calm, Quiet
  <2>3. Stage(a)' /\ UNCHANGED results /\ Promise!Next
    <3>1. a \in Auction
      BY <1>1, <2>2
    <3>2. /\ Stage(a)' /\ \E name : ActivateNode(n, a, name)
          /\ n \in Bidders[a] /\ ~ Ended(n, a)
      BY <1>1, <1>7, <2>2, <3>1, StageBegin
    <3>3. UNCHANGED results
      BY <3>2 DEF ActivateNode
    <3> QED  BY <1>1, <2>1, <3>1, <3>2, <3>3, BeginIsPromised
  <2>4. LoadedInstalled'
    BY <1>1, <2>1, LoadKeepsInstalled DEF LoadedInstalled
  <2> QED  BY <2>1, <2>2, <2>3, <2>4 DEF Staged
<1>8. ASSUME NEW n \in Agent, RunSuccess(n) \/ RunFailure(n) PROVE Good
  <2>1. running[n] /\ UNCHANGED <<submitted, loaded_item_type>>
    BY <1>8 DEF RunSuccess, RunFailure, Ticking, EndSuccess, EndFailure, roleVars
  <2>2. PICK a \in submitted : Stage(a)
    BY <1>1, <2>1 DEF Staged, Calm, Quiet
  <2>3. Outcomes' /\ Promise!Next
    BY <1>1, <1>8, <2>2, OutcomesAtEnd
  <2>4. Stage(a)'
    BY <1>1, <1>8, <2>2, StageEnd
  <2> QED  BY <1>1, <2>1, <2>2, <2>3, <2>4 DEF Staged, LoadedInstalled
<1>9. ASSUME NEW n \in Agent, Stop(n) \/ Restart(n) PROVE FALSE
  BY <1>9 DEF Stop, StopNode, Restart, RestartNode, SerialMissions
<1>10. ASSUME UNCHANGED <<cost, net, submitted, loaded_item_type>>, UNCHANGED stageVars PROVE Good
  <2>0. Bystanding
    BY <1>10 DEF Bystanding, stageVars
  <2>1. Calm => Calm'
    BY <1>10, CalmStays DEF stageVars
  <2>2. ASSUME NEW a \in submitted, Stage(a) PROVE Stage(a)'
    BY <1>1, <1>10, <2>2, StageIdle DEF Stage, InFlight
  <2> QED  BY <1>1, <1>10, <2>0, <2>1, <2>2 DEF Staged, LoadedInstalled, stageVars
<1>11. ASSUME NEW n \in Agent,
              RunWaiting(n) \/ ((Configure(n) \/ Pause(n) \/ Resume(n)) /\ UNCHANGED greedyVars)
       PROVE  UNCHANGED <<cost, net, submitted, loaded_item_type>> /\ UNCHANGED stageVars
  BY <1>11 DEF RunWaiting, Configure, ConfigureNode, Pause, PauseNode, Resume, ResumeNode, stageVars,
     vars, netVars, nodeVars, roleVars, serverVars, pluginVars, baseVars, greedyVars
<1>12. ASSUME UNCHANGED vars
       PROVE  UNCHANGED <<cost, net, submitted, loaded_item_type>> /\ UNCHANGED stageVars
  BY <1>12 DEF stageVars, vars, netVars, nodeVars, roleVars, serverVars, pluginVars, baseVars, greedyVars
<1>13. Good
  <2> HIDE DEF Good
  <2> QED
    BY <1>4, <1>5, <1>6, <1>7, <1>8, <1>9, <1>10, <1>11, <1>12 DEF Next, OnRun, Environment
<1> QED
  BY <1>1, <1>2, <1>13, OutcomesStay, BystandingStutters DEF SerialInv

\* With auctions in turn, too, whoever reports success reports the cheapest
\* bidder of that auction, and nothing of an earlier one.
THEOREM CheapestWinsInTurn ==
    ASSUME SerialMissions PROVE Spec => []CheapestWins
<1>1. SerialInv => CheapestWins
  BY DEF SerialInv, Outcomes
<1> QED  BY <1>1, SerialInit, SerialNext, PTL DEF Spec

\* With auctions in turn nobody gives up on one that has an assignment.
THEOREM FailureJustifiedInTurn ==
    ASSUME SerialMissions PROVE Spec => []FailureJustified
<1>1. SerialInv => FailureJustified
  BY DEF SerialInv, Outcomes
<1> QED  BY <1>1, SerialInit, SerialNext, PTL DEF Spec

\* With auctions in turn a success of any of them means that every bidder of
\* that auction could load its item plugin.
THEOREM AllOrNothingInTurn ==
    ASSUME SerialMissions PROVE Spec => []AllOrNothing
<1>1. SerialInv => AllOrNothing
  BY DEF SerialInv, Outcomes
<1> QED  BY <1>1, SerialInit, SerialNext, PTL DEF Spec

\* With auctions in turn the feedback of a node names all it wins: it holds
\* no cost of an earlier auction.
THEOREM FeedbackAlignedInTurn ==
    ASSUME SerialMissions PROVE Spec => []FeedbackAligned
<1>1. SerialInv => FeedbackAligned
  <2> SUFFICES ASSUME SerialInv, NEW n \in Agent, running[n]
               PROVE  FeedbackItems(n) = MyAssignment(n)
    BY DEF FeedbackAligned, Ticking
  <2>1. PICK a \in submitted : Stage(a)
    BY DEF SerialInv, Staged, Calm, Quiet
  <2>2. a \in Auction
    BY DEF SerialInv, TypeInv, TypeOK, NodeTypeOK
  <2>3. my_costs[n] = CostsFor(a, n) /\ auction_items[n] = ItemsOf[a]
    BY <2>1 DEF Stage, Holding
  <2> QED  BY <2>2, <2>3, WinsOwnItems DEF SerialInv
<1> QED  BY <1>1, SerialInit, SerialNext, PTL DEF Spec

\* With auctions in turn the fleet implements the abstract auction: every node
\* begins an auction only until it has ended it, and ends it for one of the
\* reasons the promise gives it.
THEOREM PromiseIsKeptInTurn ==
    ASSUME SerialMissions PROVE Spec => KeepsPromise
<1> QED  BY PromiseInit, SerialInit, SerialNext, PTL DEF Spec, KeepsPromise, Promise!Spec
=============================================================================
