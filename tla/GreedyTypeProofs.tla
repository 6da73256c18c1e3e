--------------------------- MODULE GreedyTypeProofs ---------------------------
(***************************************************************************)
(* Type correctness of a fleet running the greedy plugin, and the lemmas   *)
(* about the network and the cost vectors that every other proof uses.     *)
(***************************************************************************)
EXTENDS GreedyProperties, AuctionBehaviorProofs

\* Winner picks, among the offers that can win, the lowest cost and among
\* equals the smallest name; it answers NoAgent only when no offer can win.
LEMMA WinnerFacts ==
    ASSUME NEW offers \in [Agent -> CostValue \cup {NoBid}]
    PROVE  LET Able == {s \in Agent : CanWin(offers[s])}
           IN  \/ Able = {} /\ Winner(offers) = NoAgent
               \/ /\ Winner(offers) \in Able
                  /\ \A s \in Able :
                       \/ offers[Winner(offers)] < offers[s]
                       \/ offers[Winner(offers)] = offers[s] /\ Winner(offers) <= s
<1> DEFINE Able == {s \in Agent : CanWin(offers[s])}
           Best(w) == \A s \in Able : \/ offers[w] < offers[s]
                                      \/ offers[w] = offers[s] /\ w <= s
<1>1. CASE Able = {}
  BY <1>1 DEF Winner
<1>2. CASE Able # {}
  <2>1. Able \subseteq Nat /\ \A s \in Able : offers[s] \in Nat
    BY AgentAssumption, CostAssumption DEF CanWin
  <2> DEFINE Costs == {offers[s] : s \in Able}
  <2>2. PICK m \in Costs : \A y \in Costs : m <= y
    <3>1. Costs \subseteq Nat /\ Costs # {}
      BY <1>2, <2>1
    <3> HIDE DEF Costs
    <3> QED  BY <3>1, LeastNatural
  <2> DEFINE Ties == {s \in Able : offers[s] = m}
  <2>3. PICK w \in Ties : \A s \in Ties : w <= s
    <3>1. Ties \subseteq Nat /\ Ties # {}
      BY <2>1, <2>2
    <3> HIDE DEF Ties
    <3> QED  BY <3>1, LeastNatural
  <2>4. w \in Able /\ Best(w)
    <3> SUFFICES ASSUME NEW s \in Able
                 PROVE  offers[w] < offers[s] \/ (offers[w] = offers[s] /\ w <= s)
      BY <2>3
    <3>1. offers[w] = m /\ m <= offers[s] /\ m \in Nat /\ offers[s] \in Nat
      BY <2>1, <2>2, <2>3
    <3>2. CASE offers[s] = m
      BY <2>3, <3>1, <3>2
    <3>3. CASE offers[s] # m
      BY <3>1, <3>3
    <3> QED  BY <3>2, <3>3
  <2>5. Winner(offers) = CHOOSE v \in Able : Best(v)
    BY <1>2 DEF Winner
  <2> HIDE DEF Best, Able
  <2>6. Winner(offers) \in Able /\ Best(Winner(offers))
    BY <2>4, <2>5
  <2> USE DEF Best, Able
  <2> QED  BY <2>6
<1> QED  BY <1>1, <1>2

-----------------------------------------------------------------------------
(***************************************************************************)
(* The operators of the model return values of the types they claim.       *)
(***************************************************************************)

LEMMA ForwardType ==
    ASSUME NEW nt \in [Channel -> Seq(Message)], NEW s \in Agent,
           NEW dests \in SUBSET Agent, NEW m \in Message
    PROVE  Forward(nt, s, dests, m) \in [Channel -> Seq(Message)]
BY AppendProperties DEF Forward

LEMMA WithoutType ==
    ASSUME net \in [Channel -> Seq(Message)], NEW c \in Channel,
           NEW k \in DOMAIN net[c]
    PROVE  Without(c, k) \in [Channel -> Seq(Message)]
<1>1. RemoveAt(net[c], k) \in Seq(Message)
  BY RemoveAtFacts
<1> QED  BY <1>1 DEF Without

LEMMA CostsForType ==
    ASSUME cost \in CostTable, NEW a \in Auction, NEW n \in Agent
    PROVE  CostsFor(a, n) \in CostVector
BY DEF CostTable, CostsFor, CostVector

LEMMA OverwriteType ==
    ASSUME NEW to \in CostVector, NEW from \in CostVector
    PROVE  Overwrite(to, from) \in CostVector
BY DEF Overwrite, CostVector

LEMMA ResolutionType ==
    ASSUME NEW n \in Agent, NEW mine \in CostVector,
           NEW theirs \in [Agent -> CostVector], NEW active
    PROVE  Resolution(n, mine, theirs, active) \in Assignment
<1>1. \A i \in Item : Offers(n, mine, theirs, active, i) \in [Agent -> CostValue \cup {NoBid}]
  BY DEF Offers, CostVector
<1>2. \A i \in Item : Winner(Offers(n, mine, theirs, active, i)) \in Agent \cup {NoAgent}
  BY <1>1, WinnerFacts
<1> QED  BY <1>2 DEF Resolution, Assignment

LEMMA BroadcastBidType ==
    ASSUME cost \in CostTable, NEW nt \in [Channel -> Seq(Message)],
           NEW n \in Agent, NEW a \in Auction
    PROVE  BroadcastBid(nt, n, a) \in [Channel -> Seq(Message)]
<1>1. Bid(CostsFor(a, n)) \in Message
  BY CostsForType DEF Bid, Message
<1>2. Bidders[a] \in SUBSET Agent
  BY GoalAssumption
<1> QED  BY <1>1, <1>2, ForwardType DEF BroadcastBid, SendBid

LEMMA OnAuctionItemsReceivedType ==
    ASSUME cost \in CostTable, PluginTypeOK, NEW n \in Agent, NEW a \in Auction,
           OnAuctionItemsReceived(n, a)
    PROVE  PluginTypeOK'
<1> USE DEF PluginTypeOK, OnAuctionItemsReceived, BeginAuction
<1>1. participants' \in [Agent -> SUBSET Agent] /\ auction_items' \in [Agent -> SUBSET Item]
  BY GoalAssumption
<1>2. my_costs' \in [Agent -> CostVector]
  BY CostsForType, OverwriteType
<1>3. received_bids' \in [Agent -> [Agent -> CostVector]] /\ received_from' \in [Agent -> SUBSET Agent]
  OBVIOUS
<1>4. global_assignment' \in [Agent -> Assignment]
  <2>1. my_costs'[n] \in CostVector /\ received_bids'[n] \in [Agent -> CostVector]
    BY <1>2, <1>3
  <2> HIDE DEF PluginTypeOK
  <2>2. Resolution(n, my_costs'[n], received_bids'[n], participants'[n]) \in Assignment
    BY <2>1, ResolutionType
  <2> QED  BY <2>2 DEF SolveConflicts, PluginTypeOK
<1> QED  BY <1>1, <1>2, <1>3, <1>4

LEMMA OnBidReceivedType ==
    ASSUME PluginTypeOK, NEW n \in Agent, NEW s \in Agent, NEW costs \in CostVector,
           OnBidReceived(n, s, costs)
    PROVE  PluginTypeOK'
<1> USE DEF PluginTypeOK, OnBidReceived, baseVars
<1>1. received_bids' \in [Agent -> [Agent -> CostVector]] /\ received_from' \in [Agent -> SUBSET Agent]
  BY OverwriteType
<1>2. /\ participants' \in [Agent -> SUBSET Agent]
      /\ auction_items' \in [Agent -> SUBSET Item]
      /\ my_costs' \in [Agent -> CostVector]
  OBVIOUS
<1>3. global_assignment' \in [Agent -> Assignment]
  <2>1. my_costs'[n] \in CostVector /\ received_bids'[n] \in [Agent -> CostVector]
    BY <1>1, <1>2
  <2> HIDE DEF PluginTypeOK
  <2>2. Resolution(n, my_costs'[n], received_bids'[n], participants'[n]) \in Assignment
    BY <2>1, ResolutionType
  <2> QED  BY <2>2 DEF SolveConflicts, PluginTypeOK
<1> QED  BY <1>1, <1>2, <1>3

LEMMA ResetType ==
    ASSUME PluginTypeOK, NEW n \in Agent, Reset(n) \/ NewPlugin(n)
    PROVE  PluginTypeOK'
<1>1. participants' \in [Agent -> SUBSET Agent]
  BY DEF PluginTypeOK, Reset, NewPlugin
<1>2. Clear(n)
  BY DEF Reset, NewPlugin
<1> QED  BY <1>1, <1>2 DEF PluginTypeOK, Clear, NoCosts, Nobody, CostVector, Assignment

LEMMA GetResultType ==
    ASSUME PluginTypeOK, NEW n \in Agent
    PROVE  GetResult(n) \in Assignment
BY DEF PluginTypeOK, GetResult, Assignment

-----------------------------------------------------------------------------
\* on_activate keeps its half of the types, given what its caller does to the
\* pending self-goals and to the submitted goals.
LEMMA ActivateType ==
    ASSUME TypeOK, NEW n \in Agent, NEW a \in Auction, NEW name \in Auction \cup {NoName},
           Activate(n, a, name), self_goals' \in [Agent -> Seq(Auction)],
           submitted' \in SUBSET Auction
    PROVE  TypeOK'
<1> USE DEF TypeOK, Activate
<1>1. CASE OpenAuction(n, a)
  <2>1. PluginTypeOK'
    BY <1>1, OnAuctionItemsReceivedType DEF OpenAuction
  <2>2. net' \in [Channel -> Seq(Message)]
    <3>1. StartAuction(a) \in Message
      BY DEF StartAuction, Message
    <3>2. BroadcastBid(net, n, a) \in [Channel -> Seq(Message)]
      BY BroadcastBidType
    <3>3. Bidders[a] \in SUBSET Agent
      BY GoalAssumption
    <3> QED  BY <1>1, <3>1, <3>2, <3>3, ForwardType DEF OpenAuction
  <2>3. NodeTypeOK'
    BY GoalAssumption DEF NodeTypeOK, ActivateNode, AnnounceStart, LoadItemPlugin
  <2> QED  BY <1>1, <2>1, <2>2, <2>3 DEF OpenAuction
<1>2. CASE StartTicking(n)
  <2>1. NodeTypeOK'
    BY GoalAssumption DEF NodeTypeOK, ActivateNode, AnnounceStart, LoadItemPlugin
  <2> QED
    BY <1>2, <2>1 DEF StartTicking, PluginTypeOK, pluginVars, baseVars, greedyVars, netVars
<1> QED  BY <1>1, <1>2

\* A node that ends an execution reports a value of the type of results.
LEMMA ReportType ==
    ASSUME NodeTypeOK, NEW n \in Agent, goal[n] \in Auction, NEW status \in Status,
           NEW w \in Assignment, Report(n, status, w)
    PROVE  results' \subseteq Result
BY DEF NodeTypeOK, Report, Result

LEMMA FactsOfType ==
    ASSUME TypeOK, NEW n \in Agent, NEW w \in Assignment
    PROVE  FactsOf(n, w) \subseteq Fact
BY DEF TypeOK, NodeTypeOK, PluginTypeOK, FactsOf, Fact, Assignment

\* Only a node that was activated runs, so it always has a goal.
RunningHasGoal == \A n \in Agent : running[n] => goal[n] \in Auction

TypeInv == TypeOK /\ RunningHasGoal

LEMMA TypeInvInit == Init => TypeInv
<1> SUFFICES ASSUME Init PROVE TypeInv
  OBVIOUS
<1> USE DEF Init
<1>1. net \in [Channel -> Seq(Message)] /\ lost \in 0..MaxLoss
  BY GatewayAssumption
<1>2. PluginTypeOK
  BY DEF PluginInit, PluginTypeOK, NoCosts, CostVector, Nobody, Assignment
<1>3. NodeTypeOK /\ RunningHasGoal
  BY DEF NodeInit, NodeTypeOK, RunningHasGoal, AllDone
<1> QED  BY <1>1, <1>2, <1>3 DEF TypeInv, TypeOK

\* Every step keeps the types: one case per action of Next.
LEMMA TypeInvNext == TypeInv /\ [Next]_vars => TypeInv'
<1> SUFFICES ASSUME TypeInv, [Next]_vars PROVE TypeInv'
  OBVIOUS
<1> USE DEF TypeInv, TypeOK, RunningHasGoal
<1>1. ASSUME NEW a \in Auction, ReceiveGoal(a) PROVE TypeInv'
  <2>1. Auctioneer[a] \in Agent
    BY GoalAssumption
  <2>2. self_goals' \in [Agent -> Seq(Auction)] /\ submitted' \in SUBSET Auction
    BY <1>1 DEF ReceiveGoal, NodeTypeOK
  <2>3. Activate(Auctioneer[a], a, a)
    BY <1>1 DEF ReceiveGoal
  <2> HIDE DEF TypeInv, TypeOK, RunningHasGoal
  <2>4. TypeOK'
    BY <2>1, <2>2, <2>3, ActivateType DEF TypeInv
  <2>5. RunningHasGoal'
    BY <2>1, <2>3, <2>4 DEF Activate, ActivateNode, AnnounceStart, RunningHasGoal, TypeInv, TypeOK, NodeTypeOK
  <2> QED  BY <2>4, <2>5 DEF TypeInv
<1>2. ASSUME NEW a \in Auction, RefuseActivation(a), UNCHANGED greedyVars PROVE TypeInv'
  BY <1>2, GoalAssumption DEF RefuseActivation, RejectGoal, NodeTypeOK, PluginTypeOK,
     pluginVars, baseVars, greedyVars, netVars, serverVars, kbVars
<1>3. ASSUME NEW n \in Agent, ReceiveSelfGoal(n) PROVE TypeInv'
  <2>1. Head(self_goals[n]) \in Auction /\ Tail(self_goals[n]) \in Seq(Auction)
    BY <1>3, HeadTailProperties DEF ReceiveSelfGoal, NodeTypeOK
  <2>2. self_goals' \in [Agent -> Seq(Auction)] /\ submitted' \in SUBSET Auction
    BY <1>3, <2>1 DEF ReceiveSelfGoal, NodeTypeOK
  <2>3. Activate(n, Head(self_goals[n]), NoName)
    BY <1>3 DEF ReceiveSelfGoal
  <2> HIDE DEF TypeInv, TypeOK, RunningHasGoal
  <2>4. TypeOK'
    BY <2>1, <2>2, <2>3, ActivateType DEF TypeInv
  <2>5. RunningHasGoal'
    BY <2>1, <2>3, <2>4 DEF Activate, ActivateNode, AnnounceStart, RunningHasGoal, TypeInv, TypeOK, NodeTypeOK
  <2> QED  BY <2>4, <2>5 DEF TypeInv
<1>4. ASSUME NEW n \in Agent, RefuseSelfGoal(n), UNCHANGED greedyVars PROVE TypeInv'
  <2>1. Tail(self_goals[n]) \in Seq(Auction)
    BY <1>4, HeadTailProperties DEF RefuseSelfGoal, NodeTypeOK
  <2> QED
    BY <1>4, <2>1 DEF RefuseSelfGoal, NodeTypeOK, PluginTypeOK,
       pluginVars, baseVars, greedyVars, netVars, roleVars, serverVars, kbVars
<1>5. ASSUME NEW s \in Agent, NEW n \in Agent, HandleStart(s, n) PROVE TypeInv'
  <2>1. PICK k \in Deliverable(<<s, n>>) :
          /\ net[<<s, n>>][k].kind = "start"
          /\ JoinAuction(n, net[<<s, n>>][k].auction)
          /\ OnAuctionItemsReceived(n, net[<<s, n>>][k].auction)
          /\ net' = BroadcastBid(Without(<<s, n>>, k), n, net[<<s, n>>][k].auction)
          /\ UNCHANGED <<cost, lost>>
    BY <1>5 DEF HandleStart
  <2>2. <<s, n>> \in Channel /\ k \in DOMAIN net[<<s, n>>]
    BY <2>1 DEF Deliverable, Channel
  <2>3. net[<<s, n>>][k].auction \in Auction
    BY <2>1, <2>2 DEF Message
  <2>4. net' \in [Channel -> Seq(Message)]
    BY <2>1, <2>2, <2>3, WithoutType, BroadcastBidType
  <2>5. PluginTypeOK'
    BY <2>1, <2>3, OnAuctionItemsReceivedType
  <2>6. self_goals' \in [Agent -> Seq(Auction)]
    BY <2>1, <2>3, AppendProperties DEF JoinAuction, NodeTypeOK
  <2>7. NodeTypeOK' /\ RunningHasGoal'
    BY <2>1, <2>3, <2>6, GoalAssumption
       DEF JoinAuction, LoadItemPlugin, NodeTypeOK, serverVars, kbVars
  <2> QED  BY <2>1, <2>4, <2>5, <2>7
<1>6. ASSUME NEW s \in Agent, NEW n \in Agent, HandleStartUnloadable(s, n), UNCHANGED greedyVars
      PROVE  TypeInv'
  <2>1. PICK k \in DOMAIN net[<<s, n>>] : net' = Without(<<s, n>>, k)
    BY <1>6 DEF HandleStartUnloadable, Deliverable
  <2>2. net' \in [Channel -> Seq(Message)]
    BY <2>1, WithoutType DEF Channel
  <2> QED
    BY <1>6, <2>2 DEF HandleStartUnloadable, NodeTypeOK, PluginTypeOK, pluginVars,
       baseVars, greedyVars, nodeVars, roleVars, serverVars, kbVars
<1>7. ASSUME NEW s \in Agent, NEW n \in Agent, HandleBid(s, n) PROVE TypeInv'
  <2>1. PICK k \in DOMAIN net[<<s, n>>] :
          /\ net[<<s, n>>][k].kind = "bid"
          /\ OnBidReceived(n, s, net[<<s, n>>][k].payload)
          /\ net' = Without(<<s, n>>, k)
    BY <1>7 DEF HandleBid, Deliverable
  <2>2. net' \in [Channel -> Seq(Message)]
    BY <2>1, WithoutType DEF Channel
  <2>3. net[<<s, n>>][k].payload \in CostVector
    BY <2>1 DEF Message, Channel
  <2>4. PluginTypeOK'
    BY <2>1, <2>3, OnBidReceivedType
  <2> QED
    BY <1>7, <2>2, <2>4 DEF HandleBid, NodeTypeOK, nodeVars, roleVars, serverVars, kbVars
<1>8. ASSUME NEW s \in Agent, NEW n \in Agent, DropUnregistered(s, n), UNCHANGED greedyVars
      PROVE  TypeInv'
  <2>1. PICK k \in DOMAIN net[<<s, n>>] : net' = Without(<<s, n>>, k)
    BY <1>8 DEF DropUnregistered, Deliverable
  <2>2. net' \in [Channel -> Seq(Message)]
    BY <2>1, WithoutType DEF Channel
  <2> QED
    BY <1>8, <2>2 DEF DropUnregistered, NodeTypeOK, PluginTypeOK, pluginVars,
       baseVars, greedyVars, nodeVars, roleVars, serverVars, kbVars
<1>9. ASSUME NEW s \in Agent, NEW n \in Agent, LoseMessage(s, n), UNCHANGED greedyVars
      PROVE  TypeInv'
  <2>1. PICK k \in DOMAIN net[<<s, n>>] : net' = Without(<<s, n>>, k)
    BY <1>9 DEF LoseMessage, Lose
  <2>2. net' \in [Channel -> Seq(Message)]
    BY <2>1, WithoutType DEF Channel
  <2>3. lost' \in 0..MaxLoss
    BY <1>9, GatewayAssumption DEF LoseMessage, Lose
  <2> QED
    BY <1>9, <2>2, <2>3 DEF LoseMessage, NodeTypeOK, PluginTypeOK, pluginVars,
       baseVars, greedyVars, nodeVars, roleVars, serverVars, kbVars
<1>10. ASSUME NEW n \in Agent, RunWaiting(n) PROVE TypeInv'
  BY <1>10 DEF RunWaiting, vars, NodeTypeOK, PluginTypeOK, pluginVars, baseVars,
     greedyVars, netVars, nodeVars, roleVars, serverVars, kbVars
<1>11. ASSUME NEW n \in Agent, RunSuccess(n) PROVE TypeInv'
  <2>1. PluginTypeOK'
    BY <1>11, ResetType DEF RunSuccess
  <2>2. GetResult(n) \in Assignment
    BY GetResultType
  <2>3. results' \subseteq Result
    BY <1>11, <2>2, ReportType DEF RunSuccess, EndSuccess, Ticking, Status
  <2>4. kb_facts' \in [Agent -> SUBSET Fact]
    <3>1. FactsOf(n, GetResult(n)) \subseteq Fact
      BY <2>2, FactsOfType
    <3> QED  BY <1>11, <3>1 DEF RunSuccess, EndSuccess, NodeTypeOK
  <2>5. NodeTypeOK' /\ RunningHasGoal'
    BY <1>11, <2>3, <2>4 DEF RunSuccess, EndSuccess, NodeTypeOK, roleVars
  <2> QED  BY <1>11, <2>1, <2>5 DEF RunSuccess, netVars
<1>12. ASSUME NEW n \in Agent, RunFailure(n) PROVE TypeInv'
  <2>1. PluginTypeOK'
    BY <1>12, ResetType DEF RunFailure
  <2>2. results' \subseteq Result
    BY <1>12, ReportType DEF RunFailure, EndFailure, RetractStart, Ticking, Status, Nobody, Assignment
  <2>3. NodeTypeOK' /\ RunningHasGoal'
    BY <1>12, <2>2 DEF RunFailure, EndFailure, RetractStart, NodeTypeOK, roleVars
  <2> QED  BY <1>12, <2>1, <2>3 DEF RunFailure, netVars
<1>13. ASSUME NEW n \in Agent, Stop(n) PROVE TypeInv'
  <2>1. PluginTypeOK'
    BY <1>13, ResetType DEF Stop
  <2>2. results' \subseteq Result
    BY <1>13, ReportType DEF Stop, StopNode, RetractStart, Status, Nobody, Assignment
  <2>3. NodeTypeOK' /\ RunningHasGoal'
    BY <1>13, <2>2 DEF Stop, StopNode, RetractStart, NodeTypeOK, roleVars
  <2> QED  BY <1>13, <2>1, <2>3 DEF Stop, netVars
<1>14. ASSUME NEW n \in Agent, Configure(n) \/ Pause(n) \/ Resume(n), UNCHANGED greedyVars
       PROVE  TypeInv'
  <2>1. PluginTypeOK'
    BY <1>14 DEF Configure, Pause, Resume, PluginTypeOK, baseVars, greedyVars
  <2>2. CASE Configure(n)
    <3>1. configured' \in [Agent -> Nat]
      BY <2>2 DEF Configure, ConfigureNode, NodeTypeOK
    <3>2. NodeTypeOK' /\ RunningHasGoal'
      BY <2>2, <3>1 DEF Configure, ConfigureNode, NodeTypeOK, serverVars, kbVars
    <3> QED  BY <2>1, <2>2, <3>2 DEF Configure, netVars
  <2>3. CASE Pause(n) \/ Resume(n)
    <3>1. NodeTypeOK' /\ RunningHasGoal'
      BY <2>3 DEF Pause, PauseNode, Resume, ResumeNode, NodeTypeOK, roleVars, kbVars
    <3> QED  BY <2>1, <2>3, <3>1 DEF Pause, Resume, netVars
  <2> QED  BY <1>14, <2>2, <2>3
<1>15. ASSUME NEW n \in Agent, Restart(n) PROVE TypeInv'
  <2>1. PluginTypeOK'
    BY <1>15, ResetType DEF Restart
  <2>2. NodeTypeOK' /\ RunningHasGoal'
    BY <1>15 DEF Restart, RestartNode, NodeTypeOK, kbVars
  <2> QED  BY <1>15, <2>1, <2>2 DEF Restart, netVars
<1>16. CASE UNCHANGED vars
  BY <1>16 DEF vars, NodeTypeOK, PluginTypeOK, pluginVars, baseVars,
     greedyVars, netVars, nodeVars, roleVars, serverVars, kbVars
<1> HIDE DEF TypeInv
<1> QED
  BY <1>1, <1>2, <1>3, <1>4, <1>5, <1>6, <1>7, <1>8, <1>9, <1>10, <1>11, <1>12, <1>13,
     <1>14, <1>15, <1>16 DEF Next, Handle, Ignore, SelfGoal, OnRun, Environment

\* Every state of every behaviour has the declared types, whatever the fleet,
\* the auctions, the faults and the requests.
THEOREM TypeCorrect == Spec => []TypeOK
<1>1. TypeInv => TypeOK
  BY DEF TypeInv
<1> QED  BY <1>1, TypeInvInit, TypeInvNext, PTL DEF Spec
=============================================================================
