-------------------------- MODULE CbbaAuctionProofs --------------------------
(***************************************************************************)
(* A fleet running the cbba plugin, however many auctions overlap: its     *)
(* types, what a step may say, and that every claim is somebody's cost.    *)
(***************************************************************************)
EXTENDS CbbaProperties, CbbaClaimsProofs

LEMMA ForwardType ==
    ASSUME NEW nt \in [Channel -> Seq(Message)], NEW s \in Agent,
           NEW dests \in SUBSET Agent, NEW m \in Message
    PROVE  Forward(nt, s, dests, m) \in [Channel -> Seq(Message)]
BY AppendProperties DEF Forward

LEMMA WithoutType ==
    ASSUME net \in [Channel -> Seq(Message)], NEW c \in Channel,
           NEW k \in DOMAIN net[c]
    PROVE  Without(c, k) \in [Channel -> Seq(Message)]
<1>1. RemoveAt(net[c], k) \in Seq(Message)
  BY RemoveAtFacts
<1> QED  BY <1>1 DEF Without

LEMMA SendBidType ==
    ASSUME NEW nt \in [Channel -> Seq(Message)], NEW n \in Agent, NEW dests \in SUBSET Agent,
           NEW items, NEW b \in ClaimBid
    PROVE  SendBid(nt, n, dests, items, b) \in [Channel -> Seq(Message)]
<1>1. Bid(b) \in Message
  BY DEF Bid, Message
<1> QED  BY <1>1, ForwardType DEF SendBid

-----------------------------------------------------------------------------
(***************************************************************************)
(* The plugin's handlers.  Every item of an auction a node takes part in   *)
(* has a cost there, and the items can be counted.                         *)
(***************************************************************************)
AllPriceable == \A n \in Agent : Priceable(costs[n], auction_items[n])

PluginInv == PluginTypeOK /\ AllPriceable

LEMMA ViewIsTyped ==
    ASSUME PluginTypeOK, NEW n \in Agent
    PROVE  View(n) \in ViewType
BY DEF PluginTypeOK, View, ViewType

\* What a node knows when items arrive, before it builds its bundle.
WipedView(n, a) ==
    [y |-> [i \in Item |-> IF i \in ItemsOf[a] THEN Infinity ELSE y[n][i]],
     z |-> [i \in Item |-> IF i \in ItemsOf[a] THEN NoAgent ELSE z[n][i]],
     bundle |-> bundle[n]]

CostsOn(n, a) == [i \in Item |-> IF i \in ItemsOf[a] THEN cost[a][n][i] ELSE costs[n][i]]

LEMMA FirstViewType ==
    ASSUME cost \in CostTable, PluginTypeOK, NEW n \in Agent, NEW a \in Auction
    PROVE  /\ CostsOn(n, a) \in CostVector /\ WipedView(n, a) \in ViewType
           /\ Priceable(CostsOn(n, a), ItemsOf[a])
           /\ FirstView(n, a) = BuildBundle(n, CostsOn(n, a), ItemsOf[a], WipedView(n, a))
           /\ FirstView(n, a) \in ViewType
<1>1. ItemsOf[a] \in SUBSET Item /\ IsFiniteSet(ItemsOf[a])
  BY GoalAssumption, FiniteAssumption
<1>2. /\ cost[a] \in [Agent -> [Item -> CostValue]] /\ costs[n] \in CostVector
      /\ y[n] \in Claims /\ z[n] \in Assignment /\ bundle[n] \in Seq(Item)
  BY DEF PluginTypeOK, CostTable
<1>3. CostsOn(n, a) \in CostVector
  BY <1>2 DEF CostsOn, CostVector
<1>4. \A i \in ItemsOf[a] : CostsOn(n, a)[i] # NoBid
  <2> TAKE i \in ItemsOf[a]
  <2>1. CostsOn(n, a)[i] \in CostValue
    BY <1>1, <1>2 DEF CostsOn
  <2> QED  BY <2>1, CostAssumption DEF NoBid
<1>5. WipedView(n, a) \in ViewType
  BY <1>2 DEF WipedView, ViewType, Claims, Assignment
<1>6. Priceable(CostsOn(n, a), ItemsOf[a])
  BY <1>1, <1>4 DEF Priceable
<1>7. FirstView(n, a) = BuildBundle(n, CostsOn(n, a), ItemsOf[a], WipedView(n, a))
  BY DEF FirstView, CostsOn, WipedView
<1>8. BuildBundle(n, CostsOn(n, a), ItemsOf[a], WipedView(n, a)) \in ViewType
  BY <1>3, <1>5, <1>6, BuildBundleFacts
<1> QED  BY <1>3, <1>5, <1>6, <1>7, <1>8

LEMMA SetViewType ==
    ASSUME PluginTypeOK, NEW n \in Agent, NEW v \in ViewType, SetView(n, v)
    PROVE  /\ y' \in [Agent -> Claims] /\ z' \in [Agent -> Assignment]
           /\ bundle' \in [Agent -> Seq(Item)] /\ View(n)' = v
           /\ \A m \in Agent \ {n} : y'[m] = y[m] /\ z'[m] = z[m] /\ bundle'[m] = bundle[m]
<1>1. v.y \in Claims /\ v.z \in Assignment /\ v.bundle \in Seq(Item)
      /\ v = [y |-> v.y, z |-> v.z, bundle |-> v.bundle]
  BY DEF ViewType
<1>2. /\ y \in [Agent -> Claims] /\ z \in [Agent -> Assignment] /\ bundle \in [Agent -> Seq(Item)]
      /\ y' = [y EXCEPT ![n] = v.y] /\ z' = [z EXCEPT ![n] = v.z]
      /\ bundle' = [bundle EXCEPT ![n] = v.bundle]
  BY DEF SetView, PluginTypeOK
<1>3. y'[n] = v.y /\ z'[n] = v.z /\ bundle'[n] = v.bundle
  BY <1>2
<1> QED  BY <1>1, <1>2, <1>3 DEF View

\* OnAuctionItemsReceived spelt out with the lemmas' names.
LEMMA ItemsReceived ==
    ASSUME cost \in CostTable, PluginTypeOK, NEW n \in Agent, NEW a \in Auction,
           OnAuctionItemsReceived(n, a)
    PROVE  /\ costs'[n] = CostsOn(n, a) /\ auction_items'[n] = ItemsOf[a]
           /\ participants'[n] = Bidders[a]
           /\ View(n)' = FirstView(n, a)
           /\ \A m \in Agent \ {n} : /\ costs'[m] = costs[m] /\ y'[m] = y[m] /\ z'[m] = z[m]
                                     /\ bundle'[m] = bundle[m]
                                     /\ auction_items'[m] = auction_items[m]
           /\ entries'[n] = entries[n] \cup ItemsOf[a]
           /\ \A m \in Agent \ {n} : entries'[m] = entries[m]
           /\ UNCHANGED <<received_from, changed>>
<1>1. FirstView(n, a) \in ViewType
  BY FirstViewType
<1>2. /\ SetView(n, FirstView(n, a)) /\ UNCHANGED <<received_from, changed>>
      /\ costs' = [costs EXCEPT ![n] =
            [i \in Item |-> IF i \in ItemsOf[a] THEN cost[a][n][i] ELSE costs[n][i]]]
      /\ participants' = [participants EXCEPT ![n] = Bidders[a]]
      /\ auction_items' = [auction_items EXCEPT ![n] = ItemsOf[a]]
  BY DEF OnAuctionItemsReceived, BeginAuction
<1>6. /\ entries'[n] = entries[n] \cup ItemsOf[a]
      /\ \A m \in Agent \ {n} : entries'[m] = entries[m]
  BY DEF OnAuctionItemsReceived, PluginTypeOK
<1> HIDE DEF OnAuctionItemsReceived
<1>3. costs'[n] = CostsOn(n, a) /\ \A m \in Agent \ {n} : costs'[m] = costs[m]
  BY <1>2 DEF CostsOn, PluginTypeOK
<1>4. /\ auction_items'[n] = ItemsOf[a] /\ participants'[n] = Bidders[a]
      /\ \A m \in Agent \ {n} : auction_items'[m] = auction_items[m]
  BY <1>2 DEF PluginTypeOK
<1>5. /\ View(n)' = FirstView(n, a)
      /\ \A m \in Agent \ {n} : y'[m] = y[m] /\ z'[m] = z[m] /\ bundle'[m] = bundle[m]
  BY <1>1, <1>2, SetViewType
<1> QED  BY <1>2, <1>3, <1>4, <1>5, <1>6

LEMMA OnAuctionItemsReceivedType ==
    ASSUME cost \in CostTable, PluginInv, NEW n \in Agent, NEW a \in Auction,
           OnAuctionItemsReceived(n, a)
    PROVE  PluginInv'
<1>1. PluginTypeOK'
  <2>1. participants' \in [Agent -> SUBSET Agent] /\ auction_items' \in [Agent -> SUBSET Item]
    BY GoalAssumption DEF PluginInv, PluginTypeOK, OnAuctionItemsReceived, BeginAuction
  <2>2. costs' \in [Agent -> CostVector]
    <3>1. CostsOn(n, a) \in CostVector
      BY FirstViewType DEF PluginInv
    <3>2. costs' = [costs EXCEPT ![n] = CostsOn(n, a)]
      BY DEF OnAuctionItemsReceived, CostsOn, PluginInv, PluginTypeOK
    <3> QED  BY <3>1, <3>2 DEF PluginInv, PluginTypeOK
  <2>3. y' \in [Agent -> Claims] /\ z' \in [Agent -> Assignment] /\ bundle' \in [Agent -> Seq(Item)]
    BY FirstViewType, SetViewType DEF PluginInv, OnAuctionItemsReceived
  <2>4. received_from' \in [Agent -> SUBSET Agent] /\ changed' \in [Agent -> BOOLEAN]
    BY DEF PluginInv, PluginTypeOK, OnAuctionItemsReceived
  <2>5. entries' \in [Agent -> SUBSET Item]
    BY GoalAssumption DEF PluginInv, PluginTypeOK, OnAuctionItemsReceived
  <2> QED  BY <2>1, <2>2, <2>3, <2>4, <2>5 DEF PluginTypeOK
<1>2. \A m \in Agent : Priceable(costs[m], auction_items[m])'
  <2>1. Priceable(costs'[n], auction_items'[n])
    BY ItemsReceived, FirstViewType DEF PluginInv
  <2>2. \A m \in Agent \ {n} : Priceable(costs'[m], auction_items'[m])
    BY ItemsReceived DEF PluginInv, AllPriceable
  <2> QED  BY <2>1, <2>2
<1> QED  BY <1>1, <1>2 DEF PluginInv, AllPriceable

\* Update spelt out with the lemmas' names.
LEMMA UpdateView ==
    ASSUME PluginInv, NEW n \in Agent, NEW s, NEW bid \in ClaimBid, Update(n, s, bid)
    PROVE  /\ View(n) \in ViewType
           /\ View(n)' = Updated(n, costs[n], auction_items[n], View(n), bid)
           /\ \A m \in Agent \ {n} : /\ y'[m] = y[m] /\ z'[m] = z[m] /\ bundle'[m] = bundle[m]
           /\ UNCHANGED <<participants, auction_items, costs, entries>>
           /\ Updated(n, costs[n], auction_items[n], View(n), bid) \in ViewType
           /\ SetView(n, Updated(n, costs[n], auction_items[n], View(n), bid))
<1>1. View(n) \in ViewType /\ costs[n] \in CostVector /\ Priceable(costs[n], auction_items[n])
  BY ViewIsTyped DEF PluginInv, PluginTypeOK, AllPriceable
<1>2. Updated(n, costs[n], auction_items[n], View(n), bid) \in ViewType
  BY <1>1, UpdatedBelief
<1>3. /\ SetView(n, Updated(n, costs[n], auction_items[n], View(n), bid))
      /\ UNCHANGED <<participants, auction_items, costs, entries>>
  BY DEF Update, Rebuilt, Updated, baseVars
<1> QED  BY <1>1, <1>2, <1>3, SetViewType DEF PluginInv

LEMMA UpdateType ==
    ASSUME PluginInv, NEW n \in Agent, NEW s \in Agent, NEW bid \in ClaimBid, Update(n, s, bid)
    PROVE  PluginInv'
<1>1. y' \in [Agent -> Claims] /\ z' \in [Agent -> Assignment] /\ bundle' \in [Agent -> Seq(Item)]
  BY UpdateView, SetViewType DEF PluginInv
<1>2. received_from' \in [Agent -> SUBSET Agent] /\ changed' \in [Agent -> BOOLEAN]
  BY DEF PluginInv, PluginTypeOK, Update, Changes
<1>3. UNCHANGED <<participants, auction_items, costs, entries>>
  BY UpdateView
<1> QED  BY <1>1, <1>2, <1>3 DEF PluginInv, PluginTypeOK, AllPriceable

LEMMA ResetType ==
    ASSUME PluginInv, NEW n \in Agent, Reset(n) \/ NewPlugin(n)
    PROVE  PluginInv'
<1>1. participants' \in [Agent -> SUBSET Agent]
  BY DEF PluginInv, PluginTypeOK, Reset, NewPlugin
<1>2. Clear(n)
  BY DEF Reset, NewPlugin
<1>3. NoCosts \in CostVector /\ Unclaimed \in Claims /\ Nobody \in Assignment /\ <<>> \in Seq(Item)
  BY DEF NoCosts, CostVector, Unclaimed, Claims, Nobody, Assignment
<1>4. PluginTypeOK'
  BY <1>1, <1>2, <1>3 DEF PluginInv, PluginTypeOK, Clear
<1>5. AllPriceable'
  <2>1. \A c : Priceable(c, {})
    BY FS_EmptySet DEF Priceable
  <2>2. auction_items'[n] = {} /\ \A m \in Agent \ {n} : /\ costs'[m] = costs[m]
                                                       /\ auction_items'[m] = auction_items[m]
    BY <1>2 DEF Clear, PluginInv, PluginTypeOK
  <2> QED  BY <2>1, <2>2 DEF PluginInv, AllPriceable
<1> QED  BY <1>4, <1>5 DEF PluginInv

LEMMA GetResultType ==
    ASSUME PluginTypeOK, NEW n \in Agent
    PROVE  GetResult(n) \in Assignment
BY DEF PluginTypeOK, GetResult, Assignment

-----------------------------------------------------------------------------
LEMMA BroadcastBidType ==
    ASSUME cost \in CostTable, PluginTypeOK, NEW nt \in [Channel -> Seq(Message)],
           NEW n \in Agent, NEW a \in Auction
    PROVE  BroadcastBid(nt, n, a) \in [Channel -> Seq(Message)]
<1>1. Bidders[a] \in SUBSET Agent /\ ItemsOf[a] \in SUBSET Item
  BY GoalAssumption
<1>2. ComputeBid(ItemsOf[a], FirstView(n, a)) \in ClaimBid
  BY <1>1, FirstViewType, ComputeBidType
<1> QED  BY <1>1, <1>2, SendBidType DEF BroadcastBid

LEMMA AnswerType ==
    ASSUME PluginTypeOK', NEW nt \in [Channel -> Seq(Message)], NEW n \in Agent,
           UNCHANGED <<participants, auction_items>>
    PROVE  Answer(nt, n) \in [Channel -> Seq(Message)]
<1>1. View(n)' \in ViewType /\ participants[n] \in SUBSET Agent /\ auction_items[n] \in SUBSET Item
  BY DEF PluginTypeOK, View, ViewType
<1>2. ComputeBid(auction_items[n], View(n)') \in ClaimBid
  BY <1>1, ComputeBidType
<1>3. SendBid(nt, n, participants[n], auction_items[n], ComputeBid(auction_items[n], View(n)'))
        \in [Channel -> Seq(Message)]
  BY <1>1, <1>2, SendBidType
<1> QED  BY <1>3 DEF Answer

\* on_activate keeps its half of the types, given what its caller does to the
\* pending self-goals and to the submitted goals.
LEMMA ActivateType ==
    ASSUME TypeOK, AllPriceable, NEW n \in Agent, NEW a \in Auction,
           NEW name \in Auction \cup {NoName},
           Activate(n, a, name), self_goals' \in [Agent -> Seq(Auction)],
           submitted' \in SUBSET Auction
    PROVE  TypeOK' /\ AllPriceable'
<1>1. NodeTypeOK'
  BY GoalAssumption DEF TypeOK, Activate, NodeTypeOK, ActivateNode, AnnounceStart, LoadItemPlugin
<1>2. CASE OpenAuction(n, a)
  <2>1. PluginInv'
    BY <1>2, OnAuctionItemsReceivedType DEF OpenAuction, PluginInv, TypeOK
  <2>2. net' \in [Channel -> Seq(Message)]
    <3>1. StartAuction(a) \in Message
      BY DEF StartAuction, Message
    <3>2. BroadcastBid(net, n, a) \in [Channel -> Seq(Message)]
      BY BroadcastBidType DEF TypeOK
    <3>3. Bidders[a] \in SUBSET Agent
      BY GoalAssumption
    <3>4. net' = Forward(BroadcastBid(net, n, a), n, Bidders[a], StartAuction(a))
      BY <1>2 DEF OpenAuction, Send
    <3> QED  BY <3>1, <3>2, <3>3, <3>4, ForwardType
  <2> QED  BY <1>1, <1>2, <2>1, <2>2 DEF OpenAuction, Activate, PluginInv, TypeOK
<1>3. CASE StartTicking(n)
  BY <1>1, <1>3 DEF StartTicking, PluginTypeOK, pluginVars, baseVars, cbbaVars, netVars,
     Activate, TypeOK, AllPriceable
<1> QED  BY <1>2, <1>3 DEF Activate

\* A node that ends an execution reports a value of the type of results.
LEMMA ReportType ==
    ASSUME NodeTypeOK, NEW n \in Agent, goal[n] \in Auction, NEW status \in Status,
           NEW w \in Assignment, Report(n, status, w)
    PROVE  results' \subseteq Result
BY DEF NodeTypeOK, Report, Result

LEMMA FactsOfType ==
    ASSUME TypeOK, NEW n \in Agent, NEW w \in Assignment
    PROVE  FactsOf(n, w) \subseteq Fact
BY DEF TypeOK, NodeTypeOK, PluginTypeOK, FactsOf, Fact, Assignment

\* Only a node that was activated runs, so it always has a goal.
RunningHasGoal == \A n \in Agent : running[n] => goal[n] \in Auction

TypeInv == TypeOK /\ AllPriceable /\ RunningHasGoal

LEMMA TypeInvInit == Init => TypeInv
<1> SUFFICES ASSUME Init PROVE TypeInv
  OBVIOUS
<1> USE DEF Init
<1>1. net \in [Channel -> Seq(Message)] /\ lost \in 0..MaxLoss
  BY GatewayAssumption
<1>2. PluginTypeOK
  <2>1. NoCosts \in CostVector /\ Unclaimed \in Claims /\ Nobody \in Assignment /\ <<>> \in Seq(Item)
    BY DEF NoCosts, CostVector, Unclaimed, Claims, Nobody, Assignment
  <2> QED  BY <2>1 DEF PluginInit, PluginTypeOK
<1>3. NodeTypeOK /\ RunningHasGoal
  BY DEF NodeInit, NodeTypeOK, RunningHasGoal, AllDone
<1>4. AllPriceable
  BY FS_EmptySet DEF PluginInit, AllPriceable, Priceable
<1> QED  BY <1>1, <1>2, <1>3, <1>4 DEF TypeInv, TypeOK

\* Every step keeps the types: one case per action of Next.
LEMMA TypeInvNext == TypeInv /\ [Next]_vars => TypeInv'
<1> SUFFICES ASSUME TypeInv, [Next]_vars PROVE TypeInv'
  OBVIOUS
<1> USE DEF TypeInv, TypeOK, RunningHasGoal, AllPriceable
<1>1. ASSUME NEW a \in Auction, ReceiveGoal(a) PROVE TypeInv'
  <2>1. Auctioneer[a] \in Agent
    BY GoalAssumption
  <2>2. self_goals' \in [Agent -> Seq(Auction)] /\ submitted' \in SUBSET Auction
    BY <1>1 DEF ReceiveGoal, NodeTypeOK
  <2>3. Activate(Auctioneer[a], a, a)
    BY <1>1 DEF ReceiveGoal
  <2> HIDE DEF TypeInv, TypeOK, RunningHasGoal, AllPriceable
  <2>4. TypeOK' /\ AllPriceable'
    BY <2>1, <2>2, <2>3, ActivateType DEF TypeInv
  <2>5. RunningHasGoal'
    BY <2>1, <2>3, <2>4 DEF Activate, ActivateNode, AnnounceStart, RunningHasGoal, TypeInv, TypeOK, NodeTypeOK
  <2> QED  BY <2>4, <2>5 DEF TypeInv
<1>2. ASSUME NEW a \in Auction, RefuseActivation(a), UNCHANGED cbbaVars PROVE TypeInv'
  BY <1>2, GoalAssumption DEF RefuseActivation, RejectGoal, NodeTypeOK, PluginTypeOK,
     pluginVars, baseVars, cbbaVars, netVars, serverVars, kbVars
<1>3. ASSUME NEW n \in Agent, ReceiveSelfGoal(n) PROVE TypeInv'
  <2>1. Head(self_goals[n]) \in Auction /\ Tail(self_goals[n]) \in Seq(Auction)
    BY <1>3, HeadTailProperties DEF ReceiveSelfGoal, NodeTypeOK
  <2>2. self_goals' \in [Agent -> Seq(Auction)] /\ submitted' \in SUBSET Auction
    BY <1>3, <2>1 DEF ReceiveSelfGoal, NodeTypeOK
  <2>3. Activate(n, Head(self_goals[n]), NoName)
    BY <1>3 DEF ReceiveSelfGoal
  <2> HIDE DEF TypeInv, TypeOK, RunningHasGoal, AllPriceable
  <2>4. TypeOK' /\ AllPriceable'
    BY <2>1, <2>2, <2>3, ActivateType DEF TypeInv
  <2>5. RunningHasGoal'
    BY <2>1, <2>3, <2>4 DEF Activate, ActivateNode, AnnounceStart, RunningHasGoal, TypeInv, TypeOK, NodeTypeOK
  <2> QED  BY <2>4, <2>5 DEF TypeInv
<1>4. ASSUME NEW n \in Agent, RefuseSelfGoal(n), UNCHANGED cbbaVars PROVE TypeInv'
  <2>1. Tail(self_goals[n]) \in Seq(Auction)
    BY <1>4, HeadTailProperties DEF RefuseSelfGoal, NodeTypeOK
  <2> QED
    BY <1>4, <2>1 DEF RefuseSelfGoal, NodeTypeOK, PluginTypeOK,
       pluginVars, baseVars, cbbaVars, netVars, roleVars, serverVars, kbVars
<1>5. ASSUME NEW s \in Agent, NEW n \in Agent, HandleStart(s, n) PROVE TypeInv'
  <2>1. PICK k \in Deliverable(<<s, n>>) :
          /\ net[<<s, n>>][k].kind = "start"
          /\ JoinAuction(n, net[<<s, n>>][k].auction)
          /\ OnAuctionItemsReceived(n, net[<<s, n>>][k].auction)
          /\ net' = BroadcastBid(Without(<<s, n>>, k), n, net[<<s, n>>][k].auction)
          /\ UNCHANGED <<cost, lost>>
    BY <1>5 DEF HandleStart, Send
  <2>2. <<s, n>> \in Channel /\ k \in DOMAIN net[<<s, n>>]
    BY <2>1 DEF Deliverable, Channel
  <2>3. net[<<s, n>>][k].auction \in Auction
    BY <2>1, <2>2 DEF Message
  <2>4. net' \in [Channel -> Seq(Message)]
    BY <2>1, <2>2, <2>3, WithoutType, BroadcastBidType
  <2>5. PluginInv'
    BY <2>1, <2>3, OnAuctionItemsReceivedType DEF PluginInv
  <2>6. self_goals' \in [Agent -> Seq(Auction)]
    BY <2>1, <2>3, AppendProperties DEF JoinAuction, NodeTypeOK
  <2>7. NodeTypeOK' /\ RunningHasGoal'
    BY <2>1, <2>3, <2>6, GoalAssumption
       DEF JoinAuction, LoadItemPlugin, NodeTypeOK, serverVars, kbVars
  <2> QED  BY <2>1, <2>4, <2>5, <2>7 DEF PluginInv
<1>6. ASSUME NEW s \in Agent, NEW n \in Agent, HandleStartUnloadable(s, n), UNCHANGED cbbaVars
      PROVE  TypeInv'
  <2>1. PICK k \in DOMAIN net[<<s, n>>] : net' = Without(<<s, n>>, k)
    BY <1>6 DEF HandleStartUnloadable, Deliverable
  <2>2. net' \in [Channel -> Seq(Message)]
    BY <2>1, WithoutType DEF Channel
  <2> QED
    BY <1>6, <2>2 DEF HandleStartUnloadable, NodeTypeOK, PluginTypeOK, pluginVars,
       baseVars, cbbaVars, nodeVars, roleVars, serverVars, kbVars
<1>7. ASSUME NEW s \in Agent, NEW n \in Agent, HandleBid(s, n) PROVE TypeInv'
  <2>1. PICK k \in DOMAIN net[<<s, n>>] :
          /\ net[<<s, n>>][k].kind = "bid"
          /\ Update(n, s, net[<<s, n>>][k].payload)
          /\ net' = Answer(Without(<<s, n>>, k), n)
    BY <1>7 DEF HandleBid, Deliverable, OnBidReceived, Send
  <2>2. Without(<<s, n>>, k) \in [Channel -> Seq(Message)]
    BY <2>1, WithoutType DEF Channel
  <2>3. net[<<s, n>>][k].payload \in ClaimBid
    BY <2>1 DEF Message, Channel
  <2>4. PluginInv' /\ UNCHANGED <<participants, auction_items>>
    BY <2>1, <2>3, UpdateType, UpdateView DEF PluginInv
  <2>5. net' \in [Channel -> Seq(Message)]
    BY <2>1, <2>2, <2>4, AnswerType DEF PluginInv
  <2> QED
    BY <1>7, <2>4, <2>5 DEF HandleBid, NodeTypeOK, nodeVars, roleVars, serverVars, kbVars, PluginInv
<1>8. ASSUME NEW s \in Agent, NEW n \in Agent, DropUnregistered(s, n), UNCHANGED cbbaVars
      PROVE  TypeInv'
  <2>1. PICK k \in DOMAIN net[<<s, n>>] : net' = Without(<<s, n>>, k)
    BY <1>8 DEF DropUnregistered, Deliverable
  <2>2. net' \in [Channel -> Seq(Message)]
    BY <2>1, WithoutType DEF Channel
  <2> QED
    BY <1>8, <2>2 DEF DropUnregistered, NodeTypeOK, PluginTypeOK, pluginVars,
       baseVars, cbbaVars, nodeVars, roleVars, serverVars, kbVars
<1>9. ASSUME NEW s \in Agent, NEW n \in Agent, LoseMessage(s, n), UNCHANGED cbbaVars
      PROVE  TypeInv'
  <2>1. PICK k \in DOMAIN net[<<s, n>>] : net' = Without(<<s, n>>, k)
    BY <1>9 DEF LoseMessage, Lose
  <2>2. net' \in [Channel -> Seq(Message)]
    BY <2>1, WithoutType DEF Channel
  <2>3. lost' \in 0..MaxLoss
    BY <1>9, GatewayAssumption DEF LoseMessage, Lose
  <2> QED
    BY <1>9, <2>2, <2>3 DEF LoseMessage, NodeTypeOK, PluginTypeOK, pluginVars,
       baseVars, cbbaVars, nodeVars, roleVars, serverVars, kbVars
<1>10. ASSUME NEW n \in Agent, RunWaiting(n) PROVE TypeInv'
  BY <1>10 DEF RunWaiting, vars, NodeTypeOK, PluginTypeOK, pluginVars, baseVars,
     cbbaVars, netVars, nodeVars, roleVars, serverVars, kbVars
<1>11. ASSUME NEW n \in Agent, RunSuccess(n) PROVE TypeInv'
  <2>1. PluginInv'
    BY <1>11, ResetType DEF RunSuccess, PluginInv
  <2>2. GetResult(n) \in Assignment
    BY GetResultType
  <2>3. results' \subseteq Result
    BY <1>11, <2>2, ReportType DEF RunSuccess, EndSuccess, Ticking, Status
  <2>4. kb_facts' \in [Agent -> SUBSET Fact]
    <3>1. FactsOf(n, GetResult(n)) \subseteq Fact
      BY <2>2, FactsOfType
    <3> QED  BY <1>11, <3>1 DEF RunSuccess, EndSuccess, NodeTypeOK
  <2>5. NodeTypeOK' /\ RunningHasGoal'
    BY <1>11, <2>3, <2>4 DEF RunSuccess, EndSuccess, NodeTypeOK, roleVars
  <2> QED  BY <1>11, <2>1, <2>5 DEF RunSuccess, netVars, PluginInv
<1>12. ASSUME NEW n \in Agent, RunFailure(n) PROVE TypeInv'
  <2>1. PluginInv'
    BY <1>12, ResetType DEF RunFailure, PluginInv
  <2>2. results' \subseteq Result
    BY <1>12, ReportType DEF RunFailure, EndFailure, RetractStart, Ticking, Status, Nobody, Assignment
  <2>3. NodeTypeOK' /\ RunningHasGoal'
    BY <1>12, <2>2 DEF RunFailure, EndFailure, RetractStart, NodeTypeOK, roleVars
  <2> QED  BY <1>12, <2>1, <2>3 DEF RunFailure, netVars, PluginInv
<1>13. ASSUME NEW n \in Agent, Stop(n) PROVE TypeInv'
  <2>1. PluginInv'
    BY <1>13, ResetType DEF Stop, PluginInv
  <2>2. results' \subseteq Result
    BY <1>13, ReportType DEF Stop, StopNode, RetractStart, Status, Nobody, Assignment
  <2>3. NodeTypeOK' /\ RunningHasGoal'
    BY <1>13, <2>2 DEF Stop, StopNode, RetractStart, NodeTypeOK, roleVars
  <2> QED  BY <1>13, <2>1, <2>3 DEF Stop, netVars, PluginInv
<1>14. ASSUME NEW n \in Agent, Configure(n) \/ Pause(n) \/ Resume(n), UNCHANGED cbbaVars
       PROVE  TypeInv'
  <2>1. PluginTypeOK'
    BY <1>14 DEF Configure, Pause, Resume, PluginTypeOK, baseVars, cbbaVars
  <2>2. CASE Configure(n)
    <3>1. configured' \in [Agent -> Nat]
      BY <2>2 DEF Configure, ConfigureNode, NodeTypeOK
    <3>2. NodeTypeOK' /\ RunningHasGoal'
      BY <2>2, <3>1 DEF Configure, ConfigureNode, NodeTypeOK, serverVars, kbVars
    <3> QED  BY <2>1, <2>2, <1>14, <3>2 DEF Configure, netVars, baseVars, cbbaVars
  <2>3. CASE Pause(n) \/ Resume(n)
    <3>1. NodeTypeOK' /\ RunningHasGoal'
      BY <2>3 DEF Pause, PauseNode, Resume, ResumeNode, NodeTypeOK, roleVars, kbVars
    <3> QED  BY <2>1, <2>3, <1>14, <3>1 DEF Pause, Resume, netVars, baseVars, cbbaVars
  <2> QED  BY <1>14, <2>2, <2>3
<1>15. ASSUME NEW n \in Agent, Restart(n) PROVE TypeInv'
  <2>1. PluginInv'
    BY <1>15, ResetType DEF Restart, PluginInv
  <2>2. NodeTypeOK' /\ RunningHasGoal'
    BY <1>15 DEF Restart, RestartNode, NodeTypeOK, kbVars
  <2> QED  BY <1>15, <2>1, <2>2 DEF Restart, netVars, PluginInv
<1>16. CASE UNCHANGED vars
  BY <1>16 DEF vars, NodeTypeOK, PluginTypeOK, pluginVars, baseVars,
     cbbaVars, netVars, nodeVars, roleVars, serverVars, kbVars
<1> HIDE DEF TypeInv
<1> QED
  BY <1>1, <1>2, <1>3, <1>4, <1>5, <1>6, <1>7, <1>8, <1>9, <1>10, <1>11, <1>12, <1>13,
     <1>14, <1>15, <1>16 DEF Next, Handle, Ignore, SelfGoal, OnRun, Environment

\* Every state of every behaviour has the declared types, whatever the fleet,
\* the auctions, the faults and the requests.
THEOREM TypeCorrect == Spec => []TypeOK
<1>1. TypeInv => TypeOK
  BY DEF TypeInv
<1> QED  BY <1>1, TypeInvInit, TypeInvNext, PTL DEF Spec

-----------------------------------------------------------------------------
(***************************************************************************)
(* Every step is one of four to the claims: a node receives items, or a    *)
(* bid, and tells what it then believes; or it forgets; or it does nothing *)
(* to them.                                                                *)
(***************************************************************************)
\* The only bid that comes onto the network is what node n believes then.
Says(n) == \A c \in Channel : \A m \in InFlight(net', c) :
    \/ m \in InFlight(net, c)
    \/ IsStart(m)
    \/ c[1] = n /\ m = Bid(ComputeBid(auction_items'[n], View(n)'))

SaysNothing == \A c \in Channel : InFlight(net', c) \subseteq InFlight(net, c)

Opens(n, a) ==
    /\ OnAuctionItemsReceived(n, a) /\ Says(n)
    /\ \/ a \notin submitted
       \/ Starting(net, n)
       \/ self_goals[n] # <<>> /\ ~ is_participant[n]

Hears(n, s, bid) ==
    /\ Bid(bid) \in InFlight(net, <<s, n>>)
    /\ Update(n, s, bid) /\ Says(n)

Forgets(n) == Clear(n) /\ SaysNothing

Rests == UNCHANGED <<cbbaVars, auction_items>> /\ SaysNothing

LEMMA ForwardAdds ==
    ASSUME NEW M, NEW nt \in [Channel -> Seq(M)], NEW n, NEW dests, NEW m
    PROVE  \A c \in Channel : \A x \in InFlight(Forward(nt, n, dests, m), c) :
              x \in InFlight(nt, c) \/ (c[1] = n /\ x = m)
<1> SUFFICES ASSUME NEW c \in Channel, NEW x \in InFlight(Forward(nt, n, dests, m), c)
             PROVE  x \in InFlight(nt, c) \/ (c[1] = n /\ x = m)
  OBVIOUS
<1>1. InFlight(Forward(nt, n, dests, m), c) =
          IF c[1] = n /\ c[2] \in dests /\ c[2] # n THEN InFlight(nt, c) \cup {m}
                                                 ELSE InFlight(nt, c)
  BY ForwardInFlight
<1> QED  BY <1>1

LEMMA SendBidInFlight ==
    ASSUME NEW M, NEW nt \in [Channel -> Seq(M)], NEW n, NEW dests, NEW items, NEW b
    PROVE  \A c \in Channel : \A m \in InFlight(SendBid(nt, n, dests, items, b), c) :
              m \in InFlight(nt, c) \/ (c[1] = n /\ m = Bid(b))
BY ForwardAdds DEF SendBid

LEMMA OpensAuction ==
    ASSUME TypeInv, NEW a \in Auction, NEW n \in Agent, OpenAuction(n, a)
    PROVE  OnAuctionItemsReceived(n, a) /\ Says(n)
<1> DEFINE b == ComputeBid(ItemsOf[a], FirstView(n, a))
           nt == BroadcastBid(net, n, a)
<1>1. OnAuctionItemsReceived(n, a) /\ net' = Forward(nt, n, Bidders[a], StartAuction(a))
  BY DEF OpenAuction, Send
<1>2. b = ComputeBid(auction_items'[n], View(n)')
  <2>1. auction_items'[n] = ItemsOf[a] /\ View(n)' = FirstView(n, a)
    BY <1>1, ItemsReceived DEF TypeInv, TypeOK
  <2> QED  BY <2>1
<1>3. net \in [Channel -> Seq(Message)] /\ nt \in [Channel -> Seq(Message)]
  BY BroadcastBidType DEF TypeInv, TypeOK
<1>4. nt = SendBid(net, n, Bidders[a], ItemsOf[a], b)
  BY DEF BroadcastBid
<1> HIDE DEF nt, b
<1>5. \A c \in Channel : \A m \in InFlight(nt, c) :
         m \in InFlight(net, c) \/ (c[1] = n /\ m = Bid(b))
  BY <1>3, <1>4, SendBidInFlight
<1>6. \A c \in Channel : \A m \in InFlight(net', c) :
         m \in InFlight(nt, c) \/ m = StartAuction(a)
  BY <1>1, <1>3, ForwardAdds
<1>7. IsStart(StartAuction(a))
  BY DEF IsStart, StartAuction
<1> QED  BY <1>1, <1>2, <1>5, <1>6, <1>7 DEF Says

LEMMA HandleStartIs ==
    ASSUME TypeInv, NEW s \in Agent, NEW n \in Agent, HandleStart(s, n)
    PROVE  \E a \in Auction : Opens(n, a) /\
             \E nt \in [Channel -> Seq(Message)] :
                /\ net' = BroadcastBid(nt, n, a)
                /\ \A d \in Channel : \A m \in InFlight(net, d) : m \in InFlight(nt, d) \/ IsStart(m)
<1>1. PICK k \in DOMAIN net[<<s, n>>] :
        /\ net[<<s, n>>][k].kind = "start"
        /\ OnAuctionItemsReceived(n, net[<<s, n>>][k].auction)
        /\ net' = BroadcastBid(Without(<<s, n>>, k), n, net[<<s, n>>][k].auction)
  BY DEF HandleStart, Deliverable, Send
<1> DEFINE a == net[<<s, n>>][k].auction
           nt == Without(<<s, n>>, k)
           b == ComputeBid(ItemsOf[a], FirstView(n, a))
<1>2. <<s, n>> \in Channel /\ net \in [Channel -> Seq(Message)]
  BY DEF Channel, TypeInv, TypeOK
<1>3. a \in Auction
  BY <1>1, <1>2 DEF Message
<1>4. Starting(net, n)
  BY <1>1, <1>2 DEF Starting, IsStart
<1>5. nt \in [Channel -> Seq(Message)] /\ \A c \in Channel : InFlight(nt, c) \subseteq InFlight(net, c)
  BY <1>2, WithoutType, WithoutInFlight
<1>6. net' = SendBid(nt, n, Bidders[a], ItemsOf[a], b)
  BY <1>1 DEF BroadcastBid
<1>7. b = ComputeBid(auction_items'[n], View(n)')
  <2>1. auction_items'[n] = ItemsOf[a] /\ View(n)' = FirstView(n, a)
    BY <1>1, <1>3, ItemsReceived DEF TypeInv, TypeOK
  <2> QED  BY <2>1
<1>8. OnAuctionItemsReceived(n, a) /\ net' = BroadcastBid(nt, n, a)
  BY <1>1
<1>11. \A d \in Channel : \A m \in InFlight(net, d) : m \in InFlight(nt, d) \/ IsStart(m)
  <2>1. IsStart(net[<<s, n>>][k])
    BY <1>1 DEF IsStart
  <2>2. /\ \A d \in Channel \ {<<s, n>>} : InFlight(nt, d) = InFlight(net, d)
        /\ InFlight(net, <<s, n>>) = InFlight(nt, <<s, n>>) \cup {net[<<s, n>>][k]}
    BY <1>2, WithoutInFlight
  <2> QED  BY <2>1, <2>2
<1> HIDE DEF a, nt, b
<1>9. \A c \in Channel : \A m \in InFlight(net', c) :
         m \in InFlight(nt, c) \/ (c[1] = n /\ m = Bid(b))
  BY <1>5, <1>6, SendBidInFlight
<1>10. Says(n)
  BY <1>5, <1>7, <1>9 DEF Says
<1> QED  BY <1>3, <1>4, <1>5, <1>8, <1>10, <1>11 DEF Opens

LEMMA HandleBidIs ==
    ASSUME TypeInv, NEW s \in Agent, NEW n \in Agent, HandleBid(s, n)
    PROVE  \E bid \in ClaimBid : Hears(n, s, bid) /\
             \E nt \in [Channel -> Seq(Message)] :
                /\ net' = Answer(nt, n)
                /\ \A d \in Channel : \A m \in InFlight(net, d) :
                      m \in InFlight(nt, d) \/ (d = <<s, n>> /\ m = Bid(bid))
<1>1. PICK k \in DOMAIN net[<<s, n>>] :
        /\ net[<<s, n>>][k].kind = "bid"
        /\ Update(n, s, net[<<s, n>>][k].payload)
        /\ net' = Answer(Without(<<s, n>>, k), n)
  BY DEF HandleBid, Deliverable, OnBidReceived, Send
<1> DEFINE bid == net[<<s, n>>][k].payload
           nt == Without(<<s, n>>, k)
           b == ComputeBid(auction_items[n], View(n)')
<1>2. <<s, n>> \in Channel /\ net \in [Channel -> Seq(Message)]
  BY DEF Channel, TypeInv, TypeOK
<1>3. bid \in ClaimBid /\ Bid(bid) = net[<<s, n>>][k]
  <2>1. net[<<s, n>>][k] \in [kind : {"bid"}, payload : ClaimBid]
    BY <1>1, <1>2 DEF Message
  <2> QED  BY <2>1 DEF Bid
<1>4. Bid(bid) \in InFlight(net, <<s, n>>)
  BY <1>3 DEF InFlight
<1>5. nt \in [Channel -> Seq(Message)] /\ \A c \in Channel : InFlight(nt, c) \subseteq InFlight(net, c)
  BY <1>2, WithoutType, WithoutInFlight
<1>6. UNCHANGED auction_items /\ Update(n, s, bid)
  BY <1>1, <1>3, UpdateView DEF TypeInv, TypeOK, PluginInv
<1>7. net' = nt \/ net' = SendBid(nt, n, participants[n], auction_items[n], b)
  BY <1>1 DEF Answer
<1>8. b = ComputeBid(auction_items'[n], View(n)')
  BY <1>6
<1>11. net' = Answer(nt, n) /\ \A d \in Channel : \A m \in InFlight(net, d) :
          m \in InFlight(nt, d) \/ (d = <<s, n>> /\ m = Bid(bid))
  <2>1. /\ \A d \in Channel \ {<<s, n>>} : InFlight(nt, d) = InFlight(net, d)
        /\ InFlight(net, <<s, n>>) = InFlight(nt, <<s, n>>) \cup {net[<<s, n>>][k]}
    BY <1>2, WithoutInFlight
  <2> QED  BY <1>1, <1>3, <2>1
<1> HIDE DEF bid, nt, b
<1>9. \A c \in Channel : \A m \in InFlight(net', c) :
         m \in InFlight(nt, c) \/ (c[1] = n /\ m = Bid(b))
  BY <1>5, <1>7, SendBidInFlight
<1>10. Says(n)
  BY <1>5, <1>8, <1>9 DEF Says
<1> QED  BY <1>3, <1>4, <1>5, <1>6, <1>10, <1>11 DEF Hears

\* A message that is taken off the network says nothing.
LEMMA TakingOff ==
    ASSUME TypeInv, NEW s \in Agent, NEW n \in Agent, NEW k \in DOMAIN net[<<s, n>>],
           net' = Without(<<s, n>>, k)
    PROVE  SaysNothing
<1>1. <<s, n>> \in Channel /\ net \in [Channel -> Seq(Message)]
  BY DEF Channel, TypeInv, TypeOK
<1> QED  BY <1>1, WithoutInFlight DEF SaysNothing

LEMMA StepKinds ==
    ASSUME TypeInv, [Next]_vars
    PROVE  /\ UNCHANGED cost
           /\ \/ \E n \in Agent : \E a \in Auction : Opens(n, a)
              \/ \E n, s \in Agent : \E bid \in ClaimBid : Hears(n, s, bid)
              \/ \E n \in Agent : Forgets(n)
              \/ Rests
<1> DEFINE Kinds == \/ \E n \in Agent : \E a \in Auction : Opens(n, a)
                    \/ \E n, s \in Agent : \E bid \in ClaimBid : Hears(n, s, bid)
                    \/ \E n \in Agent : Forgets(n)
                    \/ Rests
<1>0. SaysNothing \/ net' # net
  BY DEF SaysNothing
<1>1. ASSUME NEW a \in Auction, ReceiveGoal(a) PROVE Kinds /\ UNCHANGED cost
  <2>1. Auctioneer[a] \in Agent
    BY GoalAssumption
  <2>2. CASE OpenAuction(Auctioneer[a], a)
    <3>1. Opens(Auctioneer[a], a)
      BY <1>1, <2>1, <2>2, OpensAuction DEF Opens, ReceiveGoal, MaySubmit
    <3> QED  BY <1>1, <2>1, <3>1 DEF ReceiveGoal, Activate
  <2>3. CASE StartTicking(Auctioneer[a])
    BY <1>0, <1>1, <2>3 DEF StartTicking, Rests, pluginVars, netVars, baseVars, ReceiveGoal, Activate
  <2> QED  BY <1>1, <2>2, <2>3 DEF ReceiveGoal, Activate
<1>2. ASSUME NEW a \in Auction, RefuseActivation(a), UNCHANGED cbbaVars PROVE Kinds /\ UNCHANGED cost
  BY <1>0, <1>2 DEF RefuseActivation, Rests, baseVars, netVars
<1>3. ASSUME NEW s \in Agent, NEW n \in Agent, HandleStart(s, n) PROVE Kinds /\ UNCHANGED cost
  <2>1. UNCHANGED cost
    BY <1>3 DEF HandleStart
  <2> QED  BY <1>3, <2>1, HandleStartIs
<1>4. ASSUME NEW s \in Agent, NEW n \in Agent, HandleBid(s, n) PROVE Kinds /\ UNCHANGED cost
  <2>1. UNCHANGED cost
    BY <1>4 DEF HandleBid
  <2> QED  BY <1>4, <2>1, HandleBidIs
<1>5. ASSUME NEW s \in Agent, NEW n \in Agent, UNCHANGED cbbaVars,
             HandleStartUnloadable(s, n) \/ DropUnregistered(s, n) \/ LoseMessage(s, n)
      PROVE  Kinds /\ UNCHANGED cost
  <2>1. \E k \in DOMAIN net[<<s, n>>] : net' = Without(<<s, n>>, k)
    BY <1>5 DEF HandleStartUnloadable, DropUnregistered, LoseMessage, Lose, Deliverable
  <2>2. UNCHANGED <<cost, auction_items>>
    BY <1>5 DEF HandleStartUnloadable, DropUnregistered, LoseMessage, baseVars
  <2> QED  BY <1>5, <2>1, <2>2, TakingOff DEF Rests
<1>6. ASSUME NEW n \in Agent, ReceiveSelfGoal(n) PROVE Kinds /\ UNCHANGED cost
  <2>1. self_goals[n] \in Seq(Auction) /\ self_goals[n] # <<>>
    BY <1>6 DEF ReceiveSelfGoal, TypeInv, TypeOK, NodeTypeOK
  <2>2. Head(self_goals[n]) \in Auction
    BY <2>1, HeadTailProperties
  <2>3. CASE StartTicking(n)
    BY <1>0, <1>6, <2>3 DEF StartTicking, Rests, pluginVars, netVars, baseVars, ReceiveSelfGoal, Activate
  <2>4. CASE OpenAuction(n, Head(self_goals[n]))
    <3>1. Opens(n, Head(self_goals[n]))
      BY <2>1, <2>2, <2>4, OpensAuction DEF Opens, OpenAuction
    <3> QED  BY <1>6, <2>2, <3>1 DEF ReceiveSelfGoal, Activate
  <2> QED  BY <1>6, <2>3, <2>4 DEF ReceiveSelfGoal, Activate
<1>7. ASSUME NEW n \in Agent, RefuseSelfGoal(n), UNCHANGED cbbaVars PROVE Kinds /\ UNCHANGED cost
  BY <1>0, <1>7 DEF RefuseSelfGoal, Rests, baseVars, netVars
<1>8. ASSUME NEW n \in Agent, RunSuccess(n) \/ RunFailure(n) \/ Stop(n) \/ Restart(n)
      PROVE  Kinds /\ UNCHANGED cost
  <2>1. Clear(n) /\ UNCHANGED <<cost, net>>
    BY <1>8 DEF RunSuccess, RunFailure, Stop, Restart, Reset, NewPlugin, netVars
  <2> QED  BY <1>0, <2>1 DEF Forgets
<1>9. ASSUME NEW n \in Agent, Configure(n) \/ Pause(n) \/ Resume(n), UNCHANGED cbbaVars
      PROVE  Kinds /\ UNCHANGED cost
  BY <1>0, <1>9 DEF Configure, Pause, Resume, Rests, baseVars, netVars
<1>10. CASE UNCHANGED vars
  BY <1>0, <1>10 DEF vars, Rests, pluginVars, baseVars, netVars
<1>11. ASSUME NEW n \in Agent, RunWaiting(n) PROVE UNCHANGED vars
  BY <1>11 DEF RunWaiting
<1> HIDE DEF Kinds
<1> QED
  BY <1>1, <1>2, <1>3, <1>4, <1>5, <1>6, <1>7, <1>8, <1>9, <1>10, <1>11
     DEF Kinds, Next, Handle, Ignore, SelfGoal, OnRun, Environment

-----------------------------------------------------------------------------
(***************************************************************************)
(* Claims are never made up.  A claim is alive in a view or in a bid on    *)
(* its way; a live claim is a cost, below Infinity, of the agent it names. *)
(***************************************************************************)
Price == CostValue \cup {Infinity, NoBid}

\* Somebody believes, or is about to be told, that w wins item i at price p.
Alive(i, p, w) ==
    \/ \E n \in Agent : y[n][i] = p /\ z[n][i] = w
    \/ \E c \in Channel : \E m \in InFlight(net, c) :
          ~ IsStart(m) /\ m.payload.y[i] = p /\ m.payload.z[i] = w

CostOf(i, p, w) == \E a \in Auction : i \in ItemsOf[a] /\ p = cost[a][w][i]

ClaimsTrue == \A i \in Item, w \in Agent : \A p \in Price :
    Alive(i, p, w) => p < Infinity /\ CostOf(i, p, w)

\* Nobody wins an item at Infinity only.
UnclaimedFree ==
    /\ \A n \in Agent, i \in Item : z[n][i] = NoAgent => y[n][i] = Infinity
    /\ \A c \in Channel : \A m \in InFlight(net, c) : ~ IsStart(m) =>
          \A i \in Item : m.payload.z[i] = NoAgent => m.payload.y[i] \in {Infinity, NoBid}

CostsTrue == \A n \in Agent, i \in Item : costs[n][i] # NoBid => CostOf(i, costs[n][i], n)

\* Every item of the auction or in the bundle has its entry in y and z.
Entered == \A n \in Agent : auction_items[n] \cup Range(bundle[n]) \subseteq entries[n]

Truth == ClaimsTrue /\ UnclaimedFree /\ CostsTrue /\ Entered

\* What a node believes of each item after items arrived.
LEMMA OpenedBelief ==
    ASSUME cost \in CostTable, PluginTypeOK, NEW n \in Agent, NEW a \in Auction,
           OnAuctionItemsReceived(n, a)
    PROVE  /\ \A i \in Item :
                 \/ i \notin ItemsOf[a] /\ y'[n][i] = y[n][i] /\ z'[n][i] = z[n][i]
                 \/ i \in ItemsOf[a] /\ y'[n][i] = Infinity /\ z'[n][i] = NoAgent
                 \/ /\ i \in ItemsOf[a] /\ cost[a][n][i] < Infinity
                    /\ y'[n][i] = cost[a][n][i] /\ z'[n][i] = n
           /\ Range(bundle'[n]) \subseteq Range(bundle[n]) \cup ItemsOf[a]
<1> DEFINE c == CostsOn(n, a)
           v == WipedView(n, a)
           T == Taken(n, c, ItemsOf[a], v)
           w == FirstView(n, a)
<1>1. /\ c \in CostVector /\ v \in ViewType /\ Priceable(c, ItemsOf[a])
      /\ w = BuildBundle(n, c, ItemsOf[a], v)
  BY FirstViewType
<1>2. /\ \A i \in Item : /\ w.y[i] = IF i \in T /\ v.z[i] # n THEN c[i] ELSE v.y[i]
                         /\ w.z[i] = IF i \in T THEN n ELSE v.z[i]
      /\ Range(w.bundle) = Range(v.bundle) \cup T
  BY <1>1, BuildBundleFacts
<1>3. y'[n] = w.y /\ z'[n] = w.z /\ bundle'[n] = w.bundle
  <2>1. View(n)' = w
    BY ItemsReceived
  <2> HIDE DEF w
  <2> QED  BY <2>1 DEF View
<1>4. \A i \in T : i \in ItemsOf[a] /\ c[i] < Infinity
  BY DEF Taken, Claimable
<1>5. \A i \in Item : /\ c[i] = IF i \in ItemsOf[a] THEN cost[a][n][i] ELSE costs[n][i]
                      /\ v.y[i] = IF i \in ItemsOf[a] THEN Infinity ELSE y[n][i]
                      /\ v.z[i] = IF i \in ItemsOf[a] THEN NoAgent ELSE z[n][i]
  BY DEF CostsOn, WipedView
<1>6. v.bundle = bundle[n] /\ n # NoAgent
  BY AgentAssumption DEF WipedView
<1> HIDE DEF c, v, T, w
<1>7. \A i \in Item :
         \/ i \notin ItemsOf[a] /\ y'[n][i] = y[n][i] /\ z'[n][i] = z[n][i]
         \/ i \in ItemsOf[a] /\ y'[n][i] = Infinity /\ z'[n][i] = NoAgent
         \/ /\ i \in ItemsOf[a] /\ cost[a][n][i] < Infinity
            /\ y'[n][i] = cost[a][n][i] /\ z'[n][i] = n
  BY <1>2, <1>3, <1>4, <1>5, <1>6
<1>8. Range(bundle'[n]) \subseteq Range(bundle[n]) \cup ItemsOf[a]
  BY <1>2, <1>3, <1>4, <1>6
<1> QED  BY <1>7, <1>8

\* What it believes after a bid.
LEMMA HeardBelief ==
    ASSUME PluginInv, NEW n \in Agent, NEW s, NEW bid \in ClaimBid, Update(n, s, bid)
    PROVE  /\ \A i \in Item :
                 \/ y'[n][i] = y[n][i] /\ z'[n][i] = z[n][i]
                 \/ /\ i \in auction_items[n] /\ Beats(bid, View(n), i)
                    /\ y'[n][i] = bid.y[i] /\ z'[n][i] = bid.z[i]
                 \/ /\ i \in auction_items[n] /\ costs[n][i] < Infinity
                    /\ costs[n][i] < y[n][i]
                    /\ y'[n][i] = costs[n][i] /\ z'[n][i] = n
           /\ Range(bundle'[n]) \subseteq Range(bundle[n]) \cup auction_items[n]
<1> DEFINE c == costs[n]
           items == auction_items[n]
           v == View(n)
           w == Updated(n, c, items, v, bid)
<1>1. c \in CostVector /\ v \in ViewType /\ Priceable(c, items)
  BY ViewIsTyped DEF PluginInv, PluginTypeOK, AllPriceable
<1>2. /\ Range(w.bundle) \subseteq Range(v.bundle) \cup items
      /\ \A i \in Item : \/ Keeps(w, v, i)
                         \/ TakesOver(items, w, v, bid, i)
                         \/ Undercuts(n, c, items, w, v, i)
  BY <1>1, UpdatedBelief
<1>3. y'[n] = w.y /\ z'[n] = w.z /\ bundle'[n] = w.bundle
  <2>1. View(n)' = w
    BY UpdateView
  <2> HIDE DEF w
  <2> QED  BY <2>1 DEF View
<1>4. v.y = y[n] /\ v.z = z[n] /\ v.bundle = bundle[n]
  BY DEF View
<1>5. \A i : i \in Adopted(items, v, bid) => i \in items /\ Beats(bid, v, i)
  BY DEF Adopted
<1> HIDE DEF v, w
<1>6. \A i \in Item :
         \/ y'[n][i] = y[n][i] /\ z'[n][i] = z[n][i]
         \/ /\ i \in auction_items[n] /\ Beats(bid, v, i)
            /\ y'[n][i] = bid.y[i] /\ z'[n][i] = bid.z[i]
         \/ /\ i \in auction_items[n] /\ costs[n][i] < Infinity
            /\ costs[n][i] < y[n][i]
            /\ y'[n][i] = costs[n][i] /\ z'[n][i] = n
  BY <1>2, <1>3, <1>4, <1>5 DEF Keeps, TakesOver, Undercuts
<1> QED  BY <1>2, <1>3, <1>4, <1>6 DEF v

\* A claim that comes alive is one the node that speaks has come to believe.
LEMMA NewClaims ==
    ASSUME NEW n \in Agent, Says(n),
           \A m \in Agent \ {n} : y'[m] = y[m] /\ z'[m] = z[m],
           NEW i \in Item, NEW w \in Agent, NEW p, Alive(i, p, w)'
    PROVE  Alive(i, p, w) \/ (y'[n][i] = p /\ z'[n][i] = w)
<1>1. CASE \E m \in Agent : y'[m][i] = p /\ z'[m][i] = w
  BY <1>1 DEF Alive
<1>2. CASE \E c \in Channel : \E m \in InFlight(net', c) :
              ~ IsStart(m) /\ m.payload.y[i] = p /\ m.payload.z[i] = w
  <2>1. PICK c \in Channel : \E m \in InFlight(net', c) :
              ~ IsStart(m) /\ m.payload.y[i] = p /\ m.payload.z[i] = w
    BY <1>2
  <2>2. PICK m \in InFlight(net', c) :
              ~ IsStart(m) /\ m.payload.y[i] = p /\ m.payload.z[i] = w
    BY <2>1
  <2>3. CASE m \in InFlight(net, c)
    BY <2>2, <2>3 DEF Alive
  <2>4. CASE m = Bid(ComputeBid(auction_items'[n], View(n)'))
    <3>1. m.payload = ComputeBid(auction_items'[n], View(n)')
      BY <2>4 DEF Bid
    <3>2. /\ m.payload.y[i] = IF i \in auction_items'[n] THEN y'[n][i] ELSE NoBid
          /\ m.payload.z[i] = IF i \in auction_items'[n] THEN z'[n][i] ELSE NoAgent
      BY <3>1 DEF ComputeBid, View
    <3> QED  BY <2>2, <3>2, AgentAssumption
  <2> QED  BY <2>2, <2>3, <2>4 DEF Says
<1> QED  BY <1>1, <1>2 DEF Alive

\* None comes alive when nobody speaks and beliefs are kept or forgotten.
LEMMA NoNewClaims ==
    ASSUME SaysNothing,
           \A m \in Agent : \/ y'[m] = y[m] /\ z'[m] = z[m]
                            \/ y'[m] = Unclaimed /\ z'[m] = Nobody,
           NEW i \in Item, NEW w \in Agent, NEW p, Alive(i, p, w)'
    PROVE  Alive(i, p, w)
<1>1. CASE \E m \in Agent : y'[m][i] = p /\ z'[m][i] = w
  BY <1>1, AgentAssumption DEF Alive, Nobody
<1>2. CASE \E c \in Channel : \E m \in InFlight(net', c) :
              ~ IsStart(m) /\ m.payload.y[i] = p /\ m.payload.z[i] = w
  BY <1>2 DEF Alive, SaysNothing
<1> QED  BY <1>1, <1>2 DEF Alive

\* What a step of each kind leaves of the beliefs.
LEMMA ForgetsBelief ==
    ASSUME PluginTypeOK, NEW n \in Agent, Clear(n)
    PROVE  /\ y'[n] = Unclaimed /\ z'[n] = Nobody /\ bundle'[n] = <<>>
           /\ costs'[n] = NoCosts /\ auction_items'[n] = {} /\ changed'[n] = FALSE
           /\ entries'[n] = {}
           /\ \A m \in Agent \ {n} : /\ y'[m] = y[m] /\ z'[m] = z[m] /\ bundle'[m] = bundle[m]
                                     /\ costs'[m] = costs[m] /\ changed'[m] = changed[m]
                                     /\ auction_items'[m] = auction_items[m]
                                     /\ entries'[m] = entries[m]
BY DEF PluginTypeOK, Clear

\* What a node believes is Infinity and nobody, or a live claim below it.
LEMMA BeliefPrice ==
    ASSUME TypeInv, Truth, NEW n \in Agent, NEW i \in Item
    PROVE  /\ y[n][i] \in Price /\ y[n][i] \in Int /\ y[n][i] <= Infinity
           /\ z[n][i] = NoAgent => y[n][i] = Infinity
           /\ z[n][i] # NoAgent => /\ z[n][i] \in Agent /\ y[n][i] < Infinity
                                   /\ Alive(i, y[n][i], z[n][i])
                                   /\ CostOf(i, y[n][i], z[n][i])
<1>1. y[n][i] \in CostValue \cup {Infinity} /\ z[n][i] \in Agent \cup {NoAgent}
  BY DEF TypeInv, TypeOK, PluginTypeOK, Claims, Assignment
<1>2. y[n][i] \in Price /\ y[n][i] \in Int /\ Infinity \in Int
  BY <1>1, CostAssumption DEF Price
<1>3. z[n][i] = NoAgent => y[n][i] = Infinity
  BY DEF Truth, UnclaimedFree
<1>4. z[n][i] # NoAgent => /\ z[n][i] \in Agent /\ Alive(i, y[n][i], z[n][i])
  BY <1>1 DEF Alive
<1>5. z[n][i] # NoAgent => y[n][i] < Infinity /\ CostOf(i, y[n][i], z[n][i])
  BY <1>2, <1>4 DEF Truth, ClaimsTrue
<1> QED  BY <1>2, <1>3, <1>4, <1>5

\* A claim that beats a belief names somebody, and is alive.
LEMMA BeatingClaim ==
    ASSUME TypeInv, Truth, NEW n \in Agent, NEW c \in Channel, NEW bid \in ClaimBid,
           Bid(bid) \in InFlight(net, c), NEW i \in Item, Beats(bid, View(n), i)
    PROVE  /\ bid.z[i] \in Agent /\ bid.y[i] \in Price /\ bid.y[i] \in Int
           /\ Alive(i, bid.y[i], bid.z[i])
<1>1. bid.y[i] \in CostValue \cup {Infinity, NoBid} /\ bid.z[i] \in Agent \cup {NoAgent}
  BY DEF ClaimBid, Assignment
<1>2. bid.y[i] # NoBid /\ bid.y[i] \in CostValue \cup {Infinity}
  BY <1>1 DEF Beats
<1>3. bid.y[i] \in Int /\ Infinity \in Int
  BY <1>2, CostAssumption
<1>4. ~ IsStart(Bid(bid)) /\ Bid(bid).payload = bid
  BY DEF IsStart, Bid
<1>5. bid.z[i] # NoAgent
  <2> SUFFICES ASSUME bid.z[i] = NoAgent PROVE FALSE
    OBVIOUS
  <2>1. bid.y[i] = Infinity
    <3>1. Bid(bid).payload.z[i] = NoAgent => Bid(bid).payload.y[i] \in {Infinity, NoBid}
      BY <1>4 DEF Truth, UnclaimedFree
    <3> QED  BY <1>2, <1>4, <3>1
  <2>2. Infinity < y[n][i]
    BY <2>1 DEF Beats, View
  <2> QED  BY <1>3, <2>2, BeliefPrice
<1>6. Alive(i, bid.y[i], bid.z[i])
  BY <1>4 DEF Alive
<1> QED  BY <1>1, <1>3, <1>5, <1>6 DEF Price

LEMMA TruthInit == Init => Truth
<1> SUFFICES ASSUME Init PROVE Truth
  OBVIOUS
<1>1. \A c \in Channel : InFlight(net, c) = {}
  BY DEF Init, InFlight
<1>2. \A n \in Agent : /\ \A i \in Item : /\ y[n][i] = Infinity /\ z[n][i] = NoAgent
                                          /\ costs[n][i] = NoBid
                       /\ Range(bundle[n]) = {} /\ auction_items[n] = {}
  BY DEF Init, PluginInit, Unclaimed, Nobody, NoCosts, Range
<1>3. \A i \in Item, w \in Agent : \A p \in Price : ~ Alive(i, p, w)
  BY <1>1, <1>2, AgentAssumption DEF Alive
<1> QED  BY <1>1, <1>2, <1>3 DEF Truth, ClaimsTrue, UnclaimedFree, CostsTrue, Entered

\* The messages a speaking node adds leave an item without a name unpriced.
LEMMA SaysUnclaimed ==
    ASSUME NEW n \in Agent, Says(n), UnclaimedFree,
           \A m \in Agent, i \in Item : z'[m][i] = NoAgent => y'[m][i] = Infinity
    PROVE  UnclaimedFree'
<1> SUFFICES ASSUME NEW c \in Channel, NEW m \in InFlight(net', c), ~ IsStart(m),
                    NEW i \in Item, m.payload.z[i] = NoAgent
             PROVE  m.payload.y[i] \in {Infinity, NoBid}
  BY DEF UnclaimedFree
<1>1. CASE m \in InFlight(net, c)
  BY <1>1 DEF UnclaimedFree
<1>2. CASE m = Bid(ComputeBid(auction_items'[n], View(n)'))
  <2>1. m.payload = ComputeBid(auction_items'[n], View(n)')
    BY <1>2 DEF Bid
  <2>2. /\ m.payload.y[i] = IF i \in auction_items'[n] THEN y'[n][i] ELSE NoBid
        /\ m.payload.z[i] = IF i \in auction_items'[n] THEN z'[n][i] ELSE NoAgent
    BY <2>1 DEF ComputeBid, View
  <2> QED  BY <2>2
<1> QED  BY <1>1, <1>2 DEF Says

LEMMA TruthOpens ==
    ASSUME TypeInv, Truth, UNCHANGED cost, NEW n \in Agent, NEW a \in Auction, Opens(n, a)
    PROVE  Truth'
<1>1. /\ OnAuctionItemsReceived(n, a) /\ Says(n) /\ cost \in CostTable /\ PluginTypeOK
      /\ ItemsOf[a] \subseteq Item
  BY GoalAssumption DEF Opens, TypeInv, TypeOK
<1>2. /\ costs'[n] = CostsOn(n, a)
      /\ \A m \in Agent \ {n} : /\ costs'[m] = costs[m] /\ y'[m] = y[m] /\ z'[m] = z[m]
                                /\ bundle'[m] = bundle[m]
  BY <1>1, ItemsReceived
<1>3. /\ \A i \in Item :
            \/ i \notin ItemsOf[a] /\ y'[n][i] = y[n][i] /\ z'[n][i] = z[n][i]
            \/ i \in ItemsOf[a] /\ y'[n][i] = Infinity /\ z'[n][i] = NoAgent
            \/ /\ i \in ItemsOf[a] /\ cost[a][n][i] < Infinity
               /\ y'[n][i] = cost[a][n][i] /\ z'[n][i] = n
      /\ Range(bundle'[n]) \subseteq Range(bundle[n]) \cup ItemsOf[a]
  BY <1>1, OpenedBelief
<1>4. \A i, p, w : CostOf(i, p, w)' <=> CostOf(i, p, w)
  BY DEF CostOf
<1>5. n # NoAgent
  BY AgentAssumption
<1>6. ClaimsTrue'
  <2> SUFFICES ASSUME NEW i \in Item, NEW w \in Agent, NEW p \in Price, Alive(i, p, w)'
               PROVE  p < Infinity /\ CostOf(i, p, w)
    BY <1>4 DEF ClaimsTrue
  <2>1. CASE Alive(i, p, w)
    BY <2>1 DEF Truth, ClaimsTrue
  <2>2. CASE y'[n][i] = p /\ z'[n][i] = w
    <3>1. CASE y'[n][i] = y[n][i] /\ z'[n][i] = z[n][i]
      BY <2>1, <2>2, <3>1 DEF Alive
    <3>2. CASE i \in ItemsOf[a] /\ cost[a][n][i] < Infinity /\ y'[n][i] = cost[a][n][i] /\ z'[n][i] = n
      BY <2>2, <3>2 DEF CostOf
    <3> QED  BY <1>3, <2>2, <3>1, <3>2, AgentAssumption
  <2> QED  BY <1>1, <1>2, <2>1, <2>2, NewClaims
<1>7. UnclaimedFree'
  <2>1. \A m \in Agent, i \in Item : z'[m][i] = NoAgent => y'[m][i] = Infinity
    <3>1. \A i \in Item : z'[n][i] = NoAgent => y'[n][i] = Infinity
      BY <1>3, <1>5 DEF Truth, UnclaimedFree
    <3> QED  BY <1>2, <3>1 DEF Truth, UnclaimedFree
  <2> QED  BY <1>1, <2>1, SaysUnclaimed DEF Truth
<1>8. CostsTrue'
  <2>1. \A i \in Item : CostsOn(n, a)[i] # NoBid => CostOf(i, CostsOn(n, a)[i], n)
    BY DEF CostsOn, CostOf, Truth, CostsTrue
  <2> QED  BY <1>2, <1>4, <2>1 DEF Truth, CostsTrue
<1>9. Entered'
  <2>1. auction_items'[n] \cup Range(bundle'[n]) \subseteq entries'[n]
    BY <1>1, <1>3, ItemsReceived DEF Truth, Entered
  <2> QED  BY <1>1, <1>2, <2>1, ItemsReceived DEF Truth, Entered
<1> QED  BY <1>6, <1>7, <1>8, <1>9 DEF Truth

LEMMA TruthHears ==
    ASSUME TypeInv, Truth, UNCHANGED cost, NEW n \in Agent, NEW s \in Agent,
           NEW bid \in ClaimBid, Hears(n, s, bid)
    PROVE  Truth'
<1>1. /\ Update(n, s, bid) /\ Says(n) /\ PluginInv /\ <<s, n>> \in Channel
      /\ Bid(bid) \in InFlight(net, <<s, n>>)
  BY DEF Hears, TypeInv, TypeOK, PluginInv, Channel
<1>2. /\ UNCHANGED costs
      /\ \A m \in Agent \ {n} : y'[m] = y[m] /\ z'[m] = z[m] /\ bundle'[m] = bundle[m]
  BY <1>1, UpdateView
<1>3. /\ \A i \in Item :
            \/ y'[n][i] = y[n][i] /\ z'[n][i] = z[n][i]
            \/ /\ i \in auction_items[n] /\ Beats(bid, View(n), i)
               /\ y'[n][i] = bid.y[i] /\ z'[n][i] = bid.z[i]
            \/ /\ i \in auction_items[n] /\ costs[n][i] < Infinity
               /\ costs[n][i] < y[n][i]
               /\ y'[n][i] = costs[n][i] /\ z'[n][i] = n
      /\ Range(bundle'[n]) \subseteq Range(bundle[n]) \cup auction_items[n]
  BY <1>1, HeardBelief
<1>4. \A i, p, w : CostOf(i, p, w)' <=> CostOf(i, p, w)
  BY DEF CostOf
<1>5. n # NoAgent /\ \A i \in auction_items[n] : costs[n][i] # NoBid
  BY AgentAssumption DEF TypeInv, AllPriceable, Priceable
<1>6. \A i \in Item : Beats(bid, View(n), i) =>
         bid.z[i] \in Agent /\ bid.y[i] \in Price /\ Alive(i, bid.y[i], bid.z[i])
  BY <1>1, BeatingClaim
<1>7. ClaimsTrue'
  <2> SUFFICES ASSUME NEW i \in Item, NEW w \in Agent, NEW p \in Price, Alive(i, p, w)'
               PROVE  p < Infinity /\ CostOf(i, p, w)
    BY <1>4 DEF ClaimsTrue
  <2>1. CASE Alive(i, p, w)
    BY <2>1 DEF Truth, ClaimsTrue
  <2>2. CASE y'[n][i] = p /\ z'[n][i] = w
    <3>1. CASE y'[n][i] = y[n][i] /\ z'[n][i] = z[n][i]
      BY <2>1, <2>2, <3>1 DEF Alive
    <3>2. CASE Beats(bid, View(n), i) /\ y'[n][i] = bid.y[i] /\ z'[n][i] = bid.z[i]
      BY <1>6, <2>1, <2>2, <3>2
    <3>3. CASE /\ i \in auction_items[n] /\ costs[n][i] < Infinity
               /\ y'[n][i] = costs[n][i] /\ z'[n][i] = n
      BY <1>5, <2>2, <3>3 DEF Truth, CostsTrue
    <3> QED  BY <1>3, <3>1, <3>2, <3>3
  <2> QED  BY <1>1, <1>2, <2>1, <2>2, NewClaims
<1>8. UnclaimedFree'
  <2>1. \A i \in Item : z'[n][i] = NoAgent => y'[n][i] = Infinity
    BY <1>3, <1>5, <1>6, AgentAssumption DEF Truth, UnclaimedFree
  <2>2. \A m \in Agent, i \in Item : z'[m][i] = NoAgent => y'[m][i] = Infinity
    BY <1>2, <2>1 DEF Truth, UnclaimedFree
  <2> QED  BY <1>1, <2>2, SaysUnclaimed DEF Truth
<1>9. CostsTrue'
  BY <1>2, <1>4 DEF Truth, CostsTrue
<1>10. Entered'
  <2>1. UNCHANGED <<auction_items, entries>>
    BY <1>1, UpdateView
  <2>2. auction_items'[n] \cup Range(bundle'[n]) \subseteq entries'[n]
    BY <1>3, <2>1 DEF Truth, Entered
  <2> QED  BY <1>2, <2>1, <2>2 DEF Truth, Entered
<1> QED  BY <1>7, <1>8, <1>9, <1>10 DEF Truth

LEMMA TruthNext == TypeInv /\ Truth /\ [Next]_vars => Truth'
<1> SUFFICES ASSUME TypeInv, Truth, [Next]_vars PROVE Truth'
  OBVIOUS
<1>1. /\ UNCHANGED cost
      /\ \/ \E n \in Agent : \E a \in Auction : Opens(n, a)
         \/ \E n, s \in Agent : \E bid \in ClaimBid : Hears(n, s, bid)
         \/ \E n \in Agent : Forgets(n)
         \/ Rests
  BY StepKinds
<1>2. \A i, p, w : CostOf(i, p, w)' <=> CostOf(i, p, w)
  BY <1>1 DEF CostOf
<1>3. ASSUME SaysNothing,
             \A m \in Agent : \/ y'[m] = y[m] /\ z'[m] = z[m]
                              \/ y'[m] = Unclaimed /\ z'[m] = Nobody
      PROVE  ClaimsTrue' /\ UnclaimedFree'
  <2>1. ClaimsTrue'
    <3> SUFFICES ASSUME NEW i \in Item, NEW w \in Agent, NEW p \in Price, Alive(i, p, w)'
                 PROVE  p < Infinity /\ CostOf(i, p, w)
      BY <1>2 DEF ClaimsTrue
    <3> QED  BY <1>3, NoNewClaims DEF Truth, ClaimsTrue
  <2>2. \A m \in Agent, i \in Item : z'[m][i] = NoAgent => y'[m][i] = Infinity
    BY <1>3 DEF Truth, UnclaimedFree, Unclaimed, Nobody
  <2>3. UnclaimedFree'
    BY <1>3, <2>2 DEF UnclaimedFree, SaysNothing, Truth
  <2> QED  BY <2>1, <2>3
<1>4. ASSUME NEW n \in Agent, Forgets(n) PROVE Truth'
  <2>1. /\ y'[n] = Unclaimed /\ z'[n] = Nobody /\ bundle'[n] = <<>> /\ costs'[n] = NoCosts
        /\ auction_items'[n] = {}
        /\ \A m \in Agent \ {n} : /\ y'[m] = y[m] /\ z'[m] = z[m] /\ bundle'[m] = bundle[m]
                                  /\ costs'[m] = costs[m] /\ entries'[m] = entries[m]
                                  /\ auction_items'[m] = auction_items[m]
    BY <1>4, ForgetsBelief DEF Forgets, TypeInv, TypeOK
  <2>2. ClaimsTrue' /\ UnclaimedFree'
    BY <1>3, <1>4, <2>1 DEF Forgets
  <2>3. CostsTrue' /\ Entered'
    BY <1>2, <2>1 DEF Truth, CostsTrue, Entered, NoCosts, Range
  <2> QED  BY <2>2, <2>3 DEF Truth
<1>5. CASE Rests
  <2>1. ClaimsTrue' /\ UnclaimedFree'
    BY <1>3, <1>5 DEF Rests, cbbaVars
  <2>2. CostsTrue' /\ Entered'
    BY <1>2, <1>5 DEF Truth, CostsTrue, Entered, Rests, cbbaVars
  <2> QED  BY <2>1, <2>2 DEF Truth
<1> QED  BY <1>1, <1>4, <1>5, TruthOpens, TruthHears

LEMMA TruthAlways == Spec => [](TypeInv /\ Truth)
BY TypeInvInit, TypeInvNext, TruthInit, TruthNext, PTL DEF Spec

\* Whatever auctions overlap, whoever restarts and whatever is lost, a claim
\* in a view or in a bid is at a cost of the very agent it names.
THEOREM ClaimsAreAlwaysCosts == Spec => []ClaimsAreCosts
<1>1. ASSUME TypeInv, Truth PROVE ClaimsAreCosts
  <2>1. ASSUME NEW n \in Agent, NEW i \in auction_items[n] PROVE TrueClaim(View(n), i)
    <3>1. i \in Item /\ View(n).y = y[n] /\ View(n).z = z[n]
      BY <1>1 DEF TypeInv, TypeOK, PluginTypeOK, View
    <3> QED  BY <1>1, <3>1, BeliefPrice DEF TrueClaim, CostOf
  <2>2. ASSUME NEW c \in Channel, NEW k \in DOMAIN net[c], net[c][k].kind = "bid", NEW i \in Item
        PROVE  TrueClaim(net[c][k].payload, i)
    <3> DEFINE b == net[c][k].payload
    <3>1. net[c] \in Seq(Message) /\ net[c][k] \in Message /\ b \in ClaimBid
      BY <1>1, <2>2 DEF TypeInv, TypeOK, Message
    <3>2. b.z[i] \in Agent \cup {NoAgent} /\ b.y[i] \in Price
      BY <3>1 DEF ClaimBid, Assignment, Price
    <3>3. net[c][k] \in InFlight(net, c) /\ ~ IsStart(net[c][k])
      BY <2>2 DEF InFlight, IsStart
    <3>4. b.z[i] # NoAgent => Alive(i, b.y[i], b.z[i])
      BY <3>3 DEF Alive
    <3> HIDE DEF b
    <3>5. b.z[i] # NoAgent => CostOf(i, b.y[i], b.z[i])
      BY <1>1, <3>2, <3>4 DEF Truth, ClaimsTrue
    <3> QED  BY <3>5 DEF TrueClaim, CostOf, b
  <2> QED  BY <2>1, <2>2 DEF ClaimsAreCosts
<1> QED  BY <1>1, TruthAlways, PTL

\* However auctions overlap, everything the plugin looks up is there.
THEOREM LookupsAlwaysSucceed == Spec => []LookupsSucceed
<1>1. ASSUME TypeInv, Truth PROVE LookupsSucceed
  BY <1>1 DEF LookupsSucceed, TypeInv, AllPriceable, Priceable, Truth, Entered
<1> QED  BY <1>1, TruthAlways, PTL

=============================================================================
