--------------------------- MODULE CbbaBundleProofs ---------------------------
(***************************************************************************)
(* One auction among nodes that run the cbba plugin: what they believe     *)
(* only improves, they refine ClaimGossip, each agent's bundle is what it  *)
(* believes it wins and what it would choose, and the auctioneer comes to  *)
(* know the best claims.                                                   *)
(***************************************************************************)
EXTENDS CbbaAuctionProofs

\* Some live claim names agent n.
Named(n) == \E i \in Item : \E p \in Price : Alive(i, p, n)

\* Node n may still be asked to bid.
MayJoin(n) == Auction # submitted \/ Starting(net, n)

\* Nobody is named that may still be asked.
NamedLater == \A n \in Agent : MayJoin(n) => ~ Named(n)

\* A node that does not bid believes nothing.
Blank == \A n \in Agent : ~ Bidding(n) =>
    y[n] = Unclaimed /\ z[n] = Nobody /\ bundle[n] = <<>>

\* A node that bids believes, of every claim that names it, no worse: such a
\* claim never beats its own belief.
KnowsOwn == \A n \in Agent : Bidding(n) =>
    \A i \in Item : \A p \in Price : Alive(i, p, n) =>
        y[n][i] < p \/ (y[n][i] = p /\ z[n][i] \in 1..n)

GoodBundles == \A n \in Agent : Bidding(n) =>
    /\ Holds(n, auction_items[n], View(n))
    /\ Content(n, costs[n], auction_items[n], View(n))

BundleInv == JoinsOnce /\ NamedLater /\ Blank /\ KnowsOwn /\ GoodBundles

-----------------------------------------------------------------------------
(***************************************************************************)
(* With one auction a node joins it, and ends it, at most once.            *)
(***************************************************************************)
LEMMA BroadcastStarts ==
    ASSUME cost \in CostTable, PluginTypeOK, NEW nt \in [Channel -> Seq(Message)],
           NEW n \in Agent, NEW a \in Auction
    PROVE  /\ OneStart(nt) => OneStart(BroadcastBid(nt, n, a))
           /\ \A m \in Agent : Starting(BroadcastBid(nt, n, a), m) => Starting(nt, m)
BY BidStarts DEF BroadcastBid, SendBid

\* A node that may be asked now could be asked before.
LEMMA JoinsOnceNext ==
    ASSUME OneAuction, TypeInv, JoinsOnce, [Next]_vars
    PROVE  /\ JoinsOnce' /\ \A m \in Agent : MayJoin(m)' => MayJoin(m)
           /\ \A a \in Auction : Starting(net', Auctioneer[a]) => Starting(net, Auctioneer[a])
<1> DEFINE Kept == UNCHANGED submitted /\ \A m \in Agent : Starting(net', m) => Starting(net, m)
           Good == /\ JoinsOnce' /\ (Auction # submitted \/ Kept)
                   /\ \A a \in Auction : Starting(net', Auctioneer[a]) => Starting(net, Auctioneer[a])
<1>0. \A a \in Auction : Auctioneer[a] \in Agent
  BY GoalAssumption
<1>1. JoinTypes /\ cost \in CostTable /\ PluginTypeOK
  BY DEF JoinTypes, TypeInv, TypeOK, NodeTypeOK, PluginTypeOK
<1>2. net \in [Channel -> Seq(Message)] /\ OneStart(net)
  BY DEF TypeInv, TypeOK, JoinsOnce
<1>3. ASSUME NEW n \in Agent, NEW a \in Auction, OnAuctionItemsReceived(n, a)
      PROVE  \A m \in Agent \ {n} : auction_items'[m] = auction_items[m]
  BY <1>1, <1>3, ItemsReceived
<1>4. ASSUME NEW a \in Auction, ReceiveGoal(a) PROVE Good
  <2> DEFINE A == Auctioneer[a]
  <2>1. /\ MaySubmit(a) /\ ActivateNode(A, a, a) /\ UNCHANGED self_goals
        /\ submitted' = submitted \cup {a} /\ A \in Agent
    BY <1>4, GoalAssumption DEF ReceiveGoal, Activate
  <2>2. \A n \in Agent : Outside(n) /\ ~ Starting(net, n)
    BY <2>1 DEF JoinsOnce, MaySubmit
  <2>3. OpenAuction(A, a)
    BY <1>4, <2>1, <2>2 DEF ReceiveGoal, Activate, StartTicking, Outside
  <2>4. /\ BroadcastBid(net, A, a) \in [Channel -> Seq(Message)]
        /\ \A n \in Agent : ~ Starting(BroadcastBid(net, A, a), n)
    BY <1>1, <1>2, <2>1, <2>2, BroadcastStarts, BroadcastBidType
  <2>5. net' = Forward(BroadcastBid(net, A, a), A, Bidders[a], StartAuction(a))
    BY <2>3 DEF OpenAuction, Send
  <2>6. OneStart(net') /\ ~ Starting(net', A)
    BY <2>1, <2>4, <2>5, AskStarts
  <2>7. \A n \in Agent \ {A} : auction_items'[n] = auction_items[n]
    BY <1>3, <2>1, <2>3 DEF OpenAuction
  <2>8. \A b \in Auction : b = a
    BY DEF OneAuction
  <2> QED  BY <1>1, <2>1, <2>6, <2>7, <2>8, JoinOpen DEF MaySubmit
<1>5. ASSUME NEW n \in Agent, SelfGoal(n) PROVE Good
  <2>1. self_goals[n] # <<>> /\ self_goals' = [self_goals EXCEPT ![n] = Tail(@)]
    BY <1>5 DEF SelfGoal, ReceiveSelfGoal, RefuseSelfGoal
  <2>2. is_participant[n] /\ ~ running[n]
    BY <2>1 DEF JoinsOnce
  <2>3. ReceiveSelfGoal(n) /\ StartTicking(n)
    BY <1>5, <2>2 DEF SelfGoal, RefuseSelfGoal, ReceiveSelfGoal, Activate, OpenAuction
  <2>4. ActivateNode(n, Head(self_goals[n]), NoName) /\ UNCHANGED <<net, submitted, auction_items>>
    BY <2>3 DEF ReceiveSelfGoal, Activate, StartTicking, netVars, pluginVars, baseVars
  <2>5. Kept
    BY <2>4
  <2> QED  BY <1>0, <1>1, <2>1, <2>4, <2>5, JoinSelfGoal
<1>6. ASSUME NEW s \in Agent, NEW n \in Agent, HandleStart(s, n) PROVE Good
  <2>1. PICK k \in DOMAIN net[<<s, n>>] :
          /\ net[<<s, n>>][k].kind = "start"
          /\ JoinAuction(n, net[<<s, n>>][k].auction)
          /\ OnAuctionItemsReceived(n, net[<<s, n>>][k].auction)
          /\ net' = BroadcastBid(Without(<<s, n>>, k), n, net[<<s, n>>][k].auction)
    BY <1>6 DEF HandleStart, Deliverable, Send
  <2> DEFINE a == net[<<s, n>>][k].auction
             c == <<s, n>>
  <2>2. c \in Channel /\ a \in Auction /\ IsStart(net[c][k]) /\ c[2] = n
    BY <1>2, <2>1 DEF Channel, Message, IsStart
  <2>3. Without(c, k) \in [Channel -> Seq(Message)]
    BY <1>2, <2>1, <2>2, WithoutType
  <2>4. /\ OneStart(Without(c, k)) /\ ~ Starting(Without(c, k), n)
        /\ \A m \in Agent : Starting(Without(c, k), m) => Starting(net, m)
    BY <1>2, <2>1, <2>2, WithoutStarts
  <2>5. /\ OneStart(net') /\ ~ Starting(net', n)
        /\ \A m \in Agent : Starting(net', m) => Starting(net, m)
    BY <1>1, <2>1, <2>2, <2>3, <2>4, BroadcastStarts
  <2>6. Starting(net, n)
    BY <2>1, <2>2 DEF Starting
  <2>7. \A m \in Agent \ {n} : auction_items'[m] = auction_items[m]
    BY <1>3, <2>1, <2>2
  <2>8. UNCHANGED submitted
    BY <2>1 DEF JoinAuction
  <2> QED  BY <1>0, <1>1, <2>1, <2>2, <2>5, <2>6, <2>7, <2>8, JoinStart
<1>7. ASSUME NEW s \in Agent, NEW n \in Agent, HandleBid(s, n) PROVE Good
  <2>1. PICK k \in DOMAIN net[<<s, n>>] :
          /\ net[<<s, n>>][k].kind = "bid"
          /\ Update(n, s, net[<<s, n>>][k].payload)
          /\ net' = Answer(Without(<<s, n>>, k), n)
    BY <1>7 DEF HandleBid, Deliverable, OnBidReceived, Send
  <2> DEFINE c == <<s, n>>
             nt == Without(c, k)
             b == ComputeBid(auction_items[n], View(n)')
  <2>2. c \in Channel /\ net[c][k] \in [kind : {"bid"}, payload : ClaimBid]
    BY <1>2, <2>1 DEF Channel, Message
  <2>3. nt \in [Channel -> Seq(Message)]
    BY <1>2, <2>1, <2>2, WithoutType
  <2>4. OneStart(nt) /\ \A m \in Agent : Starting(nt, m) => Starting(net, m)
    BY <1>2, <2>1, <2>2, WithoutStarts
  <2>5. net' = nt \/ net' = SendBid(nt, n, participants[n], auction_items[n], b)
    BY <2>1 DEF Answer
  <2> HIDE DEF nt, b
  <2>6. OneStart(net') /\ \A m \in Agent : Starting(net', m) => Starting(net, m)
    BY <2>3, <2>4, <2>5, BidStarts DEF SendBid
  <2>7. UNCHANGED joinVars
    BY <1>7, <2>1 DEF HandleBid, Update, joinVars, nodeVars, roleVars, serverVars, baseVars
  <2> QED  BY <1>0, <2>6, <2>7, JoinQuiet DEF joinVars
<1>8. ASSUME NEW s \in Agent, NEW n \in Agent,
             HandleStartUnloadable(s, n) \/ DropUnregistered(s, n) \/ LoseMessage(s, n)
      PROVE  Good
  <2>1. PICK k \in DOMAIN net[<<s, n>>] : net' = Without(<<s, n>>, k)
    BY <1>8 DEF HandleStartUnloadable, DropUnregistered, LoseMessage, Lose, Deliverable
  <2>2. UNCHANGED joinVars
    BY <1>8 DEF HandleStartUnloadable, DropUnregistered, LoseMessage,
       joinVars, nodeVars, roleVars, serverVars, baseVars
  <2>3. <<s, n>> \in Channel
    BY DEF Channel
  <2>4. OneStart(net') /\ \A m \in Agent : Starting(net', m) => Starting(net, m)
    BY <1>2, <2>1, <2>3, WithoutStarts
  <2> QED  BY <1>0, <2>2, <2>4, JoinQuiet DEF joinVars
<1>9. ASSUME NEW n \in Agent, RunSuccess(n) \/ RunFailure(n) \/ Stop(n) PROVE Good
  <2>1. PICK status, w : Report(n, status, w)
    BY <1>9 DEF RunSuccess, EndSuccess, RunFailure, EndFailure, Stop, StopNode
  <2>2. /\ running[n] /\ running' = [running EXCEPT ![n] = FALSE]
        /\ UNCHANGED <<is_participant, self_goals, submitted, net>> /\ Clear(n)
    BY <1>9 DEF RunSuccess, EndSuccess, RunFailure, EndFailure, Stop, StopNode, Ticking,
       roleVars, netVars, Reset
  <2>3. \A m \in Agent \ {n} : auction_items'[m] = auction_items[m]
    BY <1>1, <2>2, ForgetsBelief
  <2>4. Kept
    BY <2>2
  <2> QED  BY <1>0, <1>1, <2>1, <2>2, <2>3, <2>4, JoinEnd
<1>10. ASSUME NEW n \in Agent, Restart(n) PROVE Good
  <2>1. RestartNode(n) /\ UNCHANGED net /\ Clear(n)
    BY <1>10 DEF Restart, NewPlugin, netVars
  <2>2. auction_items'[n] = {} /\ \A m \in Agent \ {n} : auction_items'[m] = auction_items[m]
    BY <1>1, <2>1, ForgetsBelief
  <2>3. Kept
    BY <2>1 DEF RestartNode
  <2> QED  BY <1>0, <1>1, <2>1, <2>2, <2>3, JoinRestart
<1>11. ASSUME \/ UNCHANGED vars
              \/ \E n \in Agent : RunWaiting(n) \/ Configure(n) \/ Pause(n) \/ Resume(n)
       PROVE  Good
  <2>1. UNCHANGED joinVars /\ UNCHANGED net
    BY <1>11 DEF RunWaiting, Configure, ConfigureNode, Pause, PauseNode, Resume, ResumeNode,
       vars, joinVars, netVars, nodeVars, roleVars, serverVars, pluginVars, baseVars
  <2> QED  BY <1>2, <2>1, JoinQuiet DEF joinVars
<1>12. ASSUME NEW a \in Auction, RefuseActivation(a) PROVE Good
  <2>1. JoinsOnce' /\ (Auction # submitted \/ Kept)
    BY <1>1, <1>12, JoinRefuse DEF RefuseActivation, MaySubmit
  <2>2. UNCHANGED net
    BY <1>12 DEF RefuseActivation, netVars
  <2> QED  BY <2>1, <2>2
<1>13. Good
  <2> HIDE DEF Good
  <2> QED
    BY <1>4, <1>5, <1>6, <1>7, <1>8, <1>9, <1>10, <1>11, <1>12
    DEF Next, Handle, Ignore, OnRun, Environment
<1> QED  BY <1>13 DEF MayJoin

LEMMA JoinsOnceInit == Init => JoinsOnce
BY JoinInit DEF Init, PluginInit

-----------------------------------------------------------------------------
(***************************************************************************)
(* A node that receives items.                                             *)
(***************************************************************************)
\* It was outside, and knew nothing.
LEMMA OpensOutside ==
    ASSUME OneAuction, TypeInv, JoinsOnce, Blank,
           NEW n \in Agent, NEW a \in Auction, Opens(n, a)
    PROVE  /\ ~ Bidding(n) /\ MayJoin(n)
           /\ y[n] = Unclaimed /\ z[n] = Nobody /\ bundle[n] = <<>>
<1>1. Outside(n) /\ MayJoin(n)
  <2>1. CASE a \notin submitted
    BY <2>1 DEF JoinsOnce, MayJoin
  <2>2. CASE Starting(net, n)
    BY <2>2 DEF JoinsOnce, MayJoin
  <2>3. ~ (self_goals[n] # <<>> /\ ~ is_participant[n])
    BY DEF JoinsOnce
  <2> QED  BY <2>1, <2>2, <2>3 DEF Opens
<1>2. ~ Bidding(n)
  BY <1>1 DEF Outside, Bidding
<1> QED  BY <1>1, <1>2 DEF Blank

\* A sequence that holds nothing is empty.
LEMMA EmptyRange == \A q \in Seq(Item) : Range(q) = {} => q = <<>>
<1> SUFFICES ASSUME NEW q \in Seq(Item), Range(q) = {} PROVE q = <<>>
  OBVIOUS
<1>1. \A k \in DOMAIN q : q[k] \in Range(q)
  BY DEF Range
<1>2. \A k : k \notin DOMAIN q
  BY <1>1
<1>3. DOMAIN q = 1..Len(q) /\ Len(q) \in Nat
  OBVIOUS
<1>4. Len(q) = 0
  BY <1>2, <1>3
<1> QED  BY <1>4, EmptySeq

\* Its first claims are the only ones that come alive.
LEMMA OpensClaims ==
    ASSUME OneAuction, TypeInv, JoinsOnce, Blank,
           NEW n \in Agent, NEW a \in Auction, Opens(n, a)
    PROVE  /\ \A m \in Agent \ {n} : /\ y'[m] = y[m] /\ z'[m] = z[m] /\ bundle'[m] = bundle[m]
                                     /\ costs'[m] = costs[m]
                                     /\ auction_items'[m] = auction_items[m]
           /\ auction_items'[n] = ItemsOf[a]
           /\ \A i \in Item : \/ y'[n][i] = Infinity /\ z'[n][i] = NoAgent
                              \/ /\ i \in ItemsOf[a] /\ cost[a][n][i] < Infinity
                                 /\ y'[n][i] = cost[a][n][i] /\ z'[n][i] = n
           /\ \A i \in Item, w \in Agent : \A p \in Price : Alive(i, p, w)' =>
                 \/ Alive(i, p, w)
                 \/ w = n /\ i \in ItemsOf[a] /\ y'[n][i] = p /\ z'[n][i] = n
<1>1. /\ OnAuctionItemsReceived(n, a) /\ Says(n) /\ cost \in CostTable /\ PluginTypeOK
  BY DEF Opens, TypeInv, TypeOK
<1>2. \A i \in Item : y[n][i] = Infinity /\ z[n][i] = NoAgent
  BY OpensOutside DEF Unclaimed, Nobody
<1>3. /\ auction_items'[n] = ItemsOf[a]
      /\ \A m \in Agent \ {n} : /\ y'[m] = y[m] /\ z'[m] = z[m] /\ bundle'[m] = bundle[m]
                                /\ costs'[m] = costs[m]
                                /\ auction_items'[m] = auction_items[m]
  BY <1>1, ItemsReceived
<1>4. \A i \in Item : \/ y'[n][i] = Infinity /\ z'[n][i] = NoAgent
                      \/ /\ i \in ItemsOf[a] /\ cost[a][n][i] < Infinity
                         /\ y'[n][i] = cost[a][n][i] /\ z'[n][i] = n
  BY <1>1, <1>2, OpenedBelief
<1>5. ASSUME NEW i \in Item, NEW w \in Agent, NEW p \in Price, Alive(i, p, w)'
      PROVE  \/ Alive(i, p, w)
             \/ w = n /\ i \in ItemsOf[a] /\ y'[n][i] = p /\ z'[n][i] = n
  <2>1. Alive(i, p, w) \/ (y'[n][i] = p /\ z'[n][i] = w)
    BY <1>1, <1>3, <1>5, NewClaims
  <2> QED  BY <1>4, <2>1, AgentAssumption
<1> QED  BY <1>3, <1>4, <1>5

LEMMA BundleOpens ==
    ASSUME OneAuction, TypeInv, BundleInv, TypeInv', JoinsOnce',
           \A m \in Agent : MayJoin(m)' => MayJoin(m),
           NEW n \in Agent, NEW a \in Auction, Opens(n, a)
    PROVE  NamedLater' /\ Blank' /\ KnowsOwn' /\ GoodBundles'
<1>1. JoinsOnce /\ NamedLater /\ Blank /\ KnowsOwn /\ GoodBundles
  BY DEF BundleInv
<1>2. /\ ~ Bidding(n) /\ MayJoin(n)
      /\ y[n] = Unclaimed /\ z[n] = Nobody /\ bundle[n] = <<>>
  BY <1>1, OpensOutside
<1>3. /\ auction_items'[n] = ItemsOf[a]
      /\ \A m \in Agent \ {n} : /\ y'[m] = y[m] /\ z'[m] = z[m] /\ bundle'[m] = bundle[m]
                                /\ costs'[m] = costs[m]
                                /\ auction_items'[m] = auction_items[m]
  BY <1>1, OpensClaims
<1>4. \A i \in Item : \/ y'[n][i] = Infinity /\ z'[n][i] = NoAgent
                      \/ /\ i \in ItemsOf[a] /\ cost[a][n][i] < Infinity
                         /\ y'[n][i] = cost[a][n][i] /\ z'[n][i] = n
  BY <1>1, OpensClaims
<1>5. \A i \in Item, w \in Agent : \A p \in Price : Alive(i, p, w)' =>
         \/ Alive(i, p, w)
         \/ w = n /\ i \in ItemsOf[a] /\ y'[n][i] = p /\ z'[n][i] = n
  BY <1>1, OpensClaims
<1>6. \A m \in Agent \ {n} : Bidding(m)' <=> Bidding(m)
  BY <1>3 DEF Bidding
<1>7. ItemsOf[a] # {} => ~ MayJoin(n)'
  <2>1. submitted' \subseteq Auction
    BY DEF TypeInv, TypeOK, NodeTypeOK
  <2>2. MayJoin(n)' => auction_items'[n] = {}
    BY <2>1 DEF MayJoin, JoinsOnce, Outside
  <2> QED  BY <1>3, <2>2
<1>8. NamedLater'
  <2> SUFFICES ASSUME NEW m \in Agent, MayJoin(m)', NEW i \in Item, NEW p \in Price, Alive(i, p, m)'
               PROVE  FALSE
    BY DEF NamedLater, Named
  <2>1. ~ Alive(i, p, m)
    BY <1>1 DEF NamedLater, Named
  <2> QED  BY <1>5, <1>7, <2>1
<1>9. Blank'
  <2> SUFFICES ASSUME ItemsOf[a] = {}
               PROVE  y'[n] = Unclaimed /\ z'[n] = Nobody /\ bundle'[n] = <<>>
    BY <1>1, <1>3, <1>6 DEF Blank, Bidding
  <2>1. y'[n] \in Claims /\ z'[n] \in Assignment /\ bundle'[n] \in Seq(Item)
    BY DEF TypeInv, TypeOK, PluginTypeOK
  <2>2. \A i \in Item : y'[n][i] = Infinity /\ z'[n][i] = NoAgent
    BY <1>4
  <2>3. Range(bundle'[n]) = {}
    <3>1. Range(bundle'[n]) \subseteq Range(bundle[n]) \cup ItemsOf[a]
      BY OpenedBelief DEF Opens, TypeInv, TypeOK
    <3> QED  BY <1>2, <3>1 DEF Range
  <2>4. bundle'[n] = <<>>
    BY <2>1, <2>3, EmptyRange
  <2> QED  BY <2>1, <2>2, <2>4 DEF Unclaimed, Nobody, Claims, Assignment
<1>10. KnowsOwn'
  <2>1. ASSUME NEW i \in Item, NEW p \in Price, Alive(i, p, n)'
        PROVE  y'[n][i] = p /\ z'[n][i] \in 1..n
    <3>1. ~ Alive(i, p, n)
      BY <1>1, <1>2 DEF NamedLater, Named
    <3>2. n \in 1..n
      BY AgentAssumption DEF NoAgent
    <3> QED  BY <1>5, <2>1, <3>1, <3>2
  <2>2. ASSUME NEW m \in Agent \ {n}, Bidding(m)', NEW i \in Item, NEW p \in Price, Alive(i, p, m)'
        PROVE  y'[m][i] < p \/ (y'[m][i] = p /\ z'[m][i] \in 1..m)
    BY <1>1, <1>3, <1>5, <1>6, <2>2 DEF KnowsOwn
  <2> QED  BY <2>1, <2>2 DEF KnowsOwn
<1>11. GoodBundles'
  <2>1. Holds(n, ItemsOf[a], View(n)') /\ Content(n, costs'[n], ItemsOf[a], View(n)')
    <3>1. /\ OnAuctionItemsReceived(n, a) /\ cost \in CostTable /\ PluginTypeOK
      BY DEF Opens, TypeInv, TypeOK
    <3>2. /\ CostsOn(n, a) \in CostVector /\ WipedView(n, a) \in ViewType
          /\ Priceable(CostsOn(n, a), ItemsOf[a])
          /\ FirstView(n, a) = BuildBundle(n, CostsOn(n, a), ItemsOf[a], WipedView(n, a))
      BY <3>1, FirstViewType
    <3>3. /\ WipedView(n, a).bundle = <<>>
          /\ \A i \in Item : WipedView(n, a).y[i] = Infinity /\ WipedView(n, a).z[i] = NoAgent
      BY <1>2 DEF WipedView, Unclaimed, Nobody
    <3>4. View(n)' = FirstView(n, a) /\ costs'[n] = CostsOn(n, a)
      BY <3>1, ItemsReceived
    <3> QED  BY <3>2, <3>3, <3>4, FirstHolds
  <2>2. ASSUME NEW m \in Agent \ {n}, Bidding(m)'
        PROVE  /\ Holds(m, auction_items'[m], View(m)')
               /\ Content(m, costs'[m], auction_items'[m], View(m)')
    <3>1. View(m)' = View(m)
      BY <1>3 DEF View
    <3> QED  BY <1>1, <1>3, <1>6, <2>2, <3>1 DEF GoodBundles
  <2> QED  BY <1>3, <2>1, <2>2 DEF GoodBundles
<1> QED  BY <1>8, <1>9, <1>10, <1>11

-----------------------------------------------------------------------------
(***************************************************************************)
(* A node that hears a bid.                                                *)
(***************************************************************************)
\* A claim it takes over beats its own, and names somebody else; a claim of
\* its own is at its cost.
LEMMA HearsOwn ==
    ASSUME OneAuction, TypeInv, Truth, KnowsOwn,
           NEW n \in Agent, NEW s \in Agent, NEW bid \in ClaimBid, Hears(n, s, bid)
    PROVE  /\ OwnPrices(n, costs[n], auction_items[n], View(n))
           /\ Bidding(n) => \A i \in Adopted(auction_items[n], View(n), bid) : bid.z[i] # n
<1>1. /\ auction_items[n] \subseteq Item /\ View(n).y = y[n] /\ View(n).z = z[n]
      /\ \A i \in auction_items[n] : costs[n][i] # NoBid
  BY DEF TypeInv, TypeOK, PluginTypeOK, View, AllPriceable, Priceable
<1>2. OwnPrices(n, costs[n], auction_items[n], View(n))
  <2>1. ASSUME NEW i \in auction_items[n], z[n][i] = n
        PROVE  y[n][i] = costs[n][i] /\ costs[n][i] < Infinity
    <3>1. i \in Item /\ n # NoAgent
      BY <1>1, AgentAssumption
    <3>2. CostOf(i, y[n][i], n) /\ y[n][i] < Infinity
      BY <2>1, <3>1, BeliefPrice
    <3>3. CostOf(i, costs[n][i], n)
      BY <1>1, <3>1 DEF Truth, CostsTrue
    <3> QED  BY <3>2, <3>3 DEF CostOf, OneAuction
  <2> QED  BY <1>1, <2>1, BeliefPrice DEF OwnPrices
<1>3. ASSUME Bidding(n), NEW i \in Adopted(auction_items[n], View(n), bid), bid.z[i] = n
      PROVE  FALSE
  <2>1. i \in Item /\ Beats(bid, View(n), i) /\ <<s, n>> \in Channel
    BY <1>1 DEF Adopted, Channel
  <2>2. bid.y[i] \in Price /\ bid.y[i] \in Int /\ Alive(i, bid.y[i], n)
    BY <1>3, <2>1, BeatingClaim DEF Hears
  <2>3. y[n][i] < bid.y[i] \/ (y[n][i] = bid.y[i] /\ z[n][i] \in 1..n)
    BY <1>3, <2>1, <2>2 DEF KnowsOwn
  <2>4. y[n][i] \in Int /\ n \in Int
    BY <2>1, BeliefPrice, AgentAssumption
  <2>5. bid.y[i] < y[n][i] \/ (bid.y[i] = y[n][i] /\ (z[n][i] = NoAgent \/ n < z[n][i]))
    BY <1>1, <1>3, <2>1 DEF Beats
  <2> QED  BY <2>2, <2>3, <2>4, <2>5 DEF NoAgent
<1> QED  BY <1>2, <1>3

\* Whatever it hears, its belief of an item gets better or stays.
LEMMA HearsImproves ==
    ASSUME TypeInv, Truth,
           NEW n \in Agent, NEW s \in Agent, NEW bid \in ClaimBid, Hears(n, s, bid)
    PROVE  \A i \in Item : /\ Improves(n, i)
                           /\ y'[n][i] \in Int /\ y[n][i] \in Int
                           /\ z'[n][i] # z[n][i] => z'[n][i] \in Agent
                           /\ \/ y'[n][i] = y[n][i] /\ z'[n][i] = z[n][i]
                              \/ /\ Alive(i, y'[n][i], z'[n][i])
                                 /\ z'[n][i] \in Agent
                                 /\ Bid(bid) \in InFlight(net, <<s, n>>)
                                 /\ y'[n][i] = bid.y[i] /\ z'[n][i] = bid.z[i]
                              \/ /\ y'[n][i] < y[n][i] /\ y'[n][i] = costs[n][i]
                                 /\ costs[n][i] < Infinity
                                 /\ i \in auction_items[n] /\ z'[n][i] = n
<1> SUFFICES ASSUME NEW i \in Item
             PROVE  /\ Improves(n, i)
                    /\ y'[n][i] \in Int /\ y[n][i] \in Int
                    /\ z'[n][i] # z[n][i] => z'[n][i] \in Agent
                    /\ \/ y'[n][i] = y[n][i] /\ z'[n][i] = z[n][i]
                       \/ /\ Alive(i, y'[n][i], z'[n][i])
                          /\ z'[n][i] \in Agent
                          /\ Bid(bid) \in InFlight(net, <<s, n>>)
                          /\ y'[n][i] = bid.y[i] /\ z'[n][i] = bid.z[i]
                       \/ /\ y'[n][i] < y[n][i] /\ y'[n][i] = costs[n][i]
                          /\ costs[n][i] < Infinity
                          /\ i \in auction_items[n] /\ z'[n][i] = n
  OBVIOUS
<1>1. /\ Update(n, s, bid) /\ PluginInv /\ <<s, n>> \in Channel
      /\ Bid(bid) \in InFlight(net, <<s, n>>)
  BY DEF Hears, TypeInv, TypeOK, PluginInv, Channel
<1>2. y[n][i] \in Int /\ y[n][i] <= Infinity /\ (z[n][i] = NoAgent => y[n][i] = Infinity)
  BY BeliefPrice
<1>3. \/ y'[n][i] = y[n][i] /\ z'[n][i] = z[n][i]
      \/ /\ Beats(bid, View(n), i)
         /\ y'[n][i] = bid.y[i] /\ z'[n][i] = bid.z[i]
      \/ /\ i \in auction_items[n] /\ costs[n][i] < Infinity
         /\ costs[n][i] < y[n][i]
         /\ y'[n][i] = costs[n][i] /\ z'[n][i] = n
  BY <1>1, HeardBelief
<1>4. CASE y'[n][i] = y[n][i] /\ z'[n][i] = z[n][i]
  BY <1>2, <1>4 DEF Improves
<1>5. CASE /\ Beats(bid, View(n), i)
           /\ y'[n][i] = bid.y[i] /\ z'[n][i] = bid.z[i]
  <2>1. bid.z[i] \in Agent /\ bid.y[i] \in Price /\ bid.y[i] \in Int /\ Alive(i, bid.y[i], bid.z[i])
    BY <1>1, <1>5, BeatingClaim
  <2>2. bid.y[i] < Infinity
    BY <2>1 DEF Truth, ClaimsTrue
  <2>3. Infinity \in Int
    BY CostAssumption
  <2>4. bid.y[i] < y[n][i] \/ (bid.y[i] = y[n][i] /\ bid.z[i] < z[n][i])
    <3>1. bid.y[i] < y[n][i] \/ (bid.y[i] = y[n][i] /\ (z[n][i] = NoAgent \/ bid.z[i] < z[n][i]))
      BY <1>5 DEF Beats, View
    <3> QED  BY <1>2, <2>1, <2>2, <2>3, <3>1
  <2> QED  BY <1>1, <1>2, <1>5, <2>1, <2>4 DEF Improves
<1>6. CASE /\ i \in auction_items[n] /\ costs[n][i] < Infinity
           /\ costs[n][i] < y[n][i]
           /\ y'[n][i] = costs[n][i] /\ z'[n][i] = n
  <2>1. costs[n][i] \in Int
    <3>1. costs[n][i] \in CostValue \cup {NoBid}
      BY DEF TypeInv, TypeOK, PluginTypeOK, CostVector
    <3>2. \A x \in CostValue \cup {NoBid} : x \in Int
      BY CostAssumption DEF NoBid
    <3> QED  BY <3>1, <3>2
  <2> QED  BY <1>2, <1>6, <2>1 DEF Improves
<1> QED  BY <1>3, <1>4, <1>5, <1>6

LEMMA BundleHears ==
    ASSUME OneAuction, TypeInv, Truth, BundleInv,
           \A m \in Agent : MayJoin(m)' => MayJoin(m), TypeInv',
           NEW n \in Agent, NEW s \in Agent, NEW bid \in ClaimBid, Hears(n, s, bid)
    PROVE  NamedLater' /\ Blank' /\ KnowsOwn' /\ GoodBundles'
<1>1. JoinsOnce /\ NamedLater /\ Blank /\ KnowsOwn /\ GoodBundles
  BY DEF BundleInv
<1>2. /\ Update(n, s, bid) /\ PluginInv /\ Says(n)
  BY DEF Hears, TypeInv, TypeOK, PluginInv
<1>3. /\ \A m \in Agent \ {n} : y'[m] = y[m] /\ z'[m] = z[m] /\ bundle'[m] = bundle[m]
      /\ UNCHANGED <<auction_items, costs>> /\ View(n) \in ViewType
      /\ View(n)' = Updated(n, costs[n], auction_items[n], View(n), bid)
  BY <1>2, UpdateView
<1>4. \A m : Bidding(m)' <=> Bidding(m)
  BY <1>3 DEF Bidding
<1>5. \A i \in Item : /\ Improves(n, i)
                      /\ y'[n][i] \in Int /\ y[n][i] \in Int
                      /\ z'[n][i] # z[n][i] => z'[n][i] \in Agent
                      /\ \/ y'[n][i] = y[n][i] /\ z'[n][i] = z[n][i]
                         \/ Alive(i, y'[n][i], z'[n][i])
                         \/ i \in auction_items[n] /\ z'[n][i] = n
  BY HearsImproves
\* What comes alive are claims of the node that hears.
<1>6. ASSUME NEW i \in Item, NEW w \in Agent, NEW p \in Price, Alive(i, p, w)'
      PROVE  Alive(i, p, w) \/ (w = n /\ i \in auction_items[n] /\ y'[n][i] = p /\ z'[n][i] = n)
  <2>1. Alive(i, p, w) \/ (y'[n][i] = p /\ z'[n][i] = w)
    BY <1>2, <1>3, <1>6, NewClaims
  <2>2. CASE y'[n][i] = y[n][i] /\ z'[n][i] = z[n][i]
    BY <2>1, <2>2 DEF Alive
  <2> QED  BY <1>5, <2>1, <2>2
<1>7. NamedLater'
  <2> SUFFICES ASSUME NEW m \in Agent, MayJoin(m)', NEW i \in Item, NEW p \in Price, Alive(i, p, m)'
               PROVE  FALSE
    BY DEF NamedLater, Named
  <2>1. ~ Alive(i, p, m)
    BY <1>1 DEF NamedLater, Named
  <2>2. m = n /\ auction_items[n] # {}
    BY <1>6, <2>1
  <2>3. ~ MayJoin(n)
    BY <1>1, <2>2 DEF MayJoin, JoinsOnce, Outside, TypeInv, TypeOK, NodeTypeOK
  <2> QED  BY <2>2, <2>3
<1>8. Blank'
  <2> SUFFICES ASSUME ~ Bidding(n)
               PROVE  y'[n] = Unclaimed /\ z'[n] = Nobody /\ bundle'[n] = <<>>
    BY <1>1, <1>3, <1>4 DEF Blank
  <2>1. /\ y'[n] \in Claims /\ z'[n] \in Assignment /\ bundle'[n] \in Seq(Item)
        /\ y[n] \in Claims /\ z[n] \in Assignment
    BY DEF TypeInv, TypeOK, PluginTypeOK
  <2>2. auction_items[n] = {} /\ y[n] = Unclaimed /\ z[n] = Nobody /\ bundle[n] = <<>>
    BY <1>1 DEF Blank, Bidding
  <2>3. /\ \A i \in Item : y'[n][i] = y[n][i] /\ z'[n][i] = z[n][i]
        /\ Range(bundle'[n]) = {}
    BY <1>2, <2>2, HeardBelief DEF Range
  <2>4. bundle'[n] = <<>>
    BY <2>1, <2>3, EmptyRange
  <2> QED  BY <2>1, <2>2, <2>3, <2>4 DEF Claims, Assignment
<1>9. KnowsOwn'
  <2> SUFFICES ASSUME NEW m \in Agent, Bidding(m), NEW i \in Item, NEW p \in Price, Alive(i, p, m)'
               PROVE  y'[m][i] < p \/ (y'[m][i] = p /\ z'[m][i] \in 1..m)
    BY <1>4 DEF KnowsOwn
  <2>1. m \in 1..m
    BY AgentAssumption DEF NoAgent
  <2>2. CASE ~ Alive(i, p, m)
    BY <1>6, <2>1, <2>2
  <2>3. CASE Alive(i, p, m)
    <3>1. y[m][i] < p \/ (y[m][i] = p /\ z[m][i] \in 1..m)
      BY <1>1, <2>3 DEF KnowsOwn
    <3>2. CASE m # n
      BY <1>3, <3>1, <3>2
    <3>3. CASE m = n
      <4>1. p \in Int
        BY CostAssumption DEF Price, NoBid
      <4>2. /\ y'[n][i] \in Int /\ y[n][i] \in Int
            /\ \/ y'[n][i] < y[n][i]
               \/ y'[n][i] = y[n][i] /\ z'[n][i] = z[n][i]
               \/ y'[n][i] = y[n][i] /\ z'[n][i] < z[n][i] /\ z'[n][i] \in Agent
        <5>1. z'[n][i] # z[n][i] => z'[n][i] \in Agent
          BY <1>5
        <5> QED  BY <1>5, <5>1 DEF Improves
      <4>3. z'[n][i] \in Agent => z'[n][i] \in Nat \ {0}
        BY AgentAssumption DEF NoAgent
      <4>4. n \in Nat
        BY AgentAssumption
      <4> QED  BY <3>1, <3>3, <4>1, <4>2, <4>3, <4>4
    <3> QED  BY <3>2, <3>3
  <2> QED  BY <2>2, <2>3
<1>10. GoodBundles'
  <2>1. ASSUME Bidding(n)
        PROVE  /\ Holds(n, auction_items[n], View(n)')
               /\ Content(n, costs[n], auction_items[n], View(n)')
    <3>1. /\ OwnPrices(n, costs[n], auction_items[n], View(n))
          /\ \A i \in Adopted(auction_items[n], View(n), bid) : bid.z[i] # n
      BY <1>1, <2>1, HearsOwn
    <3>2. /\ Holds(n, auction_items[n], View(n))
          /\ Content(n, costs[n], auction_items[n], View(n))
      BY <1>1, <2>1 DEF GoodBundles
    <3>3. costs[n] \in CostVector /\ Priceable(costs[n], auction_items[n])
      BY <1>2 DEF PluginInv, PluginTypeOK, AllPriceable
    <3> QED  BY <1>3, <3>1, <3>2, <3>3, UpdateHolds
  <2>2. ASSUME NEW m \in Agent \ {n}, Bidding(m)
        PROVE  /\ Holds(m, auction_items[m], View(m)')
               /\ Content(m, costs[m], auction_items[m], View(m)')
    <3>1. View(m)' = View(m)
      BY <1>3 DEF View
    <3> QED  BY <1>1, <2>2, <3>1 DEF GoodBundles
  <2> QED  BY <1>3, <1>4, <2>1, <2>2 DEF GoodBundles
<1> QED  BY <1>7, <1>8, <1>9, <1>10

-----------------------------------------------------------------------------
(***************************************************************************)
(* A node that forgets, and the invariant.                                 *)
(***************************************************************************)
\* Nothing comes alive, and a node that forgets does not bid any more.
LEMMA BundleQuiet ==
    ASSUME BundleInv, \A m \in Agent : MayJoin(m)' => MayJoin(m), SaysNothing,
           \A m \in Agent :
              \/ /\ y'[m] = y[m] /\ z'[m] = z[m] /\ bundle'[m] = bundle[m]
                 /\ costs'[m] = costs[m] /\ auction_items'[m] = auction_items[m]
              \/ /\ y'[m] = Unclaimed /\ z'[m] = Nobody /\ bundle'[m] = <<>>
                 /\ auction_items'[m] = {}
    PROVE  NamedLater' /\ Blank' /\ KnowsOwn' /\ GoodBundles'
<1>1. NamedLater /\ Blank /\ KnowsOwn /\ GoodBundles
  BY DEF BundleInv
<1>2. ASSUME NEW i \in Item, NEW w \in Agent, NEW p \in Price, Alive(i, p, w)'
      PROVE  Alive(i, p, w)
  <2>1. \A m \in Agent : \/ y'[m] = y[m] /\ z'[m] = z[m]
                         \/ y'[m] = Unclaimed /\ z'[m] = Nobody
    OBVIOUS
  <2> QED  BY <1>2, <2>1, NoNewClaims
<1>3. NamedLater'
  BY <1>1, <1>2 DEF NamedLater, Named
<1>4. Blank'
  BY <1>1 DEF Blank, Bidding
<1>5. KnowsOwn'
  BY <1>1, <1>2 DEF KnowsOwn, Bidding
<1>6. GoodBundles'
  BY <1>1 DEF GoodBundles, Bidding, View
<1> QED  BY <1>3, <1>4, <1>5, <1>6

\* What a step that forgets, or rests, leaves of every node.
LEMMA QuietViews ==
    ASSUME TypeInv, (\E n \in Agent : Forgets(n)) \/ Rests
    PROVE  /\ SaysNothing
           /\ \A m \in Agent :
              \/ /\ y'[m] = y[m] /\ z'[m] = z[m] /\ bundle'[m] = bundle[m]
                 /\ costs'[m] = costs[m] /\ auction_items'[m] = auction_items[m]
                 /\ changed'[m] = changed[m]
              \/ /\ y'[m] = Unclaimed /\ z'[m] = Nobody /\ bundle'[m] = <<>>
                 /\ auction_items'[m] = {}
<1>1. ASSUME NEW n \in Agent, Forgets(n)
      PROVE  /\ SaysNothing
             /\ y'[n] = Unclaimed /\ z'[n] = Nobody /\ bundle'[n] = <<>> /\ auction_items'[n] = {}
             /\ \A m \in Agent \ {n} : /\ y'[m] = y[m] /\ z'[m] = z[m] /\ bundle'[m] = bundle[m]
                                       /\ costs'[m] = costs[m] /\ changed'[m] = changed[m]
                                       /\ auction_items'[m] = auction_items[m]
  BY <1>1, ForgetsBelief DEF Forgets, TypeInv, TypeOK
<1>2. CASE Rests
  BY <1>2 DEF Rests, cbbaVars
<1> QED  BY <1>1, <1>2

LEMMA BundleInit == Init => BundleInv
<1> SUFFICES ASSUME Init PROVE BundleInv
  OBVIOUS
<1>1. \A c \in Channel : InFlight(net, c) = {}
  BY DEF Init, InFlight
<1>2. \A n \in Agent : /\ y[n] = Unclaimed /\ z[n] = Nobody /\ bundle[n] = <<>>
                       /\ ~ Bidding(n)
  BY DEF Init, PluginInit, Bidding
<1>3. \A i \in Item, w \in Agent : \A p \in Price : ~ Alive(i, p, w)
  BY <1>1, <1>2, AgentAssumption DEF Alive, Nobody
<1> QED  BY <1>2, <1>3, JoinsOnceInit DEF BundleInv, NamedLater, Named, Blank, KnowsOwn, GoodBundles

LEMMA BundleNext ==
    ASSUME OneAuction
    PROVE  TypeInv /\ Truth /\ BundleInv /\ [Next]_vars => BundleInv'
<1> SUFFICES ASSUME TypeInv, Truth, BundleInv, [Next]_vars PROVE BundleInv'
  OBVIOUS
<1>1. TypeInv' /\ JoinsOnce' /\ \A m \in Agent : MayJoin(m)' => MayJoin(m)
  BY TypeInvNext, JoinsOnceNext DEF BundleInv
<1>2. \/ \E n \in Agent : \E a \in Auction : Opens(n, a)
      \/ \E n, s \in Agent : \E bid \in ClaimBid : Hears(n, s, bid)
      \/ (\E n \in Agent : Forgets(n)) \/ Rests
  BY StepKinds
<1>3. NamedLater' /\ Blank' /\ KnowsOwn' /\ GoodBundles'
  <2>1. CASE \E n \in Agent : \E a \in Auction : Opens(n, a)
    BY <1>1, <2>1, BundleOpens
  <2>2. CASE \E n, s \in Agent : \E bid \in ClaimBid : Hears(n, s, bid)
    BY <1>1, <2>2, BundleHears
  <2>3. CASE (\E n \in Agent : Forgets(n)) \/ Rests
    <3>1. SaysNothing /\ \A m \in Agent :
              \/ /\ y'[m] = y[m] /\ z'[m] = z[m] /\ bundle'[m] = bundle[m]
                 /\ costs'[m] = costs[m] /\ auction_items'[m] = auction_items[m]
              \/ /\ y'[m] = Unclaimed /\ z'[m] = Nobody /\ bundle'[m] = <<>>
                 /\ auction_items'[m] = {}
      BY <2>3, QuietViews
    <3> QED  BY <1>1, <3>1, BundleQuiet
  <2> QED  BY <1>2, <2>1, <2>2, <2>3
<1> QED  BY <1>1, <1>3 DEF BundleInv

LEMMA BundleAlways == ASSUME OneAuction PROVE Spec => [](TypeInv /\ Truth /\ BundleInv)
BY TypeInvInit, TypeInvNext, TruthInit, TruthNext, BundleInit, BundleNext, PTL DEF Spec

\* With one auction, after every handler a node's bundle is what its own view
\* says it wins, each item once and no more than the bundle size.
THEOREM BundleIsAlwaysClaims == ASSUME OneAuction PROVE Spec => []BundleIsClaims
<1>1. BundleInv => BundleIsClaims
  BY DEF BundleInv, GoodBundles, Holds, BundleIsClaims, View
<1> QED  BY <1>1, BundleAlways, PTL

\* With one auction, no node ever leaves an item to a dearer agent while it
\* has room for it or holds a dearer item.
THEOREM NeverEnvious == ASSUME OneAuction PROVE Spec => []NoEnvy
<1>1. TypeInv /\ BundleInv => NoEnvy
  <2> SUFFICES ASSUME TypeInv, BundleInv, NEW n \in Agent, NEW i \in auction_items[n],
                      z[n][i] # n /\ costs[n][i] < y[n][i]
               PROVE  /\ Len(bundle[n]) = MaxBundle(n)
                      /\ \A j \in Range(bundle[n]) : costs[n][j] <= costs[n][i]
    BY DEF NoEnvy
  <2>1. Content(n, costs[n], auction_items[n], View(n))
    BY DEF BundleInv, GoodBundles, Bidding
  <2>2. Len(bundle[n]) = MaxBundle(n) /\ \A j \in Range(bundle[n]) : Sooner(costs[n], j, i)
    BY <2>1 DEF Content, View
  <2>3. costs[n] \in CostVector /\ auction_items[n] \subseteq Item /\ Range(bundle[n]) \subseteq Item
    BY DEF TypeInv, TypeOK, PluginTypeOK, Range
  <2>4. \A j \in Range(bundle[n]) : costs[n][j] <= costs[n][i]
    BY <2>2, <2>3, SoonerOrder
  <2> QED  BY <2>2, <2>4
<1> QED  BY <1>1, BundleAlways, PTL

-----------------------------------------------------------------------------
(***************************************************************************)
(* What a step may do to the belief of a node that is bidding.             *)
(***************************************************************************)
\* Of the kinds of steps only a bid it hears touches it.
LEMMA BiddingStep ==
    ASSUME OneAuction, TypeInv, Truth, BundleInv, [Next]_vars,
           NEW n \in Agent, Bidding(n), Bidding(n)'
    PROVE  \/ y'[n] = y[n] /\ z'[n] = z[n] /\ changed'[n] = changed[n]
           \/ \E s \in Agent : \E bid \in ClaimBid : Hears(n, s, bid)
<1>1. JoinsOnce /\ Blank /\ PluginInv
  BY DEF BundleInv, TypeInv, TypeOK, PluginInv
<1>2. ASSUME NEW m \in Agent, NEW a \in Auction, Opens(m, a)
      PROVE  y'[n] = y[n] /\ z'[n] = z[n] /\ changed'[n] = changed[n]
  <2>1. m # n
    BY <1>1, <1>2, OpensOutside
  <2>2. UNCHANGED changed
    BY <1>1, <1>2 DEF Opens, OnAuctionItemsReceived
  <2> QED  BY <1>1, <1>2, <2>1, <2>2, OpensClaims
<1>3. ASSUME NEW m \in Agent, NEW s \in Agent, NEW bid \in ClaimBid, Hears(m, s, bid), m # n
      PROVE  y'[n] = y[n] /\ z'[n] = z[n] /\ changed'[n] = changed[n]
  <2>1. changed'[n] = changed[n]
    BY <1>1, <1>3 DEF Hears, Update, PluginInv, PluginTypeOK
  <2>2. Update(m, s, bid)
    BY <1>3 DEF Hears
  <2> QED  BY <1>1, <1>3, <2>1, <2>2, UpdateView
<1>4. CASE (\E m \in Agent : Forgets(m)) \/ Rests
  BY <1>4, QuietViews DEF Bidding
<1> QED  BY <1>2, <1>3, <1>4, StepKinds

\* With one auction, a node that takes part never believes less of an item
\* than it did: no bid, however old, makes a claim worse.
THEOREM ClaimsAlwaysImprove == ASSUME OneAuction PROVE Spec => ClaimsOnlyImprove
<1>1. TypeInv /\ Truth /\ BundleInv /\ [Next]_vars => ClaimsImprove
  <2> SUFFICES ASSUME TypeInv, Truth, BundleInv, [Next]_vars,
                      NEW n \in Agent, Bidding(n), Bidding(n)', NEW i \in auction_items[n]
               PROVE  Improves(n, i)
    BY DEF ClaimsImprove
  <2>1. i \in Item
    BY DEF TypeInv, TypeOK, PluginTypeOK
  <2>2. CASE y'[n] = y[n] /\ z'[n] = z[n]
    BY <2>2 DEF Improves
  <2>3. CASE \E s \in Agent : \E bid \in ClaimBid : Hears(n, s, bid)
    BY <2>1, <2>3, HearsImproves
  <2> QED  BY <2>2, <2>3, BiddingStep
<1> QED  BY <1>1, BundleAlways, PTL DEF Spec, ClaimsOnlyImprove

\* The flag says exactly whether the bid a node hears changes its belief.
LEMMA HearsFlag ==
    ASSUME OneAuction, TypeInv, Truth, BundleInv, NEW n \in Agent, Bidding(n),
           NEW s \in Agent, NEW bid \in ClaimBid, Hears(n, s, bid)
    PROVE  changed'[n] <=> (y'[n] # y[n] \/ z'[n] # z[n])
<1> DEFINE heard == Consensus(auction_items[n], View(n), bid)
<1>1. Update(n, s, bid) /\ PluginInv
  BY DEF Hears, TypeInv, TypeOK, PluginInv
<1>2. changed'[n] <=> (\/ Adopted(auction_items[n], View(n), bid) # {}
                       \/ LostAt(n, heard) # {})
  <2>1. changed \in [Agent -> BOOLEAN]
    BY <1>1 DEF PluginInv, PluginTypeOK
  <2> QED  BY <1>1, <2>1 DEF Update, Changes
<1>3. /\ OwnPrices(n, costs[n], auction_items[n], View(n))
      /\ \A i \in Adopted(auction_items[n], View(n), bid) : bid.z[i] # n
  BY HearsOwn DEF BundleInv
<1>4. /\ Holds(n, auction_items[n], View(n))
      /\ Content(n, costs[n], auction_items[n], View(n))
  BY DEF BundleInv, GoodBundles
<1>5. costs[n] \in CostVector /\ Priceable(costs[n], auction_items[n])
  BY <1>1 DEF PluginInv, PluginTypeOK, AllPriceable
<1>6. View(n) \in ViewType /\ View(n)' = Updated(n, costs[n], auction_items[n], View(n), bid)
  BY <1>1, UpdateView
<1>7. (View(n)'.y # View(n).y \/ View(n)'.z # View(n).z) <=>
         (\/ Adopted(auction_items[n], View(n), bid) # {}
          \/ LostAt(n, heard) # {})
  BY <1>3, <1>4, <1>5, <1>6, UpdateChanges
<1> QED  BY <1>2, <1>7 DEF View

\* With one auction, the changed flag says exactly whether the last bid
\* changed a price or a winner, what the new bundle claims included.
THEOREM FlagAlwaysExact == ASSUME OneAuction PROVE Spec => ChangedFlagExact
<1>1. TypeInv /\ Truth /\ BundleInv /\ [Next]_vars => FlagExact
  <2> SUFFICES ASSUME TypeInv, Truth, BundleInv, [Next]_vars,
                      NEW n \in Agent, Bidding(n), Bidding(n)'
               PROVE  /\ Changed(n) => changed'[n]
                      /\ (changed'[n] /\ (~ changed[n] \/ \E s \in Agent : HandleBid(s, n))) => Changed(n)
    BY DEF FlagExact
  <2>1. ASSUME NEW s \in Agent, NEW bid \in ClaimBid, Hears(n, s, bid)
        PROVE  changed'[n] <=> Changed(n)
    BY <2>1, HearsFlag DEF Changed
  <2>2. ASSUME NEW s \in Agent, HandleBid(s, n) PROVE changed'[n] <=> Changed(n)
    BY <2>1, <2>2, HandleBidIs
  <2>3. CASE y'[n] = y[n] /\ z'[n] = z[n] /\ changed'[n] = changed[n]
    BY <2>2, <2>3 DEF Changed
  <2> QED  BY <2>1, <2>3, BiddingStep
<1> QED  BY <1>1, BundleAlways, PTL DEF Spec, ChangedFlagExact

-----------------------------------------------------------------------------
(***************************************************************************)
(* The refinement.  Items that arrive are a step Join, a bid that arrives  *)
(* a step Hear, an execution that ends a step Leave; what a node does that *)
(* does not bid is a step Forget.                                          *)
(***************************************************************************)
ToldNow == UNION {ToldOn(c) : c \in Channel}

\* The claim that message m tells of item i.
TellsOf(m, i) == [item |-> i, claim |-> [price |-> m.payload.y[i], by |-> m.payload.z[i]]]

BelievedOf(n, i) == [price |-> y[n][i], by |-> z[n][i]]

LEMMA ToldIs == \A t : t \in ToldNow <=>
    \E c \in Channel : \E m \in InFlight(net, c) : m.kind = "bid" /\
        \E i \in Item : m.payload.z[i] # NoAgent /\ t = TellsOf(m, i)
<1> SUFFICES ASSUME NEW t
             PROVE  t \in ToldNow <=>
                \E c \in Channel : \E m \in InFlight(net, c) : m.kind = "bid" /\
                    \E i \in Item : m.payload.z[i] # NoAgent /\ t = TellsOf(m, i)
  OBVIOUS
<1>1. \A c : t \in ToldOn(c) <=>
         \E k \in DOMAIN net[c] : net[c][k].kind = "bid" /\
            \E i \in Item : net[c][k].payload.z[i] # NoAgent /\ t = TellsOf(net[c][k], i)
  BY DEF ToldOn, TellsOf
<1>2. \A c : (\E m \in InFlight(net, c) : m.kind = "bid" /\
                 \E i \in Item : m.payload.z[i] # NoAgent /\ t = TellsOf(m, i))
             <=> t \in ToldOn(c)
  BY <1>1 DEF InFlight
<1>3. t \in ToldNow <=> \E c \in Channel : t \in ToldOn(c)
  BY DEF ToldNow
<1> QED  BY <1>2, <1>3

\* A step that says nothing tells nothing.
LEMMA TellsNothing == ASSUME SaysNothing PROVE ToldNow' \subseteq ToldNow
<1>1. \A t : t \in ToldNow' <=>
        \E c \in Channel : \E m \in InFlight(net', c) : m.kind = "bid" /\
            \E i \in Item : m.payload.z[i] # NoAgent /\ t = TellsOf(m, i)
  <2>1. (\A t : t \in ToldNow <=>
          \E c \in Channel : \E m \in InFlight(net, c) : m.kind = "bid" /\
            \E i \in Item : m.payload.z[i] # NoAgent /\ t = TellsOf(m, i))'
    BY ToldIs, PTL
  <2> QED  BY <2>1 DEF TellsOf, InFlight
<1> QED  BY <1>1, ToldIs DEF SaysNothing

\* A node that speaks tells what it then believes of its auction's items.
LEMMA TellsBelief ==
    ASSUME NEW n, Says(n)
    PROVE  \A t \in ToldNow' : t \in ToldNow \/
              \E i \in auction_items'[n] \cap Item : t = [item |-> i, claim |-> BelievedOf(n, i)']
<1>1. \A t : t \in ToldNow' <=>
        \E c \in Channel : \E m \in InFlight(net', c) : m.kind = "bid" /\
            \E i \in Item : m.payload.z[i] # NoAgent /\ t = TellsOf(m, i)
  <2>1. (\A t : t \in ToldNow <=>
          \E c \in Channel : \E m \in InFlight(net, c) : m.kind = "bid" /\
            \E i \in Item : m.payload.z[i] # NoAgent /\ t = TellsOf(m, i))'
    BY ToldIs, PTL
  <2> QED  BY <2>1 DEF TellsOf, InFlight
<1> SUFFICES ASSUME NEW t \in ToldNow', t \notin ToldNow
             PROVE  \E i \in auction_items'[n] \cap Item :
                       t = [item |-> i, claim |-> BelievedOf(n, i)']
  OBVIOUS
<1>2. PICK c \in Channel : \E m \in InFlight(net', c) : m.kind = "bid" /\
            \E i \in Item : m.payload.z[i] # NoAgent /\ t = TellsOf(m, i)
  BY <1>1
<1>3. PICK m \in InFlight(net', c) : m.kind = "bid" /\
            \E i \in Item : m.payload.z[i] # NoAgent /\ t = TellsOf(m, i)
  BY <1>2
<1>4. PICK i \in Item : m.payload.z[i] # NoAgent /\ t = TellsOf(m, i)
  BY <1>3
<1>5. m \notin InFlight(net, c)
  BY <1>3, <1>4, ToldIs
<1>6. m = Bid(ComputeBid(auction_items'[n], View(n)'))
  BY <1>3, <1>5 DEF Says, IsStart
<1>7. /\ m.payload.z[i] = IF i \in auction_items'[n] THEN z'[n][i] ELSE NoAgent
      /\ m.payload.y[i] = IF i \in auction_items'[n] THEN y'[n][i] ELSE NoBid
  BY <1>6 DEF Bid, ComputeBid, View
<1>8. i \in auction_items'[n] /\ t = [item |-> i, claim |-> [price |-> y'[n][i], by |-> z'[n][i]]]
  BY <1>4, <1>7 DEF TellsOf
<1> QED  BY <1>8 DEF BelievedOf

LEMMA BeliefIs == /\ \A n \in Agent, i \in Item : Belief[n][i] = BelievedOf(n, i)
                  /\ \A n \in Agent, i \in Item : Belief'[n][i] = BelievedOf(n, i)'
BY DEF Belief, BelievedOf

\* A node that hears a bid and takes part.
LEMMA HearsIsHear ==
    ASSUME TypeInv, Truth, UNCHANGED cost, NEW n \in Agent, NEW s \in Agent, NEW bid \in ClaimBid,
           Hears(n, s, bid), Bidding(n)
    PROVE  Gossip!Act(n)
<1>1. /\ Update(n, s, bid) /\ PluginInv /\ Says(n) /\ <<s, n>> \in Channel
  BY DEF Hears, TypeInv, TypeOK, PluginInv, Channel
<1>2. /\ \A m \in Agent \ {n} : y'[m] = y[m] /\ z'[m] = z[m]
      /\ UNCHANGED auction_items
  BY <1>1, UpdateView
<1>3. /\ n \in {m \in Agent : Bidding(m)}
      /\ {m \in Agent : Bidding(m)}' = {m \in Agent : Bidding(m)}
  BY <1>2 DEF Bidding
<1>4. \A m \in Agent \ {n} : Belief'[m] = Belief[m]
  BY <1>2 DEF Belief
<1>5. \A t \in ToldNow' : t \in ToldNow \/ \E i \in Item : t = [item |-> i, claim |-> Belief'[n][i]]
  BY <1>1, TellsBelief, BeliefIs
<1>6. ASSUME NEW i \in Item
      PROVE  \/ Belief'[n][i] = Belief[n][i]
             \/ /\ Gossip!Told(i, Belief'[n][i]) \in ToldNow
                /\ Gossip!Better(Belief'[n][i], Belief[n][i])
             \/ /\ Belief'[n][i] \in Gossip!Own(n, i)
                /\ Belief'[n][i].price < Belief[n][i].price
  <2>1. /\ Belief[n][i] = [price |-> y[n][i], by |-> z[n][i]]
        /\ Belief'[n][i] = [price |-> y'[n][i], by |-> z'[n][i]]
    BY BeliefIs DEF BelievedOf
  <2>2. CASE y'[n][i] = y[n][i] /\ z'[n][i] = z[n][i]
    BY <2>1, <2>2
  <2>3. CASE /\ Alive(i, y'[n][i], z'[n][i])
             /\ z'[n][i] \in Agent
             /\ Bid(bid) \in InFlight(net, <<s, n>>)
             /\ y'[n][i] = bid.y[i] /\ z'[n][i] = bid.z[i]
             /\ ~ (y'[n][i] = y[n][i] /\ z'[n][i] = z[n][i])
    <3>1. y'[n][i] < y[n][i] \/ (y'[n][i] = y[n][i] /\ z'[n][i] < z[n][i])
      BY <2>3, HearsImproves DEF Improves
    <3>2. bid.z[i] # NoAgent
      BY <2>3, AgentAssumption
    <3>3. Gossip!Told(i, Belief'[n][i]) \in ToldNow
      <4>1. Bid(bid).kind = "bid" /\ Bid(bid).payload = bid
        BY DEF Bid
      <4>2. TellsOf(Bid(bid), i) = Gossip!Told(i, Belief'[n][i])
        BY <2>1, <2>3, <4>1 DEF TellsOf, Gossip!Told
      <4> QED  BY <1>1, <2>3, <3>2, <4>1, <4>2, ToldIs
    <3>4. Gossip!Better(Belief'[n][i], Belief[n][i])
      BY <2>1, <3>1 DEF Gossip!Better
    <3> QED  BY <3>3, <3>4
  <2>4. CASE /\ y'[n][i] < y[n][i] /\ y'[n][i] = costs[n][i] /\ costs[n][i] < Infinity
             /\ i \in auction_items[n] /\ z'[n][i] = n
    <3>1. CostOf(i, costs[n][i], n)
      BY <2>4 DEF Truth, CostsTrue, TypeInv, AllPriceable, Priceable
    <3>2. Belief'[n][i] \in Gossip!Own(n, i)
      BY <2>1, <2>4, <3>1 DEF CostOf, Gossip!Own
    <3> QED  BY <2>1, <2>4, <3>2
  <2> QED  BY <2>2, <2>3, <2>4, HearsImproves
<1>7. Gossip!Hear(n)
  BY <1>3, <1>6 DEF Gossip!Hear, ToldNow
<1> QED  BY <1>4, <1>5, <1>7 DEF Gossip!Act, Gossip!Told, ToldNow

\* A node that receives items.
LEMMA OpensIsJoin ==
    ASSUME OneAuction, TypeInv, BundleInv, UNCHANGED cost,
           NEW n \in Agent, NEW a \in Auction, Opens(n, a), ItemsOf[a] # {}
    PROVE  Gossip!Act(n)
<1>1. JoinsOnce /\ Blank /\ Says(n)
  BY DEF BundleInv, Opens
<1>2. /\ \A m \in Agent \ {n} : /\ y'[m] = y[m] /\ z'[m] = z[m]
                                /\ auction_items'[m] = auction_items[m]
      /\ auction_items'[n] = ItemsOf[a] /\ ~ Bidding(n)
      /\ \A i \in Item : \/ y'[n][i] = Infinity /\ z'[n][i] = NoAgent
                         \/ /\ i \in ItemsOf[a] /\ cost[a][n][i] < Infinity
                            /\ y'[n][i] = cost[a][n][i] /\ z'[n][i] = n
  BY <1>1, OpensClaims, OpensOutside
<1>3. /\ n \notin {m \in Agent : Bidding(m)}
      /\ {m \in Agent : Bidding(m)}' = {m \in Agent : Bidding(m)} \cup {n}
  BY <1>2 DEF Bidding
<1>4. \A m \in Agent \ {n} : Belief'[m] = Belief[m]
  BY <1>2 DEF Belief
<1>5. \A t \in ToldNow' : t \in ToldNow \/ \E i \in Item : t = [item |-> i, claim |-> Belief'[n][i]]
  BY <1>1, TellsBelief, BeliefIs
<1>6. \A i \in Item : Belief'[n][i] \in Gossip!Own(n, i) \cup {Gossip!None}
  <2> TAKE i \in Item
  <2>1. Belief'[n][i] = [price |-> y'[n][i], by |-> z'[n][i]]
    BY BeliefIs DEF BelievedOf
  <2>2. CASE y'[n][i] = Infinity /\ z'[n][i] = NoAgent
    BY <2>1, <2>2 DEF Gossip!None, Gossip!NoAgent, NoAgent
  <2>3. CASE /\ i \in ItemsOf[a] /\ cost[a][n][i] < Infinity
             /\ y'[n][i] = cost[a][n][i] /\ z'[n][i] = n
    BY <2>1, <2>3 DEF Gossip!Own
  <2> QED  BY <1>2, <2>2, <2>3
<1>7. Gossip!Join(n)
  BY <1>3, <1>6 DEF Gossip!Join
<1> QED  BY <1>4, <1>5, <1>7 DEF Gossip!Act, Gossip!Told, ToldNow

\* A step that leaves who bids and what everybody believes, and tells nothing.
LEMMA ForgetIs ==
    ASSUME UNCHANGED cost, ToldNow' \subseteq ToldNow,
           \A m \in Agent : y'[m] = y[m] /\ z'[m] = z[m] /\ (Bidding(m)' <=> Bidding(m))
    PROVE  Gossip!Forget
<1>1. {m \in Agent : Bidding(m)}' = {m \in Agent : Bidding(m)}
  OBVIOUS
<1>2. Belief' = Belief
  BY DEF Belief
<1> QED  BY <1>1, <1>2 DEF Gossip!Forget, ToldNow

\* A node that ends its execution, or starts again.
LEMMA ForgetsIsLeave ==
    ASSUME TypeInv, Blank, UNCHANGED cost, NEW n \in Agent, Forgets(n)
    PROVE  Gossip!Forget \/ Gossip!Act(n)
<1>1. /\ SaysNothing /\ y'[n] = Unclaimed /\ z'[n] = Nobody /\ auction_items'[n] = {}
      /\ \A m \in Agent \ {n} : y'[m] = y[m] /\ z'[m] = z[m] /\ auction_items'[m] = auction_items[m]
  BY ForgetsBelief DEF Forgets, TypeInv, TypeOK
<1>2. ToldNow' \subseteq ToldNow
  BY <1>1, TellsNothing
<1>3. CASE ~ Bidding(n)
  <2>1. y[n] = Unclaimed /\ z[n] = Nobody
    BY <1>3 DEF Blank
  <2>2. \A m \in Agent : y'[m] = y[m] /\ z'[m] = z[m] /\ (Bidding(m)' <=> Bidding(m))
    BY <1>1, <1>3, <2>1 DEF Bidding
  <2> QED  BY <1>2, <2>2, ForgetIs
<1>4. CASE Bidding(n)
  <2>1. /\ n \in {m \in Agent : Bidding(m)}
        /\ {m \in Agent : Bidding(m)}' = {m \in Agent : Bidding(m)} \ {n}
    BY <1>1, <1>4 DEF Bidding
  <2>2. \A m \in Agent \ {n} : Belief'[m] = Belief[m]
    BY <1>1 DEF Belief
  <2>3. \A i \in Item : Belief'[n][i] = Gossip!None
    BY <1>1, BeliefIs DEF BelievedOf, Gossip!None, Gossip!NoAgent, NoAgent, Unclaimed, Nobody
  <2>4. Gossip!Leave(n)
    BY <2>1, <2>3 DEF Gossip!Leave
  <2> QED  BY <1>2, <2>2, <2>4 DEF Gossip!Act, ToldNow
<1> QED  BY <1>3, <1>4

LEMMA GossipNext ==
    ASSUME OneAuction, TypeInv, Truth, BundleInv, BundleInv', [Next]_vars
    PROVE  Gossip!Next
<1>1. Blank /\ Blank' /\ UNCHANGED cost
  BY StepKinds DEF BundleInv
<1>2. ASSUME NEW n \in Agent, Says(n), auction_items'[n] = {} PROVE ToldNow' \subseteq ToldNow
  BY <1>2, TellsBelief
\* A node that does not bid, before and after, believes nothing all along.
<1>3. ASSUME NEW n \in Agent, Says(n), auction_items'[n] = {}, ~ Bidding(n),
             \A m \in Agent \ {n} : /\ y'[m] = y[m] /\ z'[m] = z[m]
                                    /\ auction_items'[m] = auction_items[m]
      PROVE  Gossip!Forget
  <2>1. y'[n] = y[n] /\ z'[n] = z[n] /\ ~ Bidding(n)'
    BY <1>1, <1>3 DEF Blank, Bidding
  <2>2. \A m \in Agent : y'[m] = y[m] /\ z'[m] = z[m] /\ (Bidding(m)' <=> Bidding(m))
    BY <1>3, <2>1 DEF Bidding
  <2> QED  BY <1>1, <1>2, <1>3, <2>2, ForgetIs
<1>4. ASSUME NEW n \in Agent, NEW a \in Auction, Opens(n, a) PROVE Gossip!Next
  <2>1. CASE ItemsOf[a] # {}
    BY <1>1, <1>4, <2>1, OpensIsJoin DEF Gossip!Next
  <2>2. CASE ItemsOf[a] = {}
    <3>1. /\ auction_items'[n] = {} /\ ~ Bidding(n) /\ Says(n)
          /\ \A m \in Agent \ {n} : /\ y'[m] = y[m] /\ z'[m] = z[m]
                                    /\ auction_items'[m] = auction_items[m]
      BY <1>4, <2>2, OpensClaims, OpensOutside DEF Opens, BundleInv
    <3> QED  BY <1>3, <3>1 DEF Gossip!Next
  <2> QED  BY <2>1, <2>2
<1>5. ASSUME NEW n \in Agent, NEW s \in Agent, NEW bid \in ClaimBid, Hears(n, s, bid)
      PROVE  Gossip!Next
  <2>1. CASE Bidding(n)
    BY <1>1, <1>5, <2>1, HearsIsHear DEF Gossip!Next
  <2>2. CASE ~ Bidding(n)
    <3>1. Update(n, s, bid) /\ PluginInv /\ Says(n)
      BY <1>5 DEF Hears, TypeInv, TypeOK, PluginInv
    <3>2. /\ auction_items'[n] = {}
          /\ \A m \in Agent \ {n} : /\ y'[m] = y[m] /\ z'[m] = z[m]
                                    /\ auction_items'[m] = auction_items[m]
      BY <2>2, <3>1, UpdateView DEF Bidding
    <3> QED  BY <1>3, <2>2, <3>1, <3>2 DEF Gossip!Next
  <2> QED  BY <2>1, <2>2
<1>6. ASSUME NEW n \in Agent, Forgets(n) PROVE Gossip!Next
  BY <1>1, <1>6, ForgetsIsLeave DEF Gossip!Next
<1>7. CASE Rests
  <2>1. ToldNow' \subseteq ToldNow
    BY <1>7, TellsNothing DEF Rests
  <2>2. \A m \in Agent : y'[m] = y[m] /\ z'[m] = z[m] /\ (Bidding(m)' <=> Bidding(m))
    BY <1>7 DEF Rests, cbbaVars, Bidding
  <2> QED  BY <1>1, <2>1, <2>2, ForgetIs DEF Gossip!Next
<1> QED  BY <1>4, <1>5, <1>6, <1>7, StepKinds

LEMMA GossipInit == Init => Gossip!Init
<1> SUFFICES ASSUME Init PROVE Gossip!Init
  OBVIOUS
<1>1. \A t : t \notin ToldNow
  <2>1. \A c \in Channel : InFlight(net, c) = {}
    BY DEF Init, InFlight
  <2> QED  BY <2>1, ToldIs
<1>2. {n \in Agent : Bidding(n)} = {}
  BY DEF Init, PluginInit, Bidding
<1>3. Belief = [n \in Agent |-> [i \in Item |-> Gossip!None]]
  BY DEF Init, PluginInit, Belief, Gossip!None, Gossip!NoAgent, NoAgent, Unclaimed, Nobody
<1> QED  BY <1>1, <1>2, <1>3 DEF Init, Gossip!Init, Gossip!CostTable, CostTable, ToldNow

\* With one auction the fleet implements ClaimGossip: whatever bundles,
\* cascades, losses and restarts lie beneath, agents only make claims of their
\* own and hand on better ones.
THEOREM FleetGossips == ASSUME OneAuction PROVE Spec => OnlyGossips
<1>1. TypeInv /\ Truth /\ BundleInv /\ (TypeInv /\ Truth /\ BundleInv)' /\ [Next]_vars
        => [Gossip!Next]_<<cost, {n \in Agent : Bidding(n)}, Belief,
                           UNION {ToldOn(c) : c \in Channel}>>
  BY GossipNext
<1> QED  BY <1>1, GossipInit, BundleAlways, PTL DEF Spec, OnlyGossips, Gossip!Spec

-----------------------------------------------------------------------------
(***************************************************************************)
(* What the auctioneer comes to know.  It has its items before anybody is  *)
(* asked; from then on a bidder believes nothing that the auctioneer does  *)
(* not match already and is not about to be told.                          *)
(***************************************************************************)
\* A price p of w is as good as a price q of v.
AsGood(p, w, q, v) == p < q \/ (p = q /\ (v = NoAgent \/ w \in 1..v))

\* The auctioneer's process is there from the start: it can be told.
AuctioneerReady == \A a \in Auction : Auctioneer[a] \notin Late

Ready == \A a \in Auction : configured[Auctioneer[a]] = AllDone

Members == \A n \in Agent : Bidding(n) => \A a \in Auction :
    participants[n] = Bidders[a] /\ auction_items[n] = ItemsOf[a]

NotAsked == \A a \in Auction : ~ Starting(net, Auctioneer[a])

\* What n believes of item i is on its way to agent d.
Telling(n, d, i) == \E m \in InFlight(net, <<n, d>>) :
    ~ IsStart(m) /\ m.payload.y[i] = y[n][i] /\ m.payload.z[i] = z[n][i]

Informed == lost = 0 => \A a \in Auction : Bidding(Auctioneer[a]) =>
    \A n \in Agent \ {Auctioneer[a]} : Bidding(n) => \A i \in auction_items[n] :
        \/ AsGood(y[Auctioneer[a]][i], z[Auctioneer[a]][i], y[n][i], z[n][i])
        \/ Telling(n, Auctioneer[a], i)

InformedInv == Ready /\ Members /\ NotAsked /\ Informed

\* A bid reaches everybody it is sent to, and displaces nothing.
LEMMA SendBidReaches ==
    ASSUME NEW nt \in [Channel -> Seq(Message)], NEW n \in Agent, NEW dests,
           NEW items, NEW b
    PROVE  /\ \A c \in Channel : InFlight(nt, c) \subseteq InFlight(SendBid(nt, n, dests, items, b), c)
           /\ \A d \in Agent \ {n} : items # {} /\ d \in dests =>
                 Bid(b) \in InFlight(SendBid(nt, n, dests, items, b), <<n, d>>)
<1>1. \A c \in Channel : InFlight(Forward(nt, n, dests, Bid(b)), c) =
          IF c[1] = n /\ c[2] \in dests /\ c[2] # n THEN InFlight(nt, c) \cup {Bid(b)}
                                                 ELSE InFlight(nt, c)
  BY ForwardInFlight
<1>2. \A c \in Channel : InFlight(nt, c) \subseteq InFlight(Forward(nt, n, dests, Bid(b)), c)
  BY <1>1
<1>3. ASSUME NEW d \in Agent \ {n}, d \in dests
      PROVE  Bid(b) \in InFlight(Forward(nt, n, dests, Bid(b)), <<n, d>>)
  <2>1. <<n, d>> \in Channel /\ <<n, d>>[1] = n /\ <<n, d>>[2] = d
    BY DEF Channel
  <2> QED  BY <1>1, <1>3, <2>1
<1> QED  BY <1>2, <1>3 DEF SendBid

\* Whoever hears a bid then believes nothing worse of any item than it says.
LEMMA HearsCounts ==
    ASSUME TypeInv, Truth,
           NEW n \in Agent, NEW s \in Agent, NEW bid \in ClaimBid, Hears(n, s, bid),
           NEW i \in auction_items[n], bid.y[i] # NoBid
    PROVE  AsGood(y'[n][i], z'[n][i], bid.y[i], bid.z[i])
<1> DEFINE h == Consensus(auction_items[n], View(n), bid)
           w == Updated(n, costs[n], auction_items[n], View(n), bid)
<1>1. /\ Update(n, s, bid) /\ PluginInv /\ <<s, n>> \in Channel
      /\ Bid(bid) \in InFlight(net, <<s, n>>) /\ auction_items[n] \in SUBSET Item
  BY DEF Hears, TypeInv, TypeOK, PluginInv, PluginTypeOK, Channel
<1>2. i \in Item /\ bid.y[i] \in Int /\ bid.z[i] \in Agent \cup {NoAgent}
  <2>1. i \in Item
    BY <1>1
  <2>2. bid.y[i] \in CostValue \cup {Infinity, NoBid} /\ bid.z[i] \in Agent \cup {NoAgent}
    BY <2>1 DEF ClaimBid, Assignment
  <2>3. bid.y[i] \in CostValue \cup {Infinity}
    BY <2>2
  <2>4. \A x \in CostValue \cup {Infinity} : x \in Int
    BY CostAssumption
  <2> QED  BY <2>1, <2>2, <2>3, <2>4
<1>3. y[n][i] \in Int /\ z[n][i] \in Agent \cup {NoAgent}
  <2>1. z[n][i] \in Agent \cup {NoAgent}
    BY <1>1, <1>2 DEF PluginInv, PluginTypeOK, Assignment
  <2> QED  BY <1>2, <2>1, BeliefPrice
<1>4. y'[n][i] = w.y[i] /\ z'[n][i] = w.z[i]
  <2>1. View(n)' = w
    BY <1>1, UpdateView
  <2> HIDE DEF w
  <2> QED  BY <2>1 DEF View
<1>5. /\ View(n) \in ViewType /\ costs[n] \in CostVector
      /\ Priceable(costs[n], auction_items[n])
  BY <1>1, UpdateView DEF PluginInv, PluginTypeOK, AllPriceable
<1>6. /\ h.y[i] = IF i \in Adopted(auction_items[n], View(n), bid) THEN bid.y[i] ELSE y[n][i]
      /\ h.z[i] = IF i \in Adopted(auction_items[n], View(n), bid) THEN bid.z[i] ELSE z[n][i]
  <2>1. /\ h.y[i] = IF i \in Adopted(auction_items[n], View(n), bid) THEN bid.y[i] ELSE View(n).y[i]
        /\ h.z[i] = IF i \in Adopted(auction_items[n], View(n), bid) THEN bid.z[i] ELSE View(n).z[i]
    BY <1>1, <1>2, <1>5, ConsensusFacts
  <2> HIDE DEF h
  <2> QED  BY <2>1 DEF View
<1>7. w.y[i] < h.y[i] \/ (w.y[i] = h.y[i] /\ w.z[i] = h.z[i])
  BY <1>2, <1>5, UpdatedUndercuts
<1>8. w.y[i] \in Int
  <2>1. y'[n][i] \in Int
    BY <1>2, HearsImproves
  <2> QED  BY <1>4, <2>1
<1> HIDE DEF h, w
<1>9. \A x \in Agent : x \in Nat /\ x # 0 /\ x \in 1..x /\ NoAgent = 0
  BY AgentAssumption DEF NoAgent
<1>10. CASE Beats(bid, View(n), i)
  <2>1. bid.z[i] \in Agent
    BY <1>1, <1>2, <1>10, BeatingClaim
  <2>2. h.y[i] = bid.y[i] /\ h.z[i] = bid.z[i]
    BY <1>6, <1>10 DEF Adopted
  <2> QED  BY <1>2, <1>4, <1>7, <1>8, <1>9, <2>1, <2>2 DEF AsGood
<1>11. CASE ~ Beats(bid, View(n), i)
  <2>1. h.y[i] = y[n][i] /\ h.z[i] = z[n][i]
    BY <1>6, <1>11 DEF Adopted
  <2>2. AsGood(y[n][i], z[n][i], bid.y[i], bid.z[i])
    BY <1>2, <1>3, <1>9, <1>11 DEF Beats, View, AsGood
  <2> QED  BY <1>2, <1>3, <1>4, <1>7, <1>8, <2>1, <2>2 DEF AsGood
<1> QED  BY <1>10, <1>11

\* And what matched a claim still does.
LEMMA StaysAsGood ==
    ASSUME TypeInv, Truth,
           NEW n \in Agent, NEW s \in Agent, NEW bid \in ClaimBid, Hears(n, s, bid),
           NEW i \in Item, NEW q \in Int, NEW v \in Agent \cup {NoAgent},
           AsGood(y[n][i], z[n][i], q, v)
    PROVE  AsGood(y'[n][i], z'[n][i], q, v)
<1>1. /\ Improves(n, i) /\ y'[n][i] \in Int /\ y[n][i] \in Int
      /\ z'[n][i] # z[n][i] => z'[n][i] \in Agent
  BY HearsImproves
<1>2. \A x \in Agent \cup {NoAgent} : x \in Nat /\ (x \in Agent => x # 0) /\ NoAgent = 0
  BY AgentAssumption DEF NoAgent
<1>3. z[n][i] \in Agent \cup {NoAgent}
  BY DEF TypeInv, TypeOK, PluginTypeOK, Assignment
<1> QED  BY <1>1, <1>2, <1>3 DEF Improves, AsGood

\* Nothing but a StartAuction leaves the channels to d.
KeepsTo(d) == \A s \in Agent : \A m \in InFlight(net, <<s, d>>) :
    IsStart(m) \/ m \in InFlight(net', <<s, d>>)

\* Agent n tells d what it then believes.
TellsTo(n, d) == Bid(ComputeBid(auction_items'[n], View(n)')) \in InFlight(net', <<n, d>>)

\* What a step is to auctioneer d: it opens, another opens, another hears a
\* bid and tells if that changed its belief, it hears a bid itself, somebody
\* forgets, nothing happens; or a message is lost.
InformKind(a, d) ==
    \/ Opens(d, a) /\ \A n \in Agent \ {d} : ~ Bidding(n)
    \/ \E n \in Agent \ {d} :
          Opens(n, a) /\ KeepsTo(d) /\ (ItemsOf[a] # {} => TellsTo(n, d))
    \/ \E n \in Agent \ {d} : \E s \in Agent : \E bid \in ClaimBid :
          Hears(n, s, bid) /\ KeepsTo(d) /\ (Bidding(n) /\ changed'[n] => TellsTo(n, d))
    \/ \E s \in Agent : \E bid \in ClaimBid :
          Hears(d, s, bid) /\ \A t \in Agent : \A m \in InFlight(net, <<t, d>>) :
              IsStart(m) \/ m \in InFlight(net', <<t, d>>) \/ (t = s /\ m = Bid(bid))
    \/ (\E n \in Agent : Forgets(n)) /\ KeepsTo(d)
    \/ Rests /\ KeepsTo(d)
    \/ lost' > 0

LEMMA QuietKind ==
    ASSUME UNCHANGED net, Rests \/ \E n \in Agent : Forgets(n), NEW a, NEW d
    PROVE  InformKind(a, d)
BY DEF InformKind, KeepsTo

\* A message taken off a channel to somebody else, or a StartAuction.
LEMMA TakenKind ==
    ASSUME TypeInv, NEW s \in Agent, NEW n \in Agent, NEW k \in DOMAIN net[<<s, n>>],
           net' = Without(<<s, n>>, k), UNCHANGED <<cbbaVars, auction_items>>, NEW a,
           NEW d \in Agent, n # d \/ IsStart(net[<<s, n>>][k])
    PROVE  InformKind(a, d)
<1>1. <<s, n>> \in Channel /\ net \in [Channel -> Seq(Message)]
  BY DEF Channel, TypeInv, TypeOK
<1>2. /\ \A c \in Channel \ {<<s, n>>} : InFlight(net', c) = InFlight(net, c)
      /\ InFlight(net, <<s, n>>) = InFlight(net', <<s, n>>) \cup {net[<<s, n>>][k]}
  <2> DEFINE nt == Without(<<s, n>>, k)
  <2>1. /\ \A c \in Channel \ {<<s, n>>} : InFlight(nt, c) = InFlight(net, c)
        /\ InFlight(net, <<s, n>>) = InFlight(nt, <<s, n>>) \cup {net[<<s, n>>][k]}
    BY <1>1, WithoutInFlight
  <2>2. net' = nt
    OBVIOUS
  <2> HIDE DEF nt
  <2> QED  BY <2>1, <2>2
<1>3. KeepsTo(d)
  <2> SUFFICES ASSUME NEW t \in Agent, NEW m \in InFlight(net, <<t, d>>), ~ IsStart(m)
               PROVE  m \in InFlight(net', <<t, d>>)
    BY DEF KeepsTo
  <2>1. CASE <<t, d>> = <<s, n>>
    BY <1>2, <2>1
  <2>2. CASE <<t, d>> # <<s, n>>
    BY <1>2, <2>2 DEF Channel
  <2> QED  BY <2>1, <2>2
<1>4. SaysNothing
  BY TakingOff
<1> QED  BY <1>3, <1>4 DEF InformKind, Rests

\* Who is asked to bid tells the auctioneer.
LEMMA AskedKind ==
    ASSUME OneAuction, SingleAuction, TypeInv, NotAsked, NEW s \in Agent, NEW n \in Agent,
           HandleStart(s, n), NEW a \in Auction
    PROVE  InformKind(a, Auctioneer[a])
<1> DEFINE d == Auctioneer[a]
           b == ComputeBid(ItemsOf[a], FirstView(n, a))
<1>1. PICK nt \in [Channel -> Seq(Message)] :
        /\ Opens(n, a) /\ net' = BroadcastBid(nt, n, a)
        /\ \A c \in Channel : \A m \in InFlight(net, c) : m \in InFlight(nt, c) \/ IsStart(m)
  BY HandleStartIs DEF OneAuction
<1>2. d \in Agent /\ d \in Bidders[a]
  BY GoalAssumption DEF SingleAuction
<1>3. n # d
  <2>1. PICK k \in DOMAIN net[<<s, n>>] : net[<<s, n>>][k].kind = "start"
    BY DEF HandleStart, Deliverable
  <2>2. Starting(net, n)
    BY <2>1 DEF Starting, IsStart, Channel
  <2> QED  BY <2>2 DEF NotAsked
<1>4. net' = SendBid(nt, n, Bidders[a], ItemsOf[a], b)
  BY <1>1 DEF BroadcastBid
<1>5. b = ComputeBid(auction_items'[n], View(n)')
  <2>1. OnAuctionItemsReceived(n, a)
    BY <1>1 DEF Opens
  <2>2. auction_items'[n] = ItemsOf[a] /\ View(n)' = FirstView(n, a)
    BY <2>1, ItemsReceived DEF TypeInv, TypeOK
  <2> QED  BY <2>2
<1> HIDE DEF b, d
<1>6. /\ \A c \in Channel : InFlight(nt, c) \subseteq InFlight(net', c)
      /\ ItemsOf[a] # {} => Bid(b) \in InFlight(net', <<n, d>>)
  BY <1>2, <1>3, <1>4, SendBidReaches
<1>7. KeepsTo(d)
  BY <1>1, <1>2, <1>6 DEF KeepsTo, Channel
<1>8. InformKind(a, d)
  BY <1>1, <1>3, <1>5, <1>6, <1>7 DEF InformKind, TellsTo
<1> QED  BY <1>8 DEF d

\* Who changes its belief tells the auctioneer.
LEMMA ToldKind ==
    ASSUME SingleAuction, TypeInv, Members, NEW s \in Agent, NEW n \in Agent,
           HandleBid(s, n), NEW a \in Auction
    PROVE  InformKind(a, Auctioneer[a])
<1> DEFINE d == Auctioneer[a]
           b == ComputeBid(auction_items[n], View(n)')
<1>1. PICK bid \in ClaimBid, nt \in [Channel -> Seq(Message)] :
        /\ Hears(n, s, bid) /\ net' = Answer(nt, n)
        /\ \A c \in Channel : \A m \in InFlight(net, c) :
              m \in InFlight(nt, c) \/ (c = <<s, n>> /\ m = Bid(bid))
  BY HandleBidIs
<1>2. d \in Agent /\ d \in Bidders[a]
  BY GoalAssumption DEF SingleAuction
<1>3. net' = nt \/ net' = SendBid(nt, n, participants[n], auction_items[n], b)
  BY <1>1 DEF Answer
<1>4. changed'[n] => net' = SendBid(nt, n, participants[n], auction_items[n], b)
  BY <1>1 DEF Answer, CheckConvergence
<1>5. b = ComputeBid(auction_items'[n], View(n)')
  BY <1>1 DEF Hears, Update, baseVars
<1>6. Bidding(n) => auction_items[n] # {} /\ d \in participants[n]
  BY <1>2 DEF Members, Bidding
<1> HIDE DEF b, d
<1>7. /\ \A c \in Channel : InFlight(nt, c) \subseteq InFlight(net', c)
      /\ n # d /\ Bidding(n) /\ changed'[n] => Bid(b) \in InFlight(net', <<n, d>>)
  BY <1>2, <1>3, <1>4, <1>6, SendBidReaches
<1>8. \A t \in Agent : \A m \in InFlight(net, <<t, d>>) :
         m \in InFlight(net', <<t, d>>) \/ (t = s /\ n = d /\ m = Bid(bid))
  BY <1>1, <1>2, <1>7 DEF Channel
<1>9. CASE n = d
  BY <1>1, <1>8, <1>9 DEF InformKind, d
<1>10. CASE n # d
  <2>1. KeepsTo(d)
    BY <1>8, <1>10 DEF KeepsTo
  <2>2. InformKind(a, d)
    BY <1>1, <1>5, <1>7, <1>10, <2>1 DEF InformKind, TellsTo
  <2> QED  BY <2>2 DEF d
<1> QED  BY <1>9, <1>10

LEMMA InformKinds ==
    ASSUME SingleAuction, TypeInv, JoinsOnce, Ready, Members, NotAsked, [Next]_vars,
           NEW a \in Auction
    PROVE  InformKind(a, Auctioneer[a])
<1> DEFINE d == Auctioneer[a]
           Kind == InformKind(a, d)
<1>0. OneAuction /\ d \in Agent /\ \A b \in Auction : b = a
  BY GoalAssumption DEF SingleAuction, OneAuction
<1>1. ASSUME NEW b \in Auction, ReceiveGoal(b) PROVE Kind
  <2>1. b = a /\ MaySubmit(a) /\ Activate(d, a, a)
    BY <1>0, <1>1 DEF ReceiveGoal
  <2>2. \A n \in Agent : Outside(n)
    BY <2>1 DEF JoinsOnce, MaySubmit
  <2>3. OpenAuction(d, a)
    BY <1>0, <2>1, <2>2 DEF Activate, StartTicking, Outside
  <2>4. Opens(d, a)
    BY <1>0, <2>1, <2>3, OpensAuction DEF Opens, MaySubmit
  <2>5. \A n \in Agent : ~ Bidding(n)
    BY <2>2 DEF Outside, Bidding
  <2> QED  BY <2>4, <2>5 DEF InformKind
<1>2. ASSUME NEW s \in Agent, NEW n \in Agent, HandleStart(s, n) PROVE Kind
  BY <1>0, <1>2, AskedKind
<1>3. ASSUME NEW s \in Agent, NEW n \in Agent, HandleBid(s, n) PROVE Kind
  BY <1>3, ToldKind
<1>4. ASSUME NEW s \in Agent, NEW n \in Agent, HandleStartUnloadable(s, n), UNCHANGED cbbaVars
      PROVE  Kind
  <2>1. PICK k \in DOMAIN net[<<s, n>>] :
          net[<<s, n>>][k].kind = "start" /\ net' = Without(<<s, n>>, k)
    BY <1>4 DEF HandleStartUnloadable, Deliverable
  <2>2. UNCHANGED auction_items /\ IsStart(net[<<s, n>>][k])
    BY <1>4, <2>1 DEF HandleStartUnloadable, baseVars, IsStart
  <2> QED  BY <1>0, <1>4, <2>1, <2>2, TakenKind
<1>5. ASSUME NEW s \in Agent, NEW n \in Agent, DropUnregistered(s, n), UNCHANGED cbbaVars
      PROVE  Kind
  <2>1. PICK k \in DOMAIN net[<<s, n>>] :
          ~ Registered(n, net[<<s, n>>][k].kind) /\ net' = Without(<<s, n>>, k)
    BY <1>5 DEF DropUnregistered, Deliverable
  <2>2. UNCHANGED auction_items
    BY <1>5 DEF DropUnregistered, baseVars
  <2>3. n # d
    BY <2>1 DEF Registered, Ready, AllDone
  <2> QED  BY <1>0, <1>5, <2>1, <2>2, <2>3, TakenKind
<1>6. ASSUME NEW s \in Agent, NEW n \in Agent, LoseMessage(s, n) PROVE Kind
  <2>1. lost' = lost + 1 /\ lost \in Nat
    BY <1>6, GatewayAssumption DEF LoseMessage, Lose, TypeInv, TypeOK
  <2> QED  BY <2>1 DEF InformKind
<1>7. ASSUME NEW n \in Agent, SelfGoal(n) PROVE Kind
  <2>1. is_participant[n]
    BY <1>7 DEF JoinsOnce, SelfGoal, ReceiveSelfGoal, RefuseSelfGoal
  <2>2. UNCHANGED <<net, cbbaVars, auction_items>>
    BY <1>7, <2>1 DEF SelfGoal, ReceiveSelfGoal, RefuseSelfGoal, Activate, OpenAuction,
       StartTicking, netVars, pluginVars, baseVars
  <2>3. Rests
    BY <2>2 DEF Rests, SaysNothing
  <2> QED  BY <2>2, <2>3, QuietKind
<1>8. ASSUME NEW n \in Agent, RunSuccess(n) \/ RunFailure(n) \/ Stop(n) \/ Restart(n)
      PROVE  Kind
  <2>1. Clear(n) /\ UNCHANGED net
    BY <1>8 DEF RunSuccess, RunFailure, Stop, Restart, Reset, NewPlugin, netVars
  <2>2. Forgets(n)
    BY <2>1 DEF Forgets, SaysNothing
  <2> QED  BY <2>1, <2>2, QuietKind
<1>9. ASSUME \/ UNCHANGED vars
             \/ \E b \in Auction : RefuseActivation(b) /\ UNCHANGED cbbaVars
             \/ \E n \in Agent : RunWaiting(n)
             \/ \E n \in Agent : (Configure(n) \/ Pause(n) \/ Resume(n)) /\ UNCHANGED cbbaVars
      PROVE  Kind
  <2>1. UNCHANGED <<net, cbbaVars, auction_items>>
    BY <1>9 DEF RefuseActivation, RunWaiting, Configure, Pause, Resume,
       vars, netVars, pluginVars, baseVars
  <2>2. Rests
    BY <2>1 DEF Rests, SaysNothing
  <2> QED  BY <2>1, <2>2, QuietKind
<1> HIDE DEF Kind
<1>10. Kind
  BY <1>1, <1>2, <1>3, <1>4, <1>5, <1>6, <1>7, <1>8, <1>9
     DEF Next, Handle, Ignore, OnRun, Environment
<1> QED  BY <1>10 DEF Kind

\* Who bids does so for the auction, and with all its bidders.
LEMMA MembersNext ==
    ASSUME OneAuction, TypeInv, Members, [Next]_vars PROVE Members'
<1> DEFINE Same == \A m \in Agent : Bidding(m)' =>
               \/ participants'[m] = participants[m] /\ auction_items'[m] = auction_items[m]
               \/ \E a \in Auction : participants'[m] = Bidders[a] /\ auction_items'[m] = ItemsOf[a]
<1>1. cost \in CostTable /\ PluginTypeOK
  BY DEF TypeInv, TypeOK
<1>2. ASSUME NEW n \in Agent, NEW a \in Auction, OnAuctionItemsReceived(n, a) PROVE Same
  BY <1>1, <1>2 DEF OnAuctionItemsReceived, BeginAuction, PluginTypeOK
<1>3. ASSUME NEW n \in Agent, Reset(n) \/ NewPlugin(n) PROVE Same
  BY <1>1, <1>3 DEF Reset, NewPlugin, Clear, PluginTypeOK, Bidding
<1>4. ASSUME UNCHANGED baseVars PROVE Same
  BY <1>4 DEF baseVars
<1>5. ASSUME NEW n \in Agent, NEW a \in Auction, NEW name, Activate(n, a, name) PROVE Same
  <2>1. OnAuctionItemsReceived(n, a) \/ UNCHANGED baseVars
    BY <1>5 DEF Activate, OpenAuction, StartTicking, pluginVars
  <2> QED  BY <1>2, <1>4, <2>1
<1>6. ASSUME NEW s \in Agent, NEW n \in Agent, HandleStart(s, n) PROVE Same
  <2>1. PICK a \in Auction : Opens(n, a)
    BY <1>6, HandleStartIs
  <2> QED  BY <1>2, <2>1 DEF Opens
<1>7. ASSUME NEW n \in Agent, ReceiveSelfGoal(n) PROVE Same
  <2>1. self_goals[n] \in Seq(Auction) /\ self_goals[n] # <<>>
    BY <1>7 DEF ReceiveSelfGoal, TypeInv, TypeOK, NodeTypeOK
  <2>2. Head(self_goals[n]) \in Auction
    BY <2>1, HeadTailProperties
  <2> QED  BY <1>5, <1>7, <2>2 DEF ReceiveSelfGoal
<1>8. ASSUME NEW a \in Auction, ReceiveGoal(a) PROVE Same
  <2>1. Auctioneer[a] \in Agent
    BY GoalAssumption
  <2> QED  BY <1>5, <1>8, <2>1 DEF ReceiveGoal
<1>9. ASSUME NEW n \in Agent, RunSuccess(n) \/ RunFailure(n) \/ Stop(n) \/ Restart(n) PROVE Same
  BY <1>3, <1>9 DEF RunSuccess, RunFailure, Stop, Restart
<1>10. ASSUME \/ UNCHANGED vars
              \/ \E s, n \in Agent : HandleBid(s, n) \/ Ignore(s, n) \/ LoseMessage(s, n)
              \/ \E a \in Auction : RefuseActivation(a)
              \/ \E n \in Agent : RefuseSelfGoal(n) \/ RunWaiting(n) \/ Configure(n) \/ Pause(n) \/ Resume(n)
       PROVE  Same
  <2>1. UNCHANGED baseVars
    BY <1>10 DEF HandleBid, OnBidReceived, Update, Ignore, HandleStartUnloadable, DropUnregistered,
       LoseMessage, RefuseActivation, RefuseSelfGoal, RunWaiting, Configure, Pause, Resume,
       vars, pluginVars
  <2> QED  BY <1>4, <2>1
<1> HIDE DEF Same
<1>11. Same
  BY <1>6, <1>7, <1>8, <1>9, <1>10 DEF Next, Handle, SelfGoal, OnRun, Environment
<1> QED  BY <1>11 DEF Same, Members, Bidding, OneAuction

LEMMA ReadyNext ==
    ASSUME AuctioneerReady, TypeInv, Ready, [Next]_vars PROVE Ready'
<1>1. \/ UNCHANGED configured
      \/ \E n \in Agent : ConfigureNode(n) \/ RestartNode(n)
  BY DEF Next, vars, nodeVars, roleVars, ReceiveGoal, ReceiveSelfGoal, Activate, ActivateNode,
     Handle, HandleStart, JoinAuction, HandleBid, Ignore, HandleStartUnloadable, DropUnregistered,
     SelfGoal, RefuseSelfGoal, OnRun, RunWaiting, RunSuccess, EndSuccess, RunFailure, EndFailure,
     Stop, StopNode, Restart, Environment, RefuseActivation, RejectGoal, LoseMessage,
     Configure, Pause, PauseNode, Resume, ResumeNode
<1>2. configured \in [Agent -> Nat] /\ \A a \in Auction : Auctioneer[a] \in Agent
  BY GoalAssumption DEF TypeInv, TypeOK, NodeTypeOK
<1>3. ASSUME NEW n \in Agent, ConfigureNode(n) PROVE Ready'
  <2>1. configured[n] < AllDone /\ configured' = [configured EXCEPT ![n] = @ + 1]
    BY <1>3 DEF ConfigureNode
  <2> QED  BY <1>2, <2>1 DEF Ready, AllDone
<1>4. ASSUME NEW n \in Agent, RestartNode(n) PROVE Ready'
  <2>1. n \in Late /\ configured' = [configured EXCEPT ![n] = 0]
    BY <1>4 DEF RestartNode
  <2> QED  BY <1>2, <2>1 DEF Ready, AuctioneerReady
<1> QED  BY <1>1, <1>3, <1>4 DEF Ready

\* A loss is never forgotten.
LEMMA LostNext ==
    ASSUME TypeInv, [Next]_vars, lost' = 0 PROVE lost = 0
<1>1. lost' = lost \/ lost' = lost + 1
  BY DEF Next, vars, netVars, ReceiveGoal, ReceiveSelfGoal, Activate, OpenAuction, StartTicking,
     Handle, HandleStart, HandleBid, Ignore, HandleStartUnloadable, DropUnregistered,
     SelfGoal, RefuseSelfGoal, OnRun, RunWaiting, RunSuccess, RunFailure,
     Stop, Restart, Environment, RefuseActivation, LoseMessage, Lose, Configure, Pause, Resume
<1>2. lost \in Nat
  BY GatewayAssumption DEF TypeInv, TypeOK
<1> QED  BY <1>1, <1>2

\* What a node tells is what it believes.
LEMMA TellsItsBelief ==
    ASSUME NEW n \in Agent, NEW d \in Agent, TellsTo(n, d), NEW i \in Item, i \in auction_items'[n]
    PROVE  Telling(n, d, i)'
<1> DEFINE b == ComputeBid(auction_items'[n], View(n)')
<1>1. Bid(b) \in InFlight(net', <<n, d>>) /\ ~ IsStart(Bid(b)) /\ Bid(b).payload = b
  BY DEF TellsTo, IsStart, Bid
<1>2. b.y[i] = y'[n][i] /\ b.z[i] = z'[n][i]
  BY DEF ComputeBid, View
<1> HIDE DEF b
<1> QED  BY <1>1, <1>2 DEF Telling

LEMMA InformedNext ==
    ASSUME SingleAuction, TypeInv, Truth, BundleInv, InformedInv, [Next]_vars
    PROVE  Informed'
<1> SUFFICES ASSUME lost' = 0, NEW a \in Auction, Bidding(Auctioneer[a])',
                    NEW n \in Agent \ {Auctioneer[a]}, Bidding(n)', NEW i \in auction_items'[n]
             PROVE  \/ AsGood(y'[Auctioneer[a]][i], z'[Auctioneer[a]][i], y'[n][i], z'[n][i])
                    \/ Telling(n, Auctioneer[a], i)'
  BY DEF Informed
<1> DEFINE d == Auctioneer[a]
           Good == AsGood(y'[d][i], z'[d][i], y'[n][i], z'[n][i]) \/ Telling(n, d, i)'
<1>0. /\ OneAuction /\ d \in Agent /\ JoinsOnce /\ Blank /\ PluginInv
      /\ Ready /\ Members /\ NotAsked /\ Informed
  BY GoalAssumption DEF SingleAuction, BundleInv, InformedInv, TypeInv, TypeOK, PluginInv
<1>1. InformKind(a, d) /\ lost = 0
  BY <1>0, InformKinds, LostNext
<1>2. i \in Item /\ auction_items'[n] \subseteq Item
  <2>1. auction_items' \in [Agent -> SUBSET Item]
    BY TypeInvNext DEF TypeInv, TypeOK, PluginTypeOK
  <2> QED  BY <2>1
<1>3. ASSUME /\ y'[n] = y[n] /\ z'[n] = z[n] /\ auction_items'[n] = auction_items[n]
             /\ Bidding(d)
      PROVE  AsGood(y[d][i], z[d][i], y[n][i], z[n][i]) \/ Telling(n, d, i)
  BY <1>0, <1>1, <1>3 DEF Informed, Bidding
<1> HIDE DEF d
\* Neither the auctioneer nor n is touched.
<1>4. ASSUME /\ y'[n] = y[n] /\ z'[n] = z[n] /\ auction_items'[n] = auction_items[n]
             /\ y'[d] = y[d] /\ z'[d] = z[d] /\ auction_items'[d] = auction_items[d]
             /\ KeepsTo(d)
      PROVE  Good
  <2>1. Bidding(d)
    BY <1>4 DEF Bidding, d
  <2>2. Telling(n, d, i) => Telling(n, d, i)'
    BY <1>4 DEF Telling, KeepsTo
  <2> QED  BY <1>3, <1>4, <2>1, <2>2
<1>5. ASSUME Opens(d, a), \A m \in Agent \ {d} : ~ Bidding(m) PROVE Good
  <2>1. auction_items'[n] = auction_items[n]
    BY <1>0, <1>5, OpensClaims DEF d
  <2> QED  BY <1>5, <2>1 DEF Bidding, d
<1>6. ASSUME NEW m \in Agent \ {d}, Opens(m, a), KeepsTo(d), ItemsOf[a] # {} => TellsTo(m, d)
      PROVE  Good
  <2>1. /\ auction_items'[m] = ItemsOf[a]
        /\ \A k \in Agent \ {m} : /\ y'[k] = y[k] /\ z'[k] = z[k]
                                  /\ auction_items'[k] = auction_items[k]
    BY <1>0, <1>6, OpensClaims
  <2>2. CASE n = m
    BY <1>0, <1>2, <1>6, <2>1, <2>2, TellsItsBelief
  <2>3. CASE n # m
    BY <1>0, <1>4, <1>6, <2>1, <2>3
  <2> QED  BY <2>2, <2>3
<1>7. ASSUME NEW m \in Agent \ {d}, NEW s \in Agent, NEW bid \in ClaimBid, Hears(m, s, bid),
             KeepsTo(d), Bidding(m) /\ changed'[m] => TellsTo(m, d)
      PROVE  Good
  <2>1. /\ UNCHANGED auction_items
        /\ \A k \in Agent \ {m} : y'[k] = y[k] /\ z'[k] = z[k]
    BY <1>0, <1>7, UpdateView DEF Hears
  <2>2. CASE n = m /\ changed'[m]
    <3>1. Bidding(m)
      BY <2>1, <2>2 DEF Bidding
    <3> QED  BY <1>0, <1>2, <1>7, <2>2, <3>1, TellsItsBelief
  <2>3. CASE n = m /\ ~ changed'[m]
    <3>1. Bidding(m)
      BY <2>1, <2>3 DEF Bidding
    <3>2. y'[m] = y[m] /\ z'[m] = z[m]
      BY <1>0, <1>7, <2>3, <3>1, HearsFlag
    <3> QED  BY <1>0, <1>4, <1>7, <2>1, <2>3, <3>2
  <2>4. CASE n # m
    BY <1>0, <1>4, <1>7, <2>1, <2>4
  <2> QED  BY <2>2, <2>3, <2>4
<1>8. ASSUME NEW s \in Agent, NEW bid \in ClaimBid, Hears(d, s, bid),
             \A t \in Agent : \A m \in InFlight(net, <<t, d>>) :
                IsStart(m) \/ m \in InFlight(net', <<t, d>>) \/ (t = s /\ m = Bid(bid))
      PROVE  Good
  <2>1. /\ UNCHANGED auction_items /\ y'[n] = y[n] /\ z'[n] = z[n]
    BY <1>0, <1>8, UpdateView DEF Hears, d
  <2>2. Bidding(d) /\ Bidding(n)
    BY <2>1 DEF Bidding, d
  <2>3. y[n][i] \in Int /\ z[n][i] \in Agent \cup {NoAgent} /\ y[n][i] # NoBid
    <3>1. y[n][i] \in CostValue \cup {Infinity} /\ z[n][i] \in Agent \cup {NoAgent}
      BY <1>0, <1>2 DEF PluginInv, PluginTypeOK, Claims, Assignment
    <3>2. \A x \in CostValue \cup {Infinity} : x \in Int /\ x # NoBid
      BY CostAssumption DEF NoBid
    <3> QED  BY <3>1, <3>2
  <2>4. CASE AsGood(y[d][i], z[d][i], y[n][i], z[n][i])
    BY <1>0, <1>2, <1>8, <2>1, <2>3, <2>4, StaysAsGood
  <2>5. CASE Telling(n, d, i)
    <3>1. PICK m \in InFlight(net, <<n, d>>) :
            ~ IsStart(m) /\ m.payload.y[i] = y[n][i] /\ m.payload.z[i] = z[n][i]
      BY <2>5 DEF Telling
    <3>2. CASE m \in InFlight(net', <<n, d>>)
      BY <2>1, <3>1, <3>2 DEF Telling
    <3>3. CASE m = Bid(bid)
      <4>1. bid.y[i] = y[n][i] /\ bid.z[i] = z[n][i]
        BY <3>1, <3>3 DEF Bid
      <4>2. i \in auction_items[d]
        BY <1>0, <2>1, <2>2 DEF Members
      <4>3. AsGood(y'[d][i], z'[d][i], bid.y[i], bid.z[i])
        BY <1>0, <1>8, <2>3, <4>1, <4>2, HearsCounts
      <4> QED  BY <2>1, <4>1, <4>3
    <3> QED  BY <1>8, <3>1, <3>2, <3>3
  <2> QED  BY <1>3, <2>1, <2>2, <2>4, <2>5
<1>9. ASSUME (\E m \in Agent : Forgets(m)) \/ Rests, KeepsTo(d) PROVE Good
  <2>1. \A m \in Agent :
          \/ y'[m] = y[m] /\ z'[m] = z[m] /\ auction_items'[m] = auction_items[m]
          \/ auction_items'[m] = {}
    BY <1>9, QuietViews
  <2>2. auction_items'[d] # {} /\ auction_items'[n] # {}
    BY DEF Bidding, d
  <2> QED  BY <1>0, <1>4, <1>9, <2>1, <2>2
<1> HIDE DEF Good
<1>10. Good
  BY <1>1, <1>5, <1>6, <1>7, <1>8, <1>9 DEF InformKind
<1> QED  BY <1>10 DEF Good, d

LEMMA InformedInit == ASSUME AuctioneerReady PROVE Init => InformedInv
<1> SUFFICES ASSUME Init PROVE InformedInv
  OBVIOUS
<1>1. \A a \in Auction : Auctioneer[a] \in Agent
  BY GoalAssumption
<1>2. Ready
  BY <1>1 DEF Init, NodeInit, Ready, AuctioneerReady
<1>3. \A n \in Agent : ~ Bidding(n)
  BY DEF Init, PluginInit, Bidding
<1>4. NotAsked
  BY DEF Init, NotAsked, Starting
<1> QED  BY <1>2, <1>3, <1>4 DEF InformedInv, Members, Informed

\* In one auction whose auctioneer bids in it and was there from the start,
\* a fleet that has gone quiet without a loss leaves the auctioneer knowing,
\* of every item, a claim at least as good as anybody's: who changes its
\* belief says so, and what is said is not overtaken by what was said before.
THEOREM AuctioneerAlwaysInformed ==
    ASSUME SingleAuction, AuctioneerReady PROVE Spec => []AuctioneerInformed
<1>0. OneAuction
  BY DEF SingleAuction
<1>1. TypeInv /\ Truth /\ BundleInv /\ InformedInv /\ [Next]_vars => InformedInv'
  BY <1>0, ReadyNext, MembersNext, JoinsOnceNext, InformedNext
     DEF InformedInv, BundleInv, NotAsked
<1>2. TypeInv /\ InformedInv => AuctioneerInformed
  <2> SUFFICES ASSUME TypeInv, InformedInv, NEW a \in Auction, lost = 0,
                      \A c \in Channel : net[c] = <<>>, Bidding(Auctioneer[a]),
                      NEW n \in Agent, Bidding(n), NEW i \in auction_items[n]
               PROVE  AsGood(y[Auctioneer[a]][i], z[Auctioneer[a]][i], y[n][i], z[n][i])
    BY DEF AuctioneerInformed, KnowsAsGood, AsGood
  <2>1. CASE n = Auctioneer[a]
    <3>1. z[n][i] \in Agent \cup {NoAgent}
      BY DEF TypeInv, TypeOK, PluginTypeOK, Assignment
    <3>2. \A x \in Agent : x \in 1..x
      BY AgentAssumption DEF NoAgent
    <3> QED  BY <2>1, <3>1, <3>2 DEF AsGood
  <2>2. CASE n # Auctioneer[a]
    <3>1. Auctioneer[a] \in Agent /\ <<n, Auctioneer[a]>> \in Channel
      BY GoalAssumption DEF Channel
    <3>2. ~ Telling(n, Auctioneer[a], i)
      BY <3>1 DEF Telling, InFlight
    <3> QED  BY <2>2, <3>2 DEF InformedInv, Informed
  <2> QED  BY <2>1, <2>2
<1> QED  BY <1>0, <1>1, <1>2, InformedInit, BundleAlways, PTL DEF Spec
=============================================================================
