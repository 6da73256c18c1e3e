------------------------- MODULE GreedyAuctionProofs -------------------------
(***************************************************************************)
(* Safety of a fleet running the greedy plugin, for every fleet, every     *)
(* cost, every message order and every fault the model has.                *)
(***************************************************************************)
EXTENDS GreedyTypeProofs

-----------------------------------------------------------------------------
(***************************************************************************)
(* What any number of overlapping auctions cannot break.                   *)
(***************************************************************************)

\* The plugin's state changes in four ways only.
LEMMA PluginStep ==
    ASSUME TypeInv, [Next]_vars
    PROVE  \/ \E n \in Agent, a \in Auction : OnAuctionItemsReceived(n, a)
           \/ \E s, n \in Agent, costs \in CostVector : OnBidReceived(n, s, costs)
           \/ \E n \in Agent : Reset(n) \/ NewPlugin(n)
           \/ UNCHANGED pluginVars
<1>1. ASSUME NEW n \in Agent, NEW a \in Auction, NEW name, Activate(n, a, name)
      PROVE  OnAuctionItemsReceived(n, a) \/ UNCHANGED pluginVars
  BY <1>1 DEF Activate, OpenAuction, StartTicking
<1>2. ASSUME NEW n \in Agent, SelfGoal(n)
      PROVE  (\E a \in Auction : OnAuctionItemsReceived(n, a)) \/ UNCHANGED pluginVars
  <2>1. self_goals[n] # <<>> => Head(self_goals[n]) \in Auction
    BY HeadTailProperties DEF TypeInv, TypeOK, NodeTypeOK
  <2> QED  BY <1>1, <1>2, <2>1 DEF SelfGoal, ReceiveSelfGoal, RefuseSelfGoal, pluginVars
<1>3. ASSUME NEW s \in Agent, NEW n \in Agent, Handle(s, n)
      PROVE  \/ \E a \in Auction : OnAuctionItemsReceived(n, a)
             \/ \E costs \in CostVector : OnBidReceived(n, s, costs)
             \/ UNCHANGED pluginVars
  <2>1. \A k \in Deliverable(<<s, n>>) : net[<<s, n>>][k] \in Message
    BY DEF Deliverable, Channel, TypeInv, TypeOK
  <2>2. ASSUME HandleStart(s, n) PROVE \E a \in Auction : OnAuctionItemsReceived(n, a)
    BY <2>1, <2>2 DEF HandleStart, Message
  <2>3. ASSUME HandleBid(s, n) PROVE \E costs \in CostVector : OnBidReceived(n, s, costs)
    BY <2>1, <2>3 DEF HandleBid, Message
  <2> QED  BY <1>3, <2>2, <2>3 DEF Handle, Ignore, HandleStartUnloadable, DropUnregistered, pluginVars
<1>4. ASSUME NEW n \in Agent, OnRun(n)
      PROVE  Reset(n) \/ UNCHANGED pluginVars
  BY <1>4 DEF OnRun, RunWaiting, RunSuccess, RunFailure, vars
<1>5. CASE UNCHANGED vars
  BY <1>5 DEF vars
<1> QED
  BY <1>1, <1>2, <1>3, <1>4, <1>5, GoalAssumption
  DEF Next, Environment, ReceiveGoal, RefuseActivation, LoseMessage, Configure, Stop, Restart, Pause,
      Resume, pluginVars

\* An agent that has no cost from anyone resolves to nobody.
LEMMA EmptyResolution ==
    ASSUME NEW n \in Agent, NEW active
    PROVE  Resolution(n, NoCosts, [s \in Agent |-> NoCosts], active) = Nobody
<1>1. ASSUME NEW i \in Item
      PROVE  Winner(Offers(n, NoCosts, [s \in Agent |-> NoCosts], active, i)) = NoAgent
  <2> DEFINE offers == Offers(n, NoCosts, [s \in Agent |-> NoCosts], active, i)
  <2>1. \A s \in Agent : offers[s] = NoBid
    BY DEF Offers, NoCosts
  <2>2. offers \in [Agent -> CostValue \cup {NoBid}]
    BY DEF Offers, NoCosts
  <2> HIDE DEF offers
  <2>3. Winner(offers) = NoAgent
    BY <2>1, <2>2, WinnerFacts DEF CanWin
  <2> QED  BY <2>3 DEF offers
<1> QED  BY <1>1 DEF Resolution, Nobody

LEMMA FreshNext == TypeInv /\ AssignmentFresh /\ [Next]_vars => AssignmentFresh'
<1> SUFFICES ASSUME TypeInv, AssignmentFresh, [Next]_vars PROVE AssignmentFresh'
  OBVIOUS
<1>1. PluginTypeOK /\ PluginTypeOK'
  BY TypeInvNext DEF TypeInv, TypeOK
<1>2. ASSUME NEW n \in Agent, NEW a \in Auction, OnAuctionItemsReceived(n, a)
      PROVE  AssignmentFresh'
  BY <1>1, <1>2 DEF OnAuctionItemsReceived, BeginAuction, SolveConflicts, AssignmentFresh, PluginTypeOK
<1>3. ASSUME NEW s \in Agent, NEW n \in Agent, NEW costs \in CostVector, OnBidReceived(n, s, costs)
      PROVE  AssignmentFresh'
  BY <1>1, <1>3 DEF OnBidReceived, baseVars, SolveConflicts, AssignmentFresh, PluginTypeOK
<1>4. ASSUME NEW n \in Agent, Reset(n) \/ NewPlugin(n) PROVE AssignmentFresh'
  BY <1>1, <1>4, EmptyResolution DEF Reset, NewPlugin, Clear, AssignmentFresh, PluginTypeOK
<1>5. CASE UNCHANGED pluginVars
  BY <1>5 DEF pluginVars, baseVars, greedyVars, AssignmentFresh
<1> QED  BY <1>2, <1>3, <1>4, <1>5, PluginStep

\* No interleaving of handlers leaves an agent's assignment stale.
THEOREM AssignmentIsFresh == Spec => []AssignmentFresh
<1>1. Init => AssignmentFresh
  BY EmptyResolution DEF Init, PluginInit, AssignmentFresh
<1> QED  BY <1>1, FreshNext, TypeInvInit, TypeInvNext, PTL DEF Spec

\* Nobody outside the auction wins an item, on any node, at any moment.
THEOREM NoGhostWinners == Spec => []GhostFree
<1>1. TypeInv /\ AssignmentFresh => GhostFree
  <2> SUFFICES ASSUME TypeInv, AssignmentFresh, NEW n \in Agent, NEW i \in Item
               PROVE  global_assignment[n][i] \in participants[n] \cup {n, NoAgent}
    BY DEF GhostFree
  <2> DEFINE offers == Offers(n, my_costs[n], received_bids[n], participants[n], i)
  <2>1. global_assignment[n][i] = Winner(offers)
    BY DEF AssignmentFresh, Resolution
  <2>2. offers \in [Agent -> CostValue \cup {NoBid}]
    BY DEF Offers, TypeInv, TypeOK, PluginTypeOK, CostVector
  <2>3. \A s \in Agent : CanWin(offers[s]) => s \in participants[n] \cup {n}
    BY DEF Offers, CanWin
  <2> HIDE DEF offers
  <2> QED  BY <2>1, <2>2, <2>3, WinnerFacts
<1> QED  BY <1>1, AssignmentIsFresh, TypeInvInit, TypeInvNext, PTL DEF Spec

-----------------------------------------------------------------------------
(***************************************************************************)
(* The knowledge base.  While a node runs "started" is its only status     *)
(* fact, whatever a process before it left there; this is why "completed"  *)
(* is always inserted anew.                                                *)
(***************************************************************************)
KbInv == \A n \in Agent : IF running[n] THEN kb_status[n] = {"started"}
                         ELSE goal[n] # NoName => "started" \notin kb_status[n]

LEMMA KbNext == TypeInv /\ KbInv /\ [Next]_vars => KbInv'
<1> SUFFICES ASSUME TypeInv, KbInv, [Next]_vars PROVE KbInv'
  OBVIOUS
<1> USE DEF KbInv, kbVars, serverVars
<1>t. /\ running \in [Agent -> BOOLEAN] /\ kb_status \in [Agent -> SUBSET {"started", "completed"}]
      /\ goal \in [Agent -> Auction \cup {NoName}] /\ \A n \in Agent : running[n] => goal[n] # NoName
  BY AuctionAssumption DEF TypeInv, TypeOK, NodeTypeOK, RunningHasGoal
<1>1. ASSUME NEW n \in Agent, NEW a, NEW name, ActivateNode(n, a, name) PROVE KbInv'
  BY <1>t, <1>1 DEF ActivateNode, AnnounceStart
<1>2. ASSUME NEW a \in Auction, ReceiveGoal(a) \/ RefuseActivation(a) PROVE KbInv'
  BY <1>1, <1>2, GoalAssumption DEF ReceiveGoal, RefuseActivation, RejectGoal, Activate
<1>3. ASSUME NEW n \in Agent, SelfGoal(n) PROVE KbInv'
  BY <1>1, <1>3 DEF SelfGoal, ReceiveSelfGoal, RefuseSelfGoal, Activate
<1>4. ASSUME NEW s \in Agent, NEW n \in Agent, Handle(s, n) \/ LoseMessage(s, n) PROVE KbInv'
  BY <1>4 DEF Handle, Ignore, HandleStart, HandleStartUnloadable, HandleBid, DropUnregistered,
     LoseMessage, JoinAuction, nodeVars
<1>5. ASSUME NEW n \in Agent, OnRun(n) \/ Stop(n) \/ Restart(n) PROVE KbInv'
  BY <1>t, <1>5 DEF OnRun, RunWaiting, RunSuccess, RunFailure, EndSuccess, EndFailure, RetractStart,
     Stop, StopNode, Restart, RestartNode, vars, nodeVars
<1>6. ASSUME NEW n \in Agent, Configure(n) \/ Pause(n) \/ Resume(n) PROVE KbInv'
  BY <1>6 DEF Configure, ConfigureNode, Pause, PauseNode, Resume, ResumeNode
<1>7. CASE UNCHANGED vars
  BY <1>7 DEF vars, nodeVars
<1> QED  BY <1>2, <1>3, <1>4, <1>5, <1>6, <1>7 DEF Next, Environment

LEMMA KbInit == Init => KbInv
BY DEF Init, NodeInit, KbInv

\* The flag started_ is set on activation and cleared by SUCCESS, by a stop
\* and by the end of the process: only FAILURE leaves it set.
Failed(n, a) == \E r \in results : r.by = n /\ r.auction = a /\ r.status = "FAILURE"

FlagInv == \A n \in Agent : IF running[n] THEN started[n]
                           ELSE started[n] => Failed(n, goal[n])

LEMMA FlagNext == TypeInv /\ FlagInv /\ [Next]_vars => FlagInv'
<1> SUFFICES ASSUME TypeInv, FlagInv, [Next]_vars PROVE FlagInv'
  OBVIOUS
<1>t. /\ running \in [Agent -> BOOLEAN] /\ started \in [Agent -> BOOLEAN]
      /\ goal \in [Agent -> Auction \cup {NoName}]
  BY DEF TypeInv, TypeOK, NodeTypeOK
<1>0. ASSUME results \subseteq results', UNCHANGED <<running, started, goal>> PROVE FlagInv'
  BY <1>0 DEF FlagInv, Failed
<1>1. ASSUME NEW n \in Agent, NEW a \in Auction, NEW name, ActivateNode(n, a, name) PROVE FlagInv'
  BY <1>t, <1>1 DEF ActivateNode, FlagInv, Failed
<1>2. ASSUME NEW a \in Auction, ReceiveGoal(a) \/ RefuseActivation(a) PROVE FlagInv'
  BY <1>0, <1>1, <1>2, GoalAssumption DEF ReceiveGoal, RefuseActivation, RejectGoal, Activate, serverVars
<1>3. ASSUME NEW n \in Agent, SelfGoal(n) PROVE FlagInv'
  <2>1. ASSUME self_goals[n] # <<>> PROVE Head(self_goals[n]) \in Auction
    BY <2>1, HeadTailProperties DEF TypeInv, TypeOK, NodeTypeOK
  <2> QED  BY <1>0, <1>1, <1>3, <2>1
    DEF SelfGoal, ReceiveSelfGoal, RefuseSelfGoal, Activate, serverVars
<1>4. ASSUME NEW s \in Agent, NEW n \in Agent, Handle(s, n) \/ LoseMessage(s, n) PROVE FlagInv'
  BY <1>0, <1>4 DEF Handle, Ignore, HandleStart, HandleStartUnloadable, HandleBid, DropUnregistered,
     LoseMessage, JoinAuction, nodeVars, serverVars
<1>5. ASSUME NEW n \in Agent, RunFailure(n) PROVE FlagInv'
  <2> DEFINE ended == [by |-> n, auction |-> goal[n], status |-> "FAILURE", winners |-> Nobody]
  <2>1. results' = results \cup {ended} /\ ended.by = n /\ ended.auction = goal[n] /\ ended.status = "FAILURE"
    BY <1>5 DEF RunFailure, EndFailure, Report
  <2> HIDE DEF ended
  <2>2. running' = [running EXCEPT ![n] = FALSE] /\ UNCHANGED <<started, goal>>
    BY <1>5 DEF RunFailure, EndFailure
  <2> QED  BY <1>t, <2>1, <2>2 DEF FlagInv, Failed
<1>6. ASSUME NEW n \in Agent, RunSuccess(n) \/ Stop(n) \/ Restart(n) PROVE FlagInv'
  <2>1. /\ started' = [started EXCEPT ![n] = FALSE] /\ running' = [running EXCEPT ![n] = FALSE]
        /\ goal' = goal \/ goal' = [goal EXCEPT ![n] = NoName]
        /\ results \subseteq results'
    BY <1>6 DEF RunSuccess, EndSuccess, Stop, StopNode, Restart, RestartNode, Report
  <2> QED  BY <1>t, <2>1 DEF FlagInv, Failed
<1>7. ASSUME NEW n \in Agent, RunWaiting(n) \/ Configure(n) \/ Pause(n) \/ Resume(n) PROVE FlagInv'
  BY <1>0, <1>7 DEF RunWaiting, Configure, ConfigureNode, Pause, PauseNode, Resume, ResumeNode,
     vars, nodeVars, serverVars
<1>8. CASE UNCHANGED vars
  BY <1>0, <1>8 DEF vars, nodeVars, serverVars
<1> QED  BY <1>2, <1>3, <1>4, <1>5, <1>6, <1>7, <1>8 DEF Next, Environment, OnRun

LEMMA FlagInit == Init => FlagInv
BY DEF Init, NodeInit, FlagInv

\* "started" is in the knowledge base exactly while a goal is executed, and of
\* the ends of an execution only FAILURE leaves the flag set.
THEOREM KbTracksExecutionAlways == Spec => []KbTracksExecution
<1>1. TypeInv /\ KbInv /\ FlagInv => KbTracksExecution
  BY AuctionAssumption DEF KbInv, FlagInv, Failed, KbTracksExecution, TypeInv, TypeOK, NodeTypeOK
<1> QED  BY <1>1, KbInit, KbNext, FlagInit, FlagNext, TypeInvInit, TypeInvNext, PTL DEF Spec
\* Every success triggers the monitor: "completed" was not there before.
THEOREM CompletionAlwaysNew == Spec => CompletionIsNew
<1>1. TypeInv /\ KbInv /\ [Next]_vars => [CompletionInserted]_vars
  <2> SUFFICES ASSUME TypeInv, KbInv, [Next]_vars, NEW n \in Agent,
                      NEW r \in results' \ results, r.by = n, r.status = "SUCCESS"
               PROVE  "completed" \in kb_status'[n] \ kb_status[n]
    BY DEF CompletionInserted
  <2>1. \A m \in Agent, status \in Status : \A w : Report(m, status, w) =>
           r = [by |-> m, auction |-> goal[m], status |-> status, winners |-> w]
    BY DEF Report
  <2>2. ASSUME NEW m \in Agent, RunSuccess(m) PROVE "completed" \in kb_status'[n] \ kb_status[n]
    <3>1. n = m
      BY <2>1, <2>2 DEF RunSuccess, EndSuccess, Status
    <3> QED
      BY <2>2, <3>1 DEF RunSuccess, EndSuccess, Ticking, KbInv, TypeInv, TypeOK, NodeTypeOK
  <2>3. ASSUME NEW m \in Agent, RunFailure(m) \/ Stop(m) PROVE FALSE
    BY <2>1, <2>3 DEF RunFailure, EndFailure, Stop, StopNode, RetractStart, Status
  <2>4. ASSUME UNCHANGED results PROVE FALSE
    BY <2>4
  <2> QED
    BY <2>2, <2>3, <2>4
    DEF Next, Environment, Ignore, ReceiveGoal, RefuseActivation, Activate, ActivateNode, AnnounceStart, RejectGoal, SelfGoal,
        ReceiveSelfGoal, RefuseSelfGoal, Handle, HandleStart, HandleStartUnloadable, HandleBid,
        DropUnregistered, LoseMessage, JoinAuction, OnRun, RunWaiting, Configure, ConfigureNode,
        Pause, PauseNode, Resume, ResumeNode, Restart, RestartNode, nodeVars, vars
<1> QED  BY <1>1, KbInit, KbNext, TypeInvInit, TypeInvNext, PTL DEF Spec, CompletionIsNew

-----------------------------------------------------------------------------
(***************************************************************************)
(* What is said of the items.  Facts and results only grow, and together.  *)
(***************************************************************************)
AssignedFact(i, v) == [item |-> i, prop |-> "assignedTo", value |-> v]

Reported(n, i, v) == \E r \in results :
    r.by = n /\ r.status = "SUCCESS" /\ r.winners[i] = v /\ v # NoAgent

KbSound == \A n \in Agent : \A i \in Item : \A v \in Agent \cup {NoAgent} :
    AssignedFact(i, v) \in kb_facts[n] <=> Reported(n, i, v)

\* A step that adds no fact and no success.
LEMMA KbSoundKept ==
    ASSUME KbSound, UNCHANGED kb_facts,
           UNCHANGED results \/ \E m \in Agent, status \in {"FAILURE", "ABORTED"} : Report(m, status, Nobody)
    PROVE  KbSound'
<1>1. \A r : r \in results' /\ r.status = "SUCCESS" <=> r \in results /\ r.status = "SUCCESS"
  BY DEF Report
<1>2. \A n, i, v : Reported(n, i, v)' <=> Reported(n, i, v)
  BY <1>1 DEF Reported
<1>3. \A n, i, v : (AssignedFact(i, v) \in kb_facts[n])' <=> AssignedFact(i, v) \in kb_facts[n]
  BY DEF AssignedFact
<1> QED  BY <1>2, <1>3 DEF KbSound

\* Which assignedTo facts a success publishes.
LEMMA FactsOfFacts ==
    ASSUME NEW n \in Agent, NEW w, NEW i, NEW v
    PROVE  AssignedFact(i, v) \in FactsOf(n, w) <=> i \in auction_items[n] /\ v = w[i]
<1> DEFINE Pair(j) == {[item |-> j, prop |-> "auctionId", value |-> auction_id[n]],
                       [item |-> j, prop |-> "assignedTo", value |-> w[j]]}
<1>1. \A f : f \in FactsOf(n, w) <=> \E j \in auction_items[n] : f \in Pair(j)
  BY DEF FactsOf
<1>2. \A j : AssignedFact(i, v) \in Pair(j) <=> i = j /\ v = w[j]
  BY DEF AssignedFact
<1> HIDE DEF Pair
<1> QED  BY <1>1, <1>2

LEMMA SuccessKeepsKb ==
    ASSUME TypeInv, KbSound, NEW n \in Agent, RunSuccess(n)
    PROVE  KbSound'
<1> DEFINE w == GetResult(n)
           ended == [by |-> n, auction |-> goal[n], status |-> "SUCCESS", winners |-> w]
<1>1. /\ results' = results \cup {ended}
      /\ kb_facts' = [kb_facts EXCEPT ![n] = @ \cup FactsOf(n, w)]
      /\ \A i \in auction_items[n] : w[i] # NoAgent
  BY DEF RunSuccess, EndSuccess, Report, Unassigned
<1>2. /\ kb_facts \in [Agent -> SUBSET Fact] /\ auction_items[n] \subseteq Item
      /\ \A i \in Item \ auction_items[n] : w[i] = NoAgent
  BY DEF TypeInv, TypeOK, NodeTypeOK, PluginTypeOK, GetResult
<1> SUFFICES ASSUME NEW m \in Agent, NEW i \in Item, NEW v \in Agent \cup {NoAgent}
             PROVE  AssignedFact(i, v) \in kb_facts'[m] <=> Reported(m, i, v)'
  BY DEF KbSound, AssignedFact
<1>3. AssignedFact(i, v) \in FactsOf(n, w) <=> i \in auction_items[n] /\ v = w[i]
  BY FactsOfFacts
<1>4. Reported(m, i, v)' <=> Reported(m, i, v) \/ (m = n /\ w[i] = v /\ v # NoAgent)
  <2>1. \A r : r \in results' <=> r \in results \/ r = ended
    BY <1>1
  <2>2. ended.by = n /\ ended.status = "SUCCESS" /\ ended.winners = w
    OBVIOUS
  <2> HIDE DEF w, ended
  <2> QED  BY <2>1, <2>2 DEF Reported
<1>5. AssignedFact(i, v) \in kb_facts[m] <=> Reported(m, i, v)
  BY DEF KbSound
<1>6. CASE m = n
  <2>1. kb_facts'[m] = kb_facts[m] \cup FactsOf(n, w)
    BY <1>1, <1>2, <1>6
  <2> HIDE DEF w
  <2> QED  BY <2>1, <1>1, <1>2, <1>3, <1>4, <1>5, <1>6
<1>7. CASE m # n
  <2>1. kb_facts'[m] = kb_facts[m]
    BY <1>1, <1>2, <1>7
  <2> QED  BY <2>1, <1>4, <1>5, <1>7
<1> QED  BY <1>6, <1>7

LEMMA KbSoundNext == TypeInv /\ KbSound /\ [Next]_vars => KbSound'
<1> SUFFICES ASSUME TypeInv, KbSound, [Next]_vars PROVE KbSound'
  OBVIOUS
<1> USE KbSoundKept
<1>1. ASSUME NEW a \in Auction, ReceiveGoal(a) \/ RefuseActivation(a) PROVE KbSound'
  BY <1>1 DEF ReceiveGoal, RefuseActivation, RejectGoal, Activate, ActivateNode, kbVars
<1>2. ASSUME NEW n \in Agent, SelfGoal(n) PROVE KbSound'
  BY <1>2 DEF SelfGoal, ReceiveSelfGoal, RefuseSelfGoal, Activate, ActivateNode, kbVars
<1>3. ASSUME NEW s \in Agent, NEW n \in Agent, Handle(s, n) \/ LoseMessage(s, n) PROVE KbSound'
  BY <1>3 DEF Handle, Ignore, HandleStart, HandleStartUnloadable, HandleBid, DropUnregistered,
     LoseMessage, JoinAuction, nodeVars, kbVars
<1>4. ASSUME NEW n \in Agent, RunFailure(n) \/ Stop(n) PROVE KbSound'
  BY <1>4 DEF RunFailure, EndFailure, Stop, StopNode
<1>5. ASSUME NEW n \in Agent, RunWaiting(n) \/ Restart(n) \/ Configure(n) \/ Pause(n) \/ Resume(n)
      PROVE  KbSound'
  BY <1>5 DEF RunWaiting, Restart, RestartNode, Configure, ConfigureNode, Pause, PauseNode,
     Resume, ResumeNode, vars, nodeVars, kbVars
<1>6. CASE UNCHANGED vars
  BY <1>6 DEF vars, nodeVars, kbVars
<1> QED
  BY <1>1, <1>2, <1>3, <1>4, <1>5, <1>6, SuccessKeepsKb DEF Next, OnRun, Environment

\* The knowledge base and the successes a node reported say the same of who has
\* which item, for any fleet, any auctions, losses, stops and restarts.
THEOREM KbMirrorsResultsAlways == Spec => []KbMirrorsResults
<1>1. Init => KbSound
  BY DEF Init, NodeInit, KbSound, Reported
<1>2. TypeInv /\ KbSound => KbMirrorsResults
  <2> SUFFICES ASSUME TypeInv, KbSound, NEW n \in Agent
               PROVE  {<<f.item, f.value>> : f \in {g \in kb_facts[n] : g.prop = "assignedTo"}}
                        = UNION {{<<i, r.winners[i]>> : i \in {j \in Item : r.winners[j] # NoAgent}}
                                   : r \in {q \in results : q.by = n /\ q.status = "SUCCESS"}}
    BY DEF KbMirrorsResults
  <2> DEFINE said == {<<f.item, f.value>> : f \in {g \in kb_facts[n] : g.prop = "assignedTo"}}
             ended == UNION {{<<i, r.winners[i]>> : i \in {j \in Item : r.winners[j] # NoAgent}}
                               : r \in {q \in results : q.by = n /\ q.status = "SUCCESS"}}
  <2>1. ASSUME NEW p \in said PROVE p \in ended
    <3>1. PICK f \in kb_facts[n] : f.prop = "assignedTo" /\ p = <<f.item, f.value>>
      OBVIOUS
    <3>2. f \in Fact
      BY <3>1 DEF TypeInv, TypeOK, NodeTypeOK
    <3>3. f.item \in Item /\ f.value \in Agent \cup {NoAgent} /\ f = AssignedFact(f.item, f.value)
      BY <3>1, <3>2 DEF Fact, AssignedFact
    <3>4. Reported(n, f.item, f.value)
      BY <3>1, <3>3 DEF KbSound
    <3> QED  BY <3>1, <3>3, <3>4 DEF Reported
  <2>2. ASSUME NEW p \in ended PROVE p \in said
    <3>1. PICK r \in results, i \in Item :
             /\ r.by = n /\ r.status = "SUCCESS" /\ r.winners[i] # NoAgent
             /\ p = <<i, r.winners[i]>>
      OBVIOUS
    <3>2. r.winners[i] \in Agent \cup {NoAgent}
      BY <3>1 DEF TypeInv, TypeOK, NodeTypeOK, Result, Assignment
    <3>3. AssignedFact(i, r.winners[i]) \in kb_facts[n]
      BY <3>1, <3>2 DEF KbSound, Reported
    <3> QED  BY <3>1, <3>3 DEF AssignedFact
  <2>3. said = ended
    <3> HIDE DEF said, ended
    <3> QED  BY <2>1, <2>2
  <2> QED  BY <2>3
<1> QED  BY <1>1, <1>2, KbSoundNext, TypeInvInit, TypeInvNext, PTL DEF Spec

-----------------------------------------------------------------------------
(***************************************************************************)
(* Identical bid data.  Two nodes that hold the same costs could disagree  *)
(* over an agent that takes its own cost into account without being a      *)
(* participant.  When auctioneers bid in their auctions, only bidders are  *)
(* asked, ask themselves, and evaluate the items.                          *)
(***************************************************************************)
AuctioneersBid == \A a \in Auction : Auctioneer[a] \in Bidders[a]

BiddersAsked ==
    /\ \A c \in Channel : \A m \in InFlight(net, c) : m.kind = "start" => c[2] \in Bidders[m.auction]
    /\ \A n \in Agent : \A k \in DOMAIN self_goals[n] : n \in Bidders[self_goals[n][k]]

OwnCostsCount == \A n \in Agent : my_costs[n] # NoCosts => n \in participants[n]

LEMMA BroadcastAsks ==
    ASSUME cost \in CostTable, NEW nt \in [Channel -> Seq(Message)], NEW n \in Agent,
           NEW a \in Auction, NEW c \in Channel, NEW m \in InFlight(BroadcastBid(nt, n, a), c),
           m.kind = "start"
    PROVE  m \in InFlight(nt, c)
BY ForwardInFlight DEF BroadcastBid, SendBid, Bid

\* Goals and self-goals: who opens an auction bids in it.
LEMMA ActivateAsks ==
    ASSUME TypeInv, BiddersAsked, OwnCostsCount, NEW n \in Agent, NEW a \in Auction,
           NEW name, n \in Bidders[a], Activate(n, a, name)
    PROVE  /\ OwnCostsCount'
           /\ \A c \in Channel : \A m \in InFlight(net', c) : m.kind = "start" => c[2] \in Bidders[m.auction]
<1>1. cost \in CostTable /\ net \in [Channel -> Seq(Message)] /\ PluginTypeOK
  BY DEF TypeInv, TypeOK
<1>2. CASE StartTicking(n)
  BY <1>2 DEF StartTicking, pluginVars, baseVars, greedyVars, netVars, OwnCostsCount, BiddersAsked
<1>3. CASE OpenAuction(n, a)
  <2>1. OwnCostsCount'
    BY <1>1, <1>3 DEF OpenAuction, OnAuctionItemsReceived, BeginAuction, OwnCostsCount, PluginTypeOK
  <2>2. BroadcastBid(net, n, a) \in [Channel -> Seq(Message)]
    BY <1>1, BroadcastBidType
  <2>3. ASSUME NEW c \in Channel, NEW m \in InFlight(net', c), m.kind = "start"
        PROVE  c[2] \in Bidders[m.auction]
    <3>1. \/ m \in InFlight(BroadcastBid(net, n, a), c)
          \/ m = StartAuction(a) /\ c[2] \in Bidders[a]
      BY <1>3, <2>2, <2>3, ForwardInFlight DEF OpenAuction
    <3> QED  BY <1>1, <2>3, <3>1, BroadcastAsks DEF BiddersAsked, StartAuction
  <2> QED  BY <2>1, <2>3
<1> QED  BY <1>2, <1>3 DEF Activate

LEMMA BiddersAskedNext ==
    ASSUME AuctioneersBid
    PROVE  TypeInv /\ BiddersAsked /\ OwnCostsCount /\ [Next]_vars => BiddersAsked' /\ OwnCostsCount'
<1> SUFFICES ASSUME TypeInv, BiddersAsked, OwnCostsCount, [Next]_vars
             PROVE  BiddersAsked' /\ OwnCostsCount'
  OBVIOUS
<1> DEFINE Asked(nt) == \A c \in Channel : \A m \in InFlight(nt, c) :
                            m.kind = "start" => c[2] \in Bidders[m.auction]
           Goals(sg) == \A n \in Agent : \A k \in DOMAIN sg[n] : n \in Bidders[sg[n][k]]
<1>1. /\ cost \in CostTable /\ net \in [Channel -> Seq(Message)] /\ PluginTypeOK
      /\ self_goals \in [Agent -> Seq(Auction)] /\ Asked(net) /\ Goals(self_goals)
  BY DEF TypeInv, TypeOK, NodeTypeOK, BiddersAsked
<1>2. (BiddersAsked' <=> Asked(net') /\ Goals(self_goals'))
  BY DEF BiddersAsked, InFlight
<1>3. ASSUME NEW a \in Auction, ReceiveGoal(a) PROVE Asked(net') /\ Goals(self_goals') /\ OwnCostsCount'
  BY <1>1, <1>3, ActivateAsks, GoalAssumption DEF ReceiveGoal, AuctioneersBid
<1>4. ASSUME NEW n \in Agent, SelfGoal(n) PROVE Asked(net') /\ Goals(self_goals') /\ OwnCostsCount'
  <2>1. self_goals[n] # <<>> /\ self_goals' = [self_goals EXCEPT ![n] = Tail(@)]
    BY <1>4 DEF SelfGoal, ReceiveSelfGoal, RefuseSelfGoal
  <2>2. /\ Head(self_goals[n]) = self_goals[n][1] /\ 1 \in DOMAIN self_goals[n]
        /\ Head(self_goals[n]) \in Auction
    BY <1>1, <2>1
  <2>3. \A k \in DOMAIN Tail(self_goals[n]) :
          k + 1 \in DOMAIN self_goals[n] /\ Tail(self_goals[n])[k] = self_goals[n][k+1]
    BY <1>1, <2>1, HeadTailProperties
  <2>4. Goals(self_goals')
    BY <1>1, <2>1, <2>3
  <2>5. ASSUME ReceiveSelfGoal(n) PROVE Asked(net') /\ OwnCostsCount'
    BY <1>1, <2>2, <2>5, ActivateAsks DEF ReceiveSelfGoal
  <2>6. ASSUME RefuseSelfGoal(n), UNCHANGED greedyVars PROVE Asked(net') /\ OwnCostsCount'
    BY <1>1, <2>6 DEF RefuseSelfGoal, netVars, baseVars, greedyVars, OwnCostsCount
  <2> QED  BY <1>4, <2>4, <2>5, <2>6 DEF SelfGoal
<1>5. ASSUME NEW s \in Agent, NEW n \in Agent, HandleStart(s, n)
      PROVE  Asked(net') /\ Goals(self_goals') /\ OwnCostsCount'
  <2>1. PICK k \in DOMAIN net[<<s, n>>] :
          /\ net[<<s, n>>][k].kind = "start"
          /\ JoinAuction(n, net[<<s, n>>][k].auction)
          /\ OnAuctionItemsReceived(n, net[<<s, n>>][k].auction)
          /\ net' = BroadcastBid(Without(<<s, n>>, k), n, net[<<s, n>>][k].auction)
    BY <1>5 DEF HandleStart, Deliverable
  <2> DEFINE a == net[<<s, n>>][k].auction
             left == Without(<<s, n>>, k)
  <2>2. <<s, n>> \in Channel /\ a \in Auction
    BY <1>1, <2>1 DEF Channel, Message
  <2>3. n \in Bidders[a]
    BY <1>1, <2>1, <2>2 DEF InFlight
  <2>4. left \in [Channel -> Seq(Message)] /\ Asked(left)
    BY <1>1, <2>1, <2>2, WithoutType, WithoutInFlight
  <2>5. Asked(net')
    <3> HIDE DEF left, a
    <3>1. net' = BroadcastBid(left, n, a)
      BY <2>1 DEF left, a
    <3> QED  BY <1>1, <2>2, <2>4, <3>1, BroadcastAsks
  <2>6. Goals(self_goals')
    <3>1. self_goals' = [self_goals EXCEPT ![n] = Append(@, a)]
      BY <2>1 DEF JoinAuction
    <3>2. \A j \in DOMAIN Append(self_goals[n], a) :
            \/ j \in DOMAIN self_goals[n] /\ Append(self_goals[n], a)[j] = self_goals[n][j]
            \/ Append(self_goals[n], a)[j] = a
      BY <1>1, AppendProperties
    <3> HIDE DEF a
    <3> QED  BY <1>1, <2>3, <3>1, <3>2
  <2>7. OwnCostsCount'
    BY <1>1, <2>1, <2>3 DEF OnAuctionItemsReceived, BeginAuction, OwnCostsCount, PluginTypeOK
  <2> QED  BY <2>5, <2>6, <2>7
<1>6. ASSUME NEW s \in Agent, NEW n \in Agent, HandleBid(s, n) \/ Ignore(s, n) \/ LoseMessage(s, n),
             HandleBid(s, n) \/ UNCHANGED greedyVars
      PROVE  Asked(net') /\ Goals(self_goals') /\ OwnCostsCount'
  <2>1. PICK k \in DOMAIN net[<<s, n>>] : net' = Without(<<s, n>>, k)
    BY <1>6 DEF HandleBid, Ignore, HandleStartUnloadable, DropUnregistered, LoseMessage, Lose, Deliverable
  <2>2. /\ UNCHANGED <<self_goals, my_costs, participants>> /\ <<s, n>> \in Channel
    BY <1>6 DEF HandleBid, OnBidReceived, Ignore, HandleStartUnloadable, DropUnregistered,
       LoseMessage, nodeVars, baseVars, greedyVars, Channel
  <2> QED  BY <1>1, <2>1, <2>2, WithoutInFlight DEF OwnCostsCount
<1>7. ASSUME NEW n \in Agent, OnRun(n) \/ Stop(n) \/ Restart(n)
      PROVE  Asked(net') /\ Goals(self_goals') /\ OwnCostsCount'
  <2>1. net' = net /\ (self_goals' = self_goals \/ self_goals' = [self_goals EXCEPT ![n] = <<>>])
    BY <1>7 DEF OnRun, RunWaiting, RunSuccess, EndSuccess, RunFailure, EndFailure, Stop, StopNode,
       Restart, RestartNode, vars, nodeVars, netVars
  <2>2. UNCHANGED pluginVars \/ Reset(n) \/ NewPlugin(n)
    BY <1>7 DEF OnRun, RunWaiting, RunSuccess, RunFailure, Stop, Restart, vars
  <2>3. OwnCostsCount'
    BY <1>1, <2>2 DEF pluginVars, baseVars, greedyVars, Reset, NewPlugin, Clear, OwnCostsCount, PluginTypeOK
  <2> QED  BY <1>1, <2>1, <2>3
<1>8. ASSUME UNCHANGED <<net, self_goals, my_costs, participants>>
      PROVE  Asked(net') /\ Goals(self_goals') /\ OwnCostsCount'
  BY <1>1, <1>8 DEF OwnCostsCount
<1>9. ASSUME NEW a \in Auction, RefuseActivation(a), UNCHANGED greedyVars
      PROVE  UNCHANGED <<net, self_goals, my_costs, participants>>
  BY <1>9 DEF RefuseActivation, netVars, baseVars, greedyVars
<1>10. ASSUME NEW n \in Agent, Configure(n) \/ Pause(n) \/ Resume(n), UNCHANGED greedyVars
       PROVE  UNCHANGED <<net, self_goals, my_costs, participants>>
  BY <1>10 DEF Configure, ConfigureNode, Pause, PauseNode, Resume, ResumeNode, netVars, baseVars, greedyVars
<1>11. ASSUME UNCHANGED vars PROVE UNCHANGED <<net, self_goals, my_costs, participants>>
  BY <1>11 DEF vars, netVars, nodeVars, pluginVars, baseVars, greedyVars
<1> HIDE DEF Asked, Goals
<1> QED
  BY <1>2, <1>3, <1>4, <1>5, <1>6, <1>7, <1>8, <1>9, <1>10, <1>11 DEF Next, Handle, Ignore, Environment

LEMMA BiddersAskedInit == Init => BiddersAsked /\ OwnCostsCount
BY DEF Init, NodeInit, PluginInit, BiddersAsked, OwnCostsCount, InFlight

\* "Every drone with identical bid data reaches the same result", however many
\* auctions overlap.
THEOREM SameDataAlwaysSameResult ==
    ASSUME AuctioneersBid PROVE Spec => []SameDataSameResult
<1>1. AssignmentFresh /\ OwnCostsCount => SameDataSameResult
  <2> SUFFICES ASSUME AssignmentFresh, OwnCostsCount, NEW n \in Agent, NEW m \in Agent,
                      participants[n] = participants[m], BidData(n) = BidData(m)
               PROVE  global_assignment[n] = global_assignment[m]
    BY DEF SameDataSameResult
  <2> DEFINE Seen(by, data, i) == [s \in Agent |-> IF s \in by THEN data[s][i] ELSE NoBid]
  <2>1. ASSUME NEW x \in Agent, NEW i \in Item
        PROVE  Offers(x, my_costs[x], received_bids[x], participants[x], i) =
                 Seen(participants[x], BidData(x), i)
    BY <2>1 DEF Offers, BidData, OwnCostsCount, NoCosts
  <2> HIDE DEF Seen
  <2>2. \A i \in Item : Offers(n, my_costs[n], received_bids[n], participants[n], i)
                         = Offers(m, my_costs[m], received_bids[m], participants[m], i)
    BY <2>1
  <2>3. Resolution(n, my_costs[n], received_bids[n], participants[n])
          = Resolution(m, my_costs[m], received_bids[m], participants[m])
    BY <2>2 DEF Resolution
  <2> QED  BY <2>3 DEF AssignmentFresh
<1> QED
  BY <1>1, AssignmentIsFresh, BiddersAskedInit, BiddersAskedNext, TypeInvInit, TypeInvNext, PTL DEF Spec
=============================================================================
