---------------------------- MODULE GreedyAuction ----------------------------
(***************************************************************************)
(* A fleet of AuctionBehavior nodes that run the greedy_sequential plugin  *)
(* and talk through the communication gateway.                             *)
(***************************************************************************)
EXTENDS AuctionBehavior, GreedyPlugin

vars == <<cost, netVars, pluginVars, nodeVars>>

Message == [kind : {"start"}, auction : Auction]
      \cup [kind : {"bid"}, payload : CostVector]

TypeOK ==
    /\ cost \in CostTable
    /\ net \in [Channel -> Seq(Message)]
    /\ lost \in 0..MaxLoss
    /\ PluginTypeOK
    /\ NodeTypeOK

Init ==
    /\ cost \in CostTable
    /\ net = [c \in Channel |-> <<>>]
    /\ lost = 0
    /\ PluginInit
    /\ NodeInit

(***************************************************************************)
(* Goals.  A node that believes it is the auctioneer resets its items,     *)
(* broadcasts its bid and then, to the other bidders, StartAuction; one    *)
(* that believes it is a participant only starts ticking.                  *)
(***************************************************************************)
OpenAuction(n, a) ==
    /\ ~ is_participant[n]
    /\ OnAuctionItemsReceived(n, a)
    /\ net' = Forward(BroadcastBid(net, n, a), n, Bidders[a], StartAuction(a))
    /\ UNCHANGED lost

StartTicking(n) ==
    /\ is_participant[n]
    /\ UNCHANGED <<pluginVars, netVars>>

Activate(n, a, name) ==
    /\ ActivateNode(n, a, name)
    /\ OpenAuction(n, a) \/ StartTicking(n)
    /\ UNCHANGED cost

\* A mission submits auction a to its auctioneer.
ReceiveGoal(a) ==
    /\ MaySubmit(a)
    /\ Activate(Auctioneer[a], a, a)
    /\ submitted' = submitted \cup {a}
    /\ UNCHANGED self_goals

\* The goal a node sent itself, which has no name.
ReceiveSelfGoal(n) ==
    /\ self_goals[n] # <<>>
    /\ Activate(n, Head(self_goals[n]), NoName)
    /\ self_goals' = [self_goals EXCEPT ![n] = Tail(@)]
    /\ UNCHANGED submitted

(***************************************************************************)
(* Messages.  The two handlers configure() registers.                      *)
(***************************************************************************)
HandleStart(s, n) == \E k \in Deliverable(<<s, n>>) :
    LET m == net[<<s, n>>][k] IN
    /\ m.kind = "start"
    /\ Registered(n, "start")
    /\ JoinAuction(n, m.auction)
    /\ OnAuctionItemsReceived(n, m.auction)
    /\ net' = BroadcastBid(Without(<<s, n>>, k), n, m.auction)
    /\ UNCHANGED <<cost, lost>>

HandleBid(s, n) == \E k \in Deliverable(<<s, n>>) :
    LET m == net[<<s, n>>][k] IN
    /\ m.kind = "bid"
    /\ Registered(n, "bid")
    /\ OnBidReceived(n, s, m.payload)
    /\ net' = Without(<<s, n>>, k)
    /\ UNCHANGED <<cost, lost, nodeVars>>

(***************************************************************************)
(* The run timer (on_run) and what ends an execution.  A tick before       *)
(* convergence changes nothing: the plugin inherits an empty on_run().     *)
(***************************************************************************)
Converged(n) == started[n] /\ CheckConvergence(n)

Unassigned(n) == \E i \in auction_items[n] : GetResult(n)[i] = NoAgent

RunWaiting(n) ==
    /\ Ticking(n)
    /\ ~ Converged(n)
    /\ UNCHANGED vars

RunSuccess(n) ==
    /\ Ticking(n)
    /\ Converged(n)
    /\ ~ Unassigned(n)
    /\ EndSuccess(n, GetResult(n))
    /\ Reset(n)
    /\ UNCHANGED <<cost, netVars>>

RunFailure(n) ==
    /\ Ticking(n)
    /\ Converged(n)
    /\ Unassigned(n)
    /\ EndFailure(n)
    /\ Reset(n)
    /\ UNCHANGED <<cost, netVars>>

Stop(n) ==
    /\ StopNode(n)
    /\ Reset(n)
    /\ UNCHANGED <<cost, netVars>>

Restart(n) ==
    /\ RestartNode(n)
    /\ NewPlugin(n)
    /\ UNCHANGED <<cost, netVars>>

-----------------------------------------------------------------------------
Ignore(s, n) == /\ HandleStartUnloadable(s, n) \/ DropUnregistered(s, n)
                /\ UNCHANGED greedyVars

Handle(s, n) == HandleStart(s, n) \/ HandleBid(s, n) \/ Ignore(s, n)

SelfGoal(n) == \/ ReceiveSelfGoal(n)
               \/ RefuseSelfGoal(n) /\ UNCHANGED greedyVars

\* What happens around the plugin and reaches nothing of its own.
Environment ==
    /\ \/ \E a \in Auction : RefuseActivation(a)
       \/ \E s, n \in Agent : LoseMessage(s, n)
       \/ \E n \in Agent : Configure(n) \/ Pause(n) \/ Resume(n)
    /\ UNCHANGED greedyVars

OnRun(n) == RunWaiting(n) \/ RunSuccess(n) \/ RunFailure(n)

Next ==
    \/ \E a \in Auction : ReceiveGoal(a)
    \/ \E s, n \in Agent : Handle(s, n)
    \/ \E n \in Agent : SelfGoal(n) \/ OnRun(n) \/ Stop(n) \/ Restart(n)
    \/ Environment

Spec == Init /\ [][Next]_vars

(***************************************************************************)
(* The executor keeps running callbacks: every channel is served, every    *)
(* self-goal reaches the server, the run timer ticks, configure() returns. *)
(* Nobody is obliged to submit, stop, pause, resume or lose anything.      *)
(***************************************************************************)
Fairness ==
    /\ \A s, n \in Agent : WF_vars(Handle(s, n))
    /\ \A n \in Agent : /\ WF_vars(SelfGoal(n))
                        /\ WF_vars(OnRun(n))
                        /\ WF_vars(Configure(n) /\ UNCHANGED greedyVars)

FairSpec == Spec /\ Fairness
=============================================================================
