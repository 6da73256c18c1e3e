-------------------------- MODULE GreedyProperties --------------------------
(***************************************************************************)
(* What a fleet running the greedy plugin must do.                         *)
(***************************************************************************)
EXTENDS GreedyAuction

Ended(n, a) == \E r \in results : r.by = n /\ r.auction = a

\* A success reports, for every item, the cheapest bidder of that auction,
\* the smallest name among equals (the conflict rule of the greedy plugin),
\* whatever the order in which bids and StartAuction arrived.
CheapestWins == \A r \in results : r.status = "SUCCESS" =>
    \A i \in ItemsOf[r.auction] : IsCheapest(r.auction, r.winners[i], i)

\* A node declares the auction failed only over an item no bidder can price.
FailureJustified == \A r \in results : r.status = "FAILURE" =>
    \E i \in ItemsOf[r.auction] : Unassignable(r.auction, i)

\* The fleet's executions are those the abstract promise allows: a node begins
\* only an auction it bids in and has not ended, so that a self-goal that comes
\* twice, or late, executes nothing twice; it ends what it has begun, with the
\* right winners, or with a failure only for an unassignable item.
Executing == [n \in Agent |-> IF running[n] THEN goal[n] ELSE NoName]

Promise == INSTANCE AuctionPromise WITH
    cost      <- cost,
    results   <- results,
    executing <- Executing,
    Mortal    <- IF "restart" \in Requests THEN Late ELSE {}

KeepsPromise == Promise!Spec

\* Node s has joined, or opened, auction a.
Joined(s, a) ==
    \/ \E k \in DOMAIN self_goals[s] : self_goals[s][k] = a
    \/ running[s] /\ goal[s] = a
    \/ Ended(s, a)

\* No bid disappears inside a node: once s has joined an auction n bids in, and
\* until n has ended it, s's bid is either on its way to n or counted.
\* A bid that overtakes StartAuction is the case a test hardly reaches.
BidConserved == \A s, n \in Agent : \A a \in Auction :
    (/\ s # n /\ {s, n} \subseteq Bidders[a]
     /\ Joined(s, a) /\ ~ Ended(n, a)) =>
        \/ s \in received_from[n]
        \/ \E k \in DOMAIN net[<<s, n>>] : net[<<s, n>>][k].kind = "bid"

\* "Every drone with identical bid data reaches the same result."
BidData(n) == [s \in Agent |-> IF s = n THEN my_costs[n] ELSE received_bids[n][s]]

SameDataSameResult == \A n, m \in Agent :
    (participants[n] = participants[m] /\ BidData(n) = BidData(m)) =>
        global_assignment[n] = global_assignment[m]

\* A node that cannot load the item plugin drops out without a word; the
\* others must not report a success that left it out.
AllOrNothing == \A r \in results : r.status = "SUCCESS" =>
    \A n \in Bidders[r.auction] : TypeOf[r.auction] \in Installed[n]

\* Nobody wins who is neither a participant nor the node itself: bids left
\* over from agents outside the auction cannot steal items ("ghost winners").
GhostFree == \A n \in Agent : \A i \in Item :
    global_assignment[n][i] \in participants[n] \cup {n, NoAgent}

\* The stored assignment is what the costs held at that moment resolve to:
\* no handler leaves it stale, whatever order the messages came in.
AssignmentFresh == \A n \in Agent : global_assignment[n] =
    Resolution(n, my_costs[n], received_bids[n], participants[n])

\* The feedback a node sends while it waits names an item for every cost it
\* reports: nothing it wins is an item of an earlier auction, whose name
\* get_feedback could not find and whose cost would then stand for another.
FeedbackAligned == \A n \in Agent :
    (Ticking(n) /\ started[n] /\ ~ Converged(n)) => FeedbackItems(n) = MyAssignment(n)

\* From the first goal its process activates on, the knowledge base says a node
\* has "started" exactly while it executes a goal, so no monitor waits for a
\* completion that will never come.  What a process that died left behind stays
\* until the new one activates a goal.  The flag started_, which decides what
\* on_pause answers, outlives an execution only if that ended with FAILURE.
KbTracksExecution == \A n \in Agent : goal[n] # NoName =>
    /\ "started" \in kb_status[n] <=> running[n]
    /\ running[n] => started[n]
    /\ started[n] /\ ~ running[n] =>
          \E r \in results : r.by = n /\ r.auction = goal[n] /\ r.status = "FAILURE"

\* The knowledge base says an item is assigned to an agent exactly for the
\* winners the node's successes reported, every item of each: publishing comes
\* after the plugin was reset, and nothing is ever retracted or overwritten.
KbMirrorsResults == \A n \in Agent :
    {<<f.item, f.value>> : f \in {g \in kb_facts[n] : g.prop = "assignedTo"}}
      = UNION {{<<i, r.winners[i]>> : i \in {j \in Item : r.winners[j] # NoAgent}}
                 : r \in {q \in results : q.by = n /\ q.status = "SUCCESS"}}

\* A success always inserts "completed" anew, never over a fact left by an
\* earlier auction (the monitor is triggered by the insertion).
CompletionInserted == \A n \in Agent :
    (\E r \in results' \ results : r.by = n /\ r.status = "SUCCESS") =>
        "completed" \in kb_status'[n] \ kb_status[n]

CompletionIsNew == [][CompletionInserted]_vars

\* Every goal a mission submitted is ended, by every bidder.
EveryBidderEnds == \A a \in Auction : a \in submitted ~> \A n \in Bidders[a] : Ended(n, a)

-----------------------------------------------------------------------------
(***************************************************************************)
(* What the repository says of the fleet, and the code does not do.        *)
(***************************************************************************)

\* The node that receives the goal is the auctioneer, every other drone acts
\* as a participant: nobody else starts an auction.
OnlyAuctioneerStarts == \A c \in Channel : \A k \in DOMAIN net[c] :
    net[c][k].kind = "start" => c[1] = Auctioneer[net[c][k].auction]

\* "For each item, the agent with the lowest cost wins": no bidder is strictly
\* cheaper than the reported winner, whoever should win a tie.
LowestCostWins == \A r \in results : r.status = "SUCCESS" =>
    \A i \in ItemsOf[r.auction] : \A n \in Agent : Prices(r.auction, n, i) =>
        cost[r.auction][r.winners[i]][i] <= cost[r.auction][n][i]

\* A drone of a greedy auction "always claims one" task, not every task it is
\* the cheapest bidder of.
OneTaskEach == \A r \in results : r.status = "SUCCESS" =>
    \A n \in Agent : Cardinality({i \in ItemsOf[r.auction] : r.winners[i] = n}) <= 1
=============================================================================
