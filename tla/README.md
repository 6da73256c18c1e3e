# Verification of auction_behavior

TLA+ models of the distributed auction in this repository, the TLC configurations that
check them on small fleets, and proofs, checked by TLAPS, of the properties that hold for
every fleet. Paths that begin with `src/` start beside the repository, checked out as `src/`; lines are those of the commit the
project was written against.

## 1. The system

Each drone runs an `AuctionBehavior` node. A mission sends one node an `Auction` goal (items,
item type, bidders). That node, the auctioneer, works out what the items cost it,
broadcasts its bid and then `StartAuction` through the communication gateway (as2_ca).
Each participant that handles `StartAuction` does the same with its own costs and sends
*itself* a goal, so that its behavior server starts calling `on_run`. Bids are exchanged
until the plugin says the auction has converged; the next `on_run` then reports SUCCESS
(or FAILURE if an item has no winner), the results go to the knowledge base and the plugin
is reset.

| component | state | operations | interacts with |
|---|---|---|---|
| `AuctionBehavior` node (`src/auction_behavior.cpp`) | `started`, `is_participant_`, `loaded_item_type_`, `auction_id_`, `goal_`, facts in the KB | `configure`, StartAuction and Bid handlers, `on_activate`, `on_pause`, `on_resume`, `on_deactivate`, `on_run`, `on_execution_end`, `publish_results_to_kb` | called by the behavior server and the gateway, calls the plugin, sends goals to itself |
| auction plugin base (`auction_behavior_plugin_base.hpp`) | `participants_`, `auction_items_` | `set_participans`, `on_auction_items_received`, `send_bid`, `on_bid_received` | called by the node, sends through the gateway |
| `greedy_sequential` | `my_costs_`, `received_bids_`, `received_from_`, `global_assignment_`, `my_assignment_` | `on_auction_items_received`, `update`, `solve_conflicts`, `check_convergence`, `get_result`, `reset` | the base class |
| `cbba` | `costs_`, `y_`, `z_`, `bundle_`, `received_from_`, `changed_` | `build_bundle`, `cascade_remove`, `update`, `compute_bid`, `check_convergence`, `get_result`, `reset` | the base class |
| item plugin base, `coordinate_item` | position of the item | `create`, `evaluate` | called by the auction plugin |
| `auction_behavior_node` | - | `main`: executor, delayed `configure` | the node |
| gateway (as2_ca), behavior server (as2_behavior) | channels; active goal, run timer | external | the node |

What is hard here: handlers of different nodes interleave in any order, a bid may overtake
StartAuction (and normally does: the auctioneer sends it first), two executions on one node
may overlap through the self-goal, messages carry no auction identifier, messages can be
lost and nothing is sent twice, a stop, an early end or a process that dies leaves messages in flight
and facts in the knowledge base, handlers and state interface are connected one after the other while
messages already come in, and every
node must come to the same result with no coordinator. `PROJECT.json` lists each of these
hazards at its line, with the properties aimed at it.

What makes each part correct:

- greedy plugin: every node that reports success reports the same, cheapest, winners;
  failure only when an item has no taker; bids are never lost inside a node; the stored
  assignment is never stale; nobody from outside the auction wins.
- node: every bidder ends; pause cannot stop an auction; the knowledge base says "started"
  while, and only while, the node executes; each completion is a new insertion; what it says of the items
  is what the node's successes said.
- item plugin: the nearest of those that know where they are wins; one that does not know never
  beats one that does.
- cbba plugin: claims carry the claimant's true cost and only improve; the bundle is exactly
  what the node believes it holds; nobody envies a node with room; the exchange of bids ends; a claim is
  spoken before its maker falls silent; below all this the fleet only gossips about true claims.
- gateway and server: assumptions, stated in section 3.

## 2. Modules

| module | models |
|---|---|
| `AuctionProblem` | constants with their assumptions, the cost table, what the right winner is |
| `CAGateway` | the channels between nodes (external) |
| `AuctionPluginBase` | the base class of the auction plugins |
| `AuctionBehavior` | the node without its plugin, and the steps in which the plugin takes no part |
| `GreedyPlugin` | the greedy plugin, as operators on one node |
| `GreedyAuction` | the fleet: node, greedy plugin and gateway composed; `Init`, `Next`, `Spec`, fairness |
| `AuctionPromise` | the abstract specification: what any auction plugin owes its fleet |
| `GreedyProperties` | what is checked of the greedy fleet |
| `CoordinateItem` | the item plugin: the point an item stands for, what it costs at a pose |
| `CoordinateFleet` | a greedy fleet that auctions such items: poses, and the moment at which each node is asked; what is checked of it |
| `MCGreedy`, `MCCoordinate` | constant values for TLC |
| `AuctionBehaviorProofs` | lemmas on the channels and on the node without its plugin, for the proofs of both fleets |
| `GreedyTypeProofs`, `GreedyAuctionProofs`, `GreedyOutcomeProofs`, `CoordinateProofs` | theorems about the greedy fleet and their proofs |
| `CbbaClaims` | cbba's algorithm on what one agent believes: `build_bundle` in closed form and as the loop it is, consensus, `cascade_remove`, `compute_bid` |
| `CbbaPlugin` | the cbba plugin, as operators on one node |
| `CbbaAuction` | the fleet: node, cbba plugin and gateway composed |
| `CbbaProperties` | what is checked of the cbba fleet |
| `ClaimGossip` | the abstract specification of cbba's exchange: agents trade true claims for better ones |
| `CbbaClaimsProofs` | what cbba's algorithm preserves and achieves on one agent's beliefs |
| `CbbaAuctionProofs`, `CbbaBundleProofs` | theorems about the cbba fleet and their proofs |
| `MCCbba` | constant values for TLC |

`AuctionProblem` <- `CAGateway` <- `AuctionPluginBase` <- {`AuctionBehavior`, plugin module}
<- fleet module <- properties <- MC module and proofs; `GreedyProperties` and `CoordinateItem` <-
`CoordinateFleet`.

### How state and actions correspond to the code

A variable is a function from the node to the member of the same name (without the trailing
underscore). Agents and items are naturals because the code compares names and walks lists
in order; 0 is the empty string. Costs are naturals; `Infinity` stands for the bound at
which a cost stops winning (`numeric_limits<double>::max()` for greedy, infinity for cbba):
infinity and NaN are values at or above it, FLT_MAX, the answer of `coordinate_item` without a
pose, is an ordinary large value below it.

| action | code |
|---|---|
| `ReceiveGoal`, `ReceiveSelfGoal` (through `Activate`) | the whole of `on_activate`; `OpenAuction` when `is_participant_` is false, `StartTicking` when it is true |
| `RefuseActivation`, `HandleStartUnloadable` | the two error paths when an item plugin cannot be loaded |
| `HandleStart` | the StartAuction handler: load, set participants, `on_auction_items_received` with its broadcast, role flag, self-goal |
| `HandleBid` | the Bid handler: `on_bid_received` with the plugin's `update` and whatever it sends |
| `RunWaiting`, `RunSuccess`, `RunFailure` | `on_run` by its three exits, the last two with `on_execution_end` and its `reset()` |
| `Stop` | `on_deactivate` and `on_execution_end(ABORTED)` |
| `Pause`, `Resume` | `on_pause` when it accepts, `on_resume` |
| `Configure`, `DropUnregistered` | `configure()` in three steps (StartAuction handler, Bid handler, state interface), between any two of which callbacks run; messages that come before their handler |
| `Restart` | the process dies and its node is constructed again: node and plugin state are gone, the knowledge base, the reported results and messages on their way are not |
| `Localize` (`CoordinateFleet`) | a pose reaches the connected state interface |
| `RefuseSelfGoal`, `LoseMessage` | server and gateway |

The cbba fleet has the same actions; what differs is that `HandleBid` may answer. An agent's
beliefs are a view `[y, z, bundle]`. `update` is `Consensus` item by item, then
`CascadeRemove` (which leaves `y` and `z` alone), then `BuildBundle`, a closed form of the loop:
since a turn that claims an item leaves the others' claimability alone, the loop takes the first few
claimable items in the order of cost and list (`InOrder`). `BuildLoop` is the loop turn by turn, which takes no part
in the specification: the theorem `LoopBuildsBundle` says that the two agree on every view. `entries` is the keys of the maps `y_` and `z_`;
for an item without entry, `y` and `z` hold what an unclaimed item has, and `LookupsSucceed` says that the code never asks for it. The items of an auction form a
set; their order in the goal's list is the order of their numbers.

A feedback message is `MyAssignment` with the items `FeedbackItems` it can name.

`CoordinateFleet` restricts `GreedyAuction`: `cost` is computed from `at[a][n]`, the pose at which n will be asked
about auction a, fixed at the start like `cost` itself, and a step in which n opens or joins a (`Opens`,
`Joins`) is possible only when `pose[n]` is that pose. All choices of `at` are initial states, so every order of
poses, configuration and messages is covered, except that a node evaluates an auction at one pose: it does so once
unless its role is mixed up (`greedy_roles`). Coordinates are integers; the root and the cast to float become a
rounding of the squared distance (`Grain`), which keeps what the auction can see of them: order and ties.

A message is one action from its arrival to the last thing its handler does, since nothing
in a handler waits. `cost[a][n][i]` is drawn once: the pose is sampled in one loop per auction,
and one node sees an auction's items once, unless roles are mixed up. A bid's map of costs holds `NoBid` for items it
does not name; an absent map entry is `NoBid` or 0 too.

Operators named as mutants in their comment ("Mutant: ...") are plausible mistakes in the code
next to them. They take no part in the specification: each shows that some property notices
when the definition after it is replaced.

## 3. Assumptions about what is not in the repository

- The behavior server runs one goal at a time, refuses goals meanwhile (this is how a
  self-goal gets lost), calls `on_execution_end` right after the `on_run` that ended, and does not
  call `on_run` while paused. It calls the handlers of one node one after the other. Note that the
  executable spins a `MultiThreadedExecutor`; were the gateway's callbacks in a reentrant
  group, the plugin's maps would be raced on, which the models do not show.
- The gateway copies a message to each destination, does not hand a node its own messages
  (comment at `greedy_sequential.cpp:122`), and may reorder (`Fifo = FALSE`) or lose (`MaxLoss`)
  messages. It never duplicates or corrupts them.
- A node in `Late` starts during the run, and with "restart" its process may die and start again at any moment,
  any number of times. The gateway keeps what is on its way to it, the knowledge base keeps its facts. Messages
  are dropped while their handler is not registered.
- Missions submit an auction once. `Serial` says whether they wait until all is quiet.
- Fairness (`Fairness`): each channel is served, each waiting self-goal reaches the server, the run timer
  ticks while the server is running and not paused, `configure()` returns. All of it is weak
  fairness on callbacks of an executor that keeps spinning. No mission, operator or fault is
  obliged to do anything.

## 4. Runs

Passing runs (no deadlock check: a fleet with nothing left to do may stop):

| run | bounds | question |
|---|---|---|
| `greedy_serial` | 3 agents, 1 item, 2 auctions (one of all, one of agents 1 and 2, by different auctioneers), costs {0, 1, 2} with 2 at infinity, any order, pause and resume, every callback fair | is every result right in every interleaving, does everybody end, and does anything of one auction reach the next, when missions wait in between? Three agents give two peers whose bids race with StartAuction and each other; three costs give strict order, ties and an item nobody can price. Every cost table of the first auction is tried; in the second each agent has the cost its neighbour had in the first (`InTurnInit`), so that cheap and dear change places between the two. Items do not interact in the greedy rule, so one is enough here; `greedy_one_task` has two. |
| `greedy_faults` | 3 agents, 2 overlapping auctions with agent 2 in both, a loss, stops, agent 2 configured step by step and restarted at any moment; the item costs 0 in the first auction and nobody can price it in the second (`UnpricedInit`) | which invariants survive all of it, failures included? Agent 2 is the one both auctions depend on: it dies as a participant of the one, of the other, between them, and while it is configured again. |
| `greedy_coordinate` | 2 agents, both configured during the run, a loss, 3 places and no pose, 2 items (one with a missing coordinate), then 2 auctions of a type only agent 2 can load, each agent opening one, in turn | does the nearest win whoever has a pose when? is a success without a bidder possible? does feedback stay aligned from one auction to the next? Two of the places tie for an item once rounded. |
| `cbba_safety` | 2 agents, 3 items, bundle sizes 2 and 0 (which counts as 1), costs {0, 1, 2} with 2 at infinity, any order, a loss, stops, agent 2 configured step by step and restarted at any moment | are claims, bundles and the changed flag consistent, does a claim reach the auctioneer, and does the fleet implement `ClaimGossip`? Three items make a cascade release entries that are still held and let a full bundle, a short one and a rebuilt one occur. |
| `cbba_overlap` | 2 agents, 2 auctions of two items and one, opened by different agents at any moment, ordered channels, costs {0, 1}, stops | what is left when auctions overlap, self-goals are refused and bundle, heard peers and flag carry over? `BundleIsClaims`, `NoEnvy` and the monotone claims are lost (items that arrive reset `y` and `z` under a bundle that stays); that no claim is made up is not, nor that every cost and claim looked up is there. |
| `cbba_relay` | 3 agents, 1 item, ordered channels | does it still do so when claims are heard of through a third agent, perhaps late? |
| `cbba_liveness` | 2 agents, 2 items, any order, stops and pauses, every callback fair | does the exchange of bids end, and does somebody converge? |

Channels of the cbba fleet hold `MaxQueue` messages: agents that do not converge answer each
other without end. Between two agents the bound (3 in one auction, 4 in two) cuts nothing off; among three agents
2 does cut off behaviours, so `cbba_relay` shows what it shows up to that length.

Runs that refute what the repository says of itself (each a finding in `PROJECT.json`):

| run | claim | what happens |
|---|---|---|
| `greedy_roles` | "Every other drone acts as a participant" | two StartAuctions before the first self-goal: the second self-goal opens an auction |
| `greedy_stale_bid` | "the agent with the lowest cost wins" | a bid from a stopped auction decides the next, in which the reported winner costs 1 and another bidder 0 |
| `greedy_one_task` | "greedy always claims one" | items are resolved one by one: the cheapest bidder of two items wins both |
| `cbba_conflict` | "conflict-free assignments" | the bid that precedes StartAuction counts as heard, its contents are dropped; both agents succeed with themselves as winner |
| `cbba_quiet` | updates "until no state change occurs (convergence)" | the last update of an agent changed its view; nobody sends the one that would clear `changed_` |

Two refinements are checked. `OnlyGossips` (`cbba_safety`, `cbba_relay`): bundles, cascades, rebuilt bundles, the changed flag and the bids of
the cbba fleet, seen through `Belief` and `ToldOn`, do nothing that `ClaimGossip` forbids. `KeepsPromise`: the variables `cost`
and `results` of the fleet, with the auction each node is executing (`Executing`), behave as `AuctionPromise` allows. A node begins only an
auction it bids in and has not ended, and what it ends it has begun: an execution that ends twice, or a self-goal that comes twice,
shows as an auction begun again after its result. The refuted claims on roles and stale bids, and the
known limits below, are why the serial runs assume what they assume, and the theorems too. On how many tasks
a drone may win the documentation disagrees with itself: `greedy_one_task` refutes one reading, and the other properties take the
conflict rule item by item, as `README.md:143` does.

## 5. Theorems

All for any number of agents, items and costs, and for every value of the bounds `MaxLoss` and `MaxQueue`: what the runs
show of channels of some length the theorems show of any. Those that need a hypothesis assume one of three:

- `OneAuction`: one auction.
- `SingleAuction`: one auction, whose auctioneer is among its bidders. Neither of these excludes a reordering, stop, restart,
  late or unloadable node, or a loss, except where it is said.
- `SerialMissions`: any number of auctions, each auctioneer among its own bidders, a goal submitted only to a quiet fleet
  (`Serial`), and no stop and no restart: nodes may only be paused. Losses, any order, late nodes and nodes that cannot load
  an item type are allowed; an auction that hangs for one of them is the last, as nothing is quiet afterwards. This is the mission of
  `greedy_serial` and `greedy_coordinate`. Stops are excluded because of what they do: the bid of a peer may
  reach a node after it was stopped, stay there when the fleet is quiet, and count in the next auction, in any order of delivery and on ordered
  channels too. TLC shows `CheapestWins` and `LowestCostWins` violated for two agents and two auctions in turn once `Requests` has `"stop"`; it is how
  `greedy_stale_bid` comes about.

The hypotheses say what a mission submits and, the third, that it withdraws nothing; what is lost without them is said
at each theorem.

### Greedy fleet

- `TypeCorrect` (`GreedyTypeProofs`): `TypeOK`, with the invariant that a running node has
  a goal, needed because results are typed by the goal.
- `AssignmentIsFresh`, `NoGhostWinners`, `KbTracksExecutionAlways`, `CompletionAlwaysNew`,
  `KbMirrorsResultsAlways` (`GreedyAuctionProofs`): unconditional, whatever auctions overlap, whatever is lost, stopped
  or restarted.
  The first is inductive with `TypeOK` (every handler re-solves or resets); the second follows
  from the first and `WinnerFacts`; the third is inductive together with "a running node's
  status is exactly {started}, one that activated a goal before and does not run has no `started`" and with what is left of the
  flag `started_` (`FlagInv`: a running node has it set; a node that does not run has it only after a failure it reported), from which
  the fourth, an action property, follows; the fifth is inductive with `TypeOK` once it is read fact by fact
  (`KbSound`): only a success adds a fact, and it adds those of the result it reports.
- `SameDataAlwaysSameResult` (`GreedyAuctionProofs`), for auctions that overlap in any way, provided each
  auctioneer bids in its own (`AuctioneersBid`). Only bidders are ever asked (`BiddersAsked`), so whoever
  has costs of its own is a participant (`OwnCostsCount`), and `solve_conflicts` then enters nothing that the others do not see. Without
  the hypothesis the auctioneer enters its own cost (section 7).
- `CheapestAlwaysWins`, `FailureAlwaysJustified` (`GreedyOutcomeProofs`), under `SingleAuction`. `OutcomeInv` says that everything
  a node holds, and every message on its way, is true: own costs and stored bids are the
  senders' cost vectors of that auction, complete for those heard from; StartAuction and self-goals
  name the auction; a node that is executing or has items has the right
  participants and items, and results recorded so far are right. When a node
  converges it therefore resolves the true offers of all bidders, and `WinnerFacts` says what
  that gives. The hypothesis is needed: `greedy_stale_bid` refutes the
  conclusion with a second auction, and an auctioneer outside its bidders enters its own cost.
- `PromiseIsKept`: under `SingleAuction` the fleet refines `AuctionPromise`. A step is seen by what it does to one node's execution and results:
  it begins one, ends one, or stands by (`Bystanding`). `OutcomeInv` gives what a node may report and that it bids in what it executes; `JoinsOnce`
  that it begins nothing it has ended: a StartAuction that is still to come, a waiting self-goal, an execution and a
  result exclude each other, since the gateway hands over a StartAuction once and nobody else sends one.
- `FeedbackAlwaysAligned`, `AlwaysAllOrNothing`, under `SingleAuction`. The first from `AssignmentFresh` and
  `OutcomeInv`: what a node wins it has a cost for. The second needs that a bid is only ever sent by a node that
  has its item plugin, and that a success needs the bids of all.
- `CheapestWinsInTurn`, `FailureJustifiedInTurn`, `AllOrNothingInTurn`, `FeedbackAlignedInTurn`, `PromiseIsKeptInTurn`: the same five
  of auctions in turn, under `SerialMissions`. The invariant is `SerialInv`: besides types, `AssignmentFresh` and the outcomes so far, the fleet is
  `Calm` (quiet, with nothing of an auction left in any plugin) or at `Stage(a)` of one submitted auction a. `Stage` says what may be on its
  way (`Told`: StartAuction of a, and bids at the sender's costs in a, of senders that joined; at most one of each on a channel, `Once`), where each node stands (`Position`: asked, waiting, in the
  auction or through with it, and one at a time) and what it holds (`Holding`: from those it has heard, their costs in a; from the rest nothing).
  Two facts carry the proof. A node ends only after it heard every bidder, and heard them only after they joined;
  so once one node has ended everybody has joined, and `reset()` wipes nothing that is still needed. And when the fleet is
  quiet each node that joined has ended, so it was reset, while no one else holds anything (`QuietIsCalm`): the next goal finds the fleet `Calm`.
  TLC found `SerialInv` to hold for three agents (a loss, a late node, pauses, any order) and for the instance of `greedy_coordinate`
  with pauses before it was proved.
- `BidAlwaysConserved`, under `OneAuction` and `Reliable` (no loss, every node configured from the start, an auction
  has items): a bid that leaves a channel is in the receiver's `received_from_` until its auction ended. The invariant is `BidsHeld`, the
  same of every node that holds items; a node that has joined holds them (`JoinedFirst`).
  Losses and late nodes do lose bids (section 7).

### Fleet of coordinate items

- `FleetIsGreedy`, `ClosestAlwaysWins`, `ClosestWinsInTurn` (`CoordinateProofs`): the fleet of coordinate items is a greedy fleet, so
  `CheapestAlwaysWins` and `CheapestWinsInTurn` hold of it, each under its hypothesis; the costs are for good those of the poses in `at`
  (`CostsOfPosesAlways`), and of two evaluations the cheaper was nearer, up to `Grain` (`CheaperIsCloser`, by `Rounding`).

### Cbba fleet

- `TypeCorrect`, `ClaimsAreAlwaysCosts`, `LookupsAlwaysSucceed` (`CbbaAuctionProofs`): unconditional, also when auctions
  overlap and items that arrive reset `y` and `z` under a bundle that stays. `Truth` is the invariant: every claim
  in a view or on its way is at the claimant's cost in some auction that has the item (`ClaimsTrue`), an item without winner has no
  price (`UnclaimedFree`), the costs of a node are its own (`CostsTrue`), and the items of the auction and of a bundle that outlived its
  auction have their entries in `y_` and `z_` (`Entered`).
- `BundleIsAlwaysClaims`, `NeverEnvious`, `ClaimsAlwaysImprove`, `FlagAlwaysExact` (`CbbaBundleProofs`), under `OneAuction`.
  The first two are not inductive: a bid in which a peer repeats a claim of n that n itself does not know of would
  give n an item it does not have in its bundle. `BundleInv` excludes that. A claim is *alive* when a view or a bid on its
  way holds it. `KnowsOwn`: no live claim of a bidder beats what the bidder itself believes. `NamedLater`: as long as a node may still be asked to
  bid (the goal or a StartAuction is to come) no live claim names it, so that it may start from nothing. `JoinsOnce` is as above; `Blank` says that a
  node that does not bid believes nothing. `GoodBundles` is the two properties with one thing more: the order of the bundle is the order in
  which `build_bundle` chooses (`Content`), without which a tie could make a rebuilt bundle differ. All the ways in which a step touches a
  node's beliefs are four (`StepKinds`: it opens, hears a bid, forgets, or leaves them alone), and each action is shown
  to be one of them once; the properties are then proved of the four.
- `FleetGossips` (`CbbaBundleProofs`), under `OneAuction`: the fleet refines `ClaimGossip`. The refinement mapping makes a view
  a function from items to claims and the channels one set of claims told. Opening is `Join`, an update is `Hear` (`HearsIsHear`: every
  new belief is the old one, a better one that was told, or a claim of its own that undercuts what was believed), a reset, a stop and a dead process are
  the gossip's ways to leave; anything else only takes bids off channels.
- `AuctioneerAlwaysInformed` (`CbbaBundleProofs`), under `SingleAuction` and `AuctioneerReady` (the auctioneer's node is
  configured from the start: bids that come before their handler is registered are dropped). The property is about a fleet that is quiet; `Informed` is what holds
  on the way there: as long as nothing was lost, whatever a bidder believes of an item is matched by the auctioneer or is in a bid
  on its way to it. Nobody bids before the auctioneer does (`NotAsked` says it is never asked itself); a node that changes its belief has its flag set
  (`HearsFlag`), so it answers, and the auctioneer is among those it answers to (`Members`); a bid that the auctioneer handles counts for what it says,
  whatever is then claimed (`HearsCounts`, by `UpdatedUndercuts`), and nothing it hears later undoes that (`StaysAsGood`).
  TLC found `Informed` to hold in `cbba_safety` and in `cbba_relay`, as an invariant of these instances, before it was proved.

With several auctions `BundleIsClaims`, `NoEnvy` and `ClaimsOnlyImprove` fail, because items that arrive reset `y` and
`z` under a bundle that stays (`on_auction_items_received` of `cbba.cpp` leaves `bundle_` alone), so the hypothesis is not one of convenience.

### Lemmas

`RemoveAtFacts` (what taking a message off a channel leaves), `LeastNatural`
(a non-empty set of naturals has a least element,
from the well-foundedness of < on Nat), `WinnerFacts` (the CHOOSE in `Winner` is inhabited and minimal), and one type lemma per
plugin operation. `AuctionBehaviorProofs` has what both fleets need: who gets which message from a broadcast, and that the node's handlers
keep the order goal, StartAuction, self-goal, execution.
`CbbaClaimsProofs` has the algorithm. `InOrderFacts`: a finite set has a listing in the order of cost and number, found by the
number of its items that come sooner, so the CHOOSE in `InOrder` is inhabited. `BuildBundleFacts` and `TakenFacts`: what
is taken is appended, named and priced, and an item is left out only when the bundle is full of items that come before it.
`ConsensusFacts`, `CascadeFacts`: what is adopted, and that the bundle is cut before the first item lost. `LoopBuildsBundle` (a theorem, listed): from any view and any costs `BuildLoop` is `BuildBundle`, and a further turn changes nothing, so that what is proved of the model is proved of the loop.
Loop and scan are recursive functions, and what they compute would need an induction over data; instead a function
that satisfies the recursion is written down (after k turns the first k of `InOrder` are taken; after k items the scan holds the first
of them in that order), and any two functions that satisfy it are equal, since there would be a least argument at which they differ.
`TurnFacts` is the step: a turn takes the next item of `InOrder`, and none once the bundle is full or nothing is claimable. On these lemmas rest
`UpdateHolds` (an update that adopts no claim of the agent's own keeps bundle and claims in step, in order, within the limit) and
`UpdateChanges` (the view changes if and only if the bid beat it somewhere or the bundle lost an item, which is what the flag stores).

### Only model-checked

- Liveness (`EveryBidderEnds`, `ExchangesEnd`, `SomeBidderEnds`): out of reach of the proof system.
- The five refuted claims.

## 6. Not modelled

The coordinates among the published facts; log lines; distances too large for a float, and NaN poses; loading of
the auction plugin in the constructor (when it fails, the constructor calls the destructor of the object
under construction and `main` goes on to use it: undefined, and not to be enumerated from the source);
`get_global_assignment`, which nothing calls; `on_modify` (changes nothing); parameters,
launch files, build files; the internals of as2_ca, as2_behavior and the knowledge base.

## 7. Known limits of the program

They follow from the modelled handlers; where no run is named, they have none of their own:

- A lost bid or StartAuction is never sent again, although the comment at `src/src/auction_behavior.cpp:272`
  says that `on_run` "retransmits last bid if chain is stuck": both plugins inherit an empty `on_run`. Nodes
  then tick until they are stopped, so no liveness property is stated under loss.
- Back-to-back auctions: if the auctioneer opens its next auction while a peer has yet to tick, that
  peer's `reset()` wipes the bids of the second; `greedy_serial` therefore waits for a quiet fleet.
- A bid that comes after the StartAuction handler was registered and before the Bid handler is dropped, and the node
  that goes on to join the auction waits for it for ever; so does every peer of a process that died.
- A stale bid at a restarted node counts in the next auction it joins, as in `greedy_stale_bid`.
- One drone may win every item of a greedy auction, if it is the cheapest bidder of each (`greedy_one_task`), although
  `README.md:87` and `plugins.xml:9` say it claims one. `CheapestWins`, `ClosestWins` and their theorems are about each item by itself.
- Overlapping auctions: `my_costs_` and the bundle keep items of the other auction, and the feedback reports their
  costs without an item (`FeedbackAligned` is about auctions in turn).
- A process that dies during an auction leaves "started" in the knowledge base until its successor activates a goal.
- An auction in which nobody has a pose succeeds: all costs are FLT_MAX, and the smallest name wins everything.
- An auctioneer outside the bidders: `solve_conflicts` enters the node's own cost without asking
  whether it takes part, so it may name itself while the bidders name one of their own.
- Even on ordered channels the auctioneer's bid is handled before its StartAuction, against the
  comment at `src/src/auction_behavior.cpp:116`. The greedy plugin keeps it (`BidConserved`), the cbba
  plugin drops its contents (`cbba_conflict`).
- A participant's self-goal has no name, so it stores an empty `auctionId` (`FactsOf`).
- cbba: two agents that miss a third bidder's bid answer each other for ever (`ExchangesEnd` needs
  everybody heard); a node may give up an item its peer has yet to claim; `cascade_remove` does not
  "reset their y/z" as `cbba.hpp:134` says.

## 8. Plan

Done: node, both auction plugins, the item plugin and the fleet that uses it, restarts; both refinements; a theorem
for every safety property and every refinement that is checked and holds.
What is left is termination among three cbba agents, which needs a coarser model: at three agents the liveness
check does not finish.
