--------------------------- MODULE AuctionBehavior ---------------------------
(***************************************************************************)
(* The AuctionBehavior node without its auction plugin: roles, activation, *)
(* pause, the end of an execution and the facts left in the knowledge      *)
(* base.  A plugin's module conjoins its own half to these operators.      *)
(*                                                                         *)
(* The behavior server that calls on_activate, on_run and so on belongs to *)
(* as2_behavior, outside this repository.  It is taken to run one goal at  *)
(* a time, to refuse a goal while it does, and to call the handlers of one *)
(* node one after the other.                                               *)
(***************************************************************************)
EXTENDS AuctionPluginBase

CONSTANTS
    Installed,  \* item plugins each node can load
    Late,       \* nodes whose process starts, or starts again, during the run
    Requests,   \* which of "stop", "pause" and "restart" happen
    Serial      \* missions submit a goal only when all is quiet

NoType == "no item plugin"

ASSUME NodeAssumption == /\ Installed \in [Agent -> SUBSET ItemType]
                         /\ NoType \notin ItemType
                         /\ Late \subseteq Agent
                         /\ Requests \subseteq {"stop", "pause", "restart"}
                         /\ Serial \in BOOLEAN

VARIABLES
    configured,        \* how far configure() has got
    loaded_item_type,
    is_participant,
    started,
    auction_id,
    goal,              \* the goal being executed, by its auction
    running,           \* the server holds an active goal and its run timer
    paused,            \* on_pause was accepted since
    self_goals,        \* self-goals sent and not yet received back
    submitted,         \* goals missions have submitted
    kb_status,         \* the node's auctionStatus facts
    kb_facts,          \* the auctionId and assignedTo facts it added
    results            \* what every execution ended with

roleVars   == <<configured, loaded_item_type, is_participant, auction_id>>
serverVars == <<started, goal, running, paused>>
kbVars     == <<kb_status, kb_facts>>
nodeVars   == <<roleVars, serverVars, kbVars, self_goals, submitted, results>>

Status == {"SUCCESS", "FAILURE", "ABORTED"}
Result == [by : Agent, auction : Auction, status : Status, winners : Assignment]
Fact   == [item : Item, prop : {"auctionId"}, value : Auction \cup {NoName}]
     \cup [item : Item, prop : {"assignedTo"}, value : Agent \cup {NoAgent}]

\* configure() registers the StartAuction handler, then the bid handler, and
\* then connects the plugin's state interface.
AllDone == 3

NodeTypeOK ==
    /\ configured \in [Agent -> Nat]
    /\ loaded_item_type \in [Agent -> ItemType \cup {NoType}]
    /\ is_participant \in [Agent -> BOOLEAN]
    /\ started \in [Agent -> BOOLEAN]
    /\ auction_id \in [Agent -> Auction \cup {NoName}]
    /\ goal \in [Agent -> Auction \cup {NoName}]
    /\ running \in [Agent -> BOOLEAN]
    /\ paused \in [Agent -> BOOLEAN]
    /\ self_goals \in [Agent -> Seq(Auction)]
    /\ submitted \subseteq Auction
    /\ kb_status \in [Agent -> SUBSET {"started", "completed"}]
    /\ kb_facts \in [Agent -> SUBSET Fact]
    /\ results \subseteq Result

NodeInit ==
    /\ configured = [n \in Agent |-> IF n \in Late THEN 0 ELSE AllDone]
    /\ loaded_item_type = [n \in Agent |-> NoType]
    /\ is_participant = [n \in Agent |-> FALSE]
    /\ started = [n \in Agent |-> FALSE]
    /\ auction_id = [n \in Agent |-> NoName]
    /\ goal = [n \in Agent |-> NoName]
    /\ running = [n \in Agent |-> FALSE]
    /\ paused = [n \in Agent |-> FALSE]
    /\ self_goals = [n \in Agent |-> <<>>]
    /\ submitted = {}
    /\ kb_status = [n \in Agent |-> {}]
    /\ kb_facts = [n \in Agent |-> {}]
    /\ results = {}

(***************************************************************************)
(* Item plugins.                                                           *)
(***************************************************************************)
Loadable(n, t) == t = loaded_item_type[n] \/ t \in Installed[n]

\* Mutant: the name the class loader is asked for is the one remembered.
LoadItemPluginQualified(n, t) ==
    /\ Loadable(n, t)
    /\ loaded_item_type' = [loaded_item_type EXCEPT ![n] = t \o "::Plugin"]

\* Mutant: a plugin that fails to load does not stop the node.
LoadItemPluginAnyway(n, t) == loaded_item_type' = [loaded_item_type EXCEPT ![n] = t]

LoadItemPlugin(n, t) ==
    /\ Loadable(n, t)
    /\ loaded_item_type' = [loaded_item_type EXCEPT ![n] = t]

(***************************************************************************)
(* configure(), which runs on a thread of its own between the callbacks,   *)
(* and the node's part of the StartAuction handler.                        *)
(***************************************************************************)
\* The handler for messages of this kind has been registered.
Registered(n, kind) == configured[n] >= (IF kind = "start" THEN 1 ELSE 2)

ConfigureNode(n) ==
    /\ configured[n] < AllDone
    /\ configured' = [configured EXCEPT ![n] = @ + 1]
    /\ UNCHANGED <<loaded_item_type, is_participant, auction_id, serverVars,
                   kbVars, self_goals, submitted, results>>

\* Mutant: the self-goal is sent once more to be sure it arrives.
JoinAuctionTwice(n, a) ==
    /\ LoadItemPlugin(n, TypeOf[a])
    /\ is_participant' = [is_participant EXCEPT ![n] = TRUE]
    /\ self_goals' = [self_goals EXCEPT ![n] = Append(Append(@, a), a)]
    /\ UNCHANGED <<configured, auction_id, serverVars, kbVars, submitted, results>>

JoinAuction(n, a) ==
    /\ LoadItemPlugin(n, TypeOf[a])
    /\ is_participant' = [is_participant EXCEPT ![n] = TRUE]
    /\ self_goals' = [self_goals EXCEPT ![n] = Append(@, a)]
    /\ UNCHANGED <<configured, auction_id, serverVars, kbVars, submitted, results>>

(***************************************************************************)
(* The auctionStatus fact: replaced when an execution starts, retracted    *)
(* when it fails or is aborted.                                            *)
(***************************************************************************)
\* Mutant: the facts of the last auction are not removed first.
AnnounceStartOver(n) == kb_status' = [kb_status EXCEPT ![n] = @ \cup {"started"}]

AnnounceStart(n) == kb_status' = [kb_status EXCEPT ![n] = {"started"}]

\* Mutant: only a success clears "started".
LeaveStarted(n) == UNCHANGED kb_status

RetractStart(n) == kb_status' = [kb_status EXCEPT ![n] = @ \ {"started"}]

(***************************************************************************)
(* on_activate, for a goal of auction a that bears the given name.  Role   *)
(* is what is_participant_ says at that moment, not what the goal says.    *)
(***************************************************************************)
ActivateNode(n, a, name) ==
    /\ ~ running[n]
    /\ LoadItemPlugin(n, TypeOf[a])
    /\ auction_id' = [auction_id EXCEPT ![n] = name]
    /\ is_participant' = [is_participant EXCEPT ![n] = FALSE]
    /\ goal' = [goal EXCEPT ![n] = a]
    /\ started' = [started EXCEPT ![n] = TRUE]
    /\ running' = [running EXCEPT ![n] = TRUE]
    /\ paused' = [paused EXCEPT ![n] = FALSE]
    /\ AnnounceStart(n)
    /\ UNCHANGED <<configured, kb_facts, results>>

\* on_activate returns false: the goal's item plugin cannot be loaded.
RejectGoal(n, a, name) ==
    /\ ~ running[n]
    /\ ~ Loadable(n, TypeOf[a])
    /\ auction_id' = [auction_id EXCEPT ![n] = name]
    /\ is_participant' = [is_participant EXCEPT ![n] = FALSE]
    /\ UNCHANGED <<configured, loaded_item_type, serverVars, kbVars, results>>

(***************************************************************************)
(* on_pause and on_resume.  The run timer ticks while the server is        *)
(* running and not paused.                                                 *)
(***************************************************************************)
\* Mutant: pause is accepted during an auction.
PauseNodeAnyTime(n) ==
    /\ "pause" \in Requests
    /\ paused' = [paused EXCEPT ![n] = TRUE]
    /\ UNCHANGED <<roleVars, started, goal, running, kbVars, self_goals,
                   submitted, results>>

PauseNode(n) ==
    /\ "pause" \in Requests
    /\ ~ started[n]
    /\ paused' = [paused EXCEPT ![n] = TRUE]
    /\ UNCHANGED <<roleVars, started, goal, running, kbVars, self_goals,
                   submitted, results>>

ResumeNode(n) ==
    /\ paused[n]
    /\ paused' = [paused EXCEPT ![n] = FALSE]
    /\ UNCHANGED <<roleVars, started, goal, running, kbVars, self_goals,
                   submitted, results>>

Ticking(n) == running[n] /\ ~ paused[n]

(***************************************************************************)
(* The end of an execution: on_execution_end, publish_results_to_kb.       *)
(***************************************************************************)
\* Mutant: a node publishes only what it won itself.
FactsOfOwn(n, w) ==
    UNION {{[item |-> i, prop |-> "auctionId", value |-> auction_id[n]],
            [item |-> i, prop |-> "assignedTo", value |-> n]}
             : i \in {j \in auction_items[n] : w[j] = n}}

FactsOf(n, w) ==
    UNION {{[item |-> i, prop |-> "auctionId", value |-> auction_id[n]],
            [item |-> i, prop |-> "assignedTo", value |-> w[i]]}
             : i \in auction_items[n]}

Report(n, status, w) ==
    results' = results \cup
        {[by |-> n, auction |-> goal[n], status |-> status, winners |-> w]}

EndSuccess(n, w) ==
    /\ started' = [started EXCEPT ![n] = FALSE]
    /\ running' = [running EXCEPT ![n] = FALSE]
    /\ Report(n, "SUCCESS", w)
    /\ kb_facts' = [kb_facts EXCEPT ![n] = @ \cup FactsOf(n, w)]
    /\ kb_status' = [kb_status EXCEPT ![n] = (@ \ {"started"}) \cup {"completed"}]
    /\ UNCHANGED <<roleVars, goal, paused, self_goals, submitted>>

\* on_run returns FAILURE without clearing started.
EndFailure(n) ==
    /\ running' = [running EXCEPT ![n] = FALSE]
    /\ Report(n, "FAILURE", Nobody)
    /\ RetractStart(n)
    /\ UNCHANGED <<roleVars, started, goal, paused, kb_facts, self_goals, submitted>>

\* on_deactivate, then on_execution_end(ABORTED).
StopNode(n) ==
    /\ "stop" \in Requests
    /\ running[n]
    /\ started' = [started EXCEPT ![n] = FALSE]
    /\ running' = [running EXCEPT ![n] = FALSE]
    /\ Report(n, "ABORTED", Nobody)
    /\ RetractStart(n)
    /\ UNCHANGED <<roleVars, goal, paused, kb_facts, self_goals, submitted>>

(***************************************************************************)
(* A drone fails and its node is started again.  All the node knew is      *)
(* gone; the knowledge base and the messages on their way are not.         *)
(***************************************************************************)
RestartNode(n) ==
    /\ "restart" \in Requests /\ n \in Late
    /\ configured' = [configured EXCEPT ![n] = 0]
    /\ loaded_item_type' = [loaded_item_type EXCEPT ![n] = NoType]
    /\ is_participant' = [is_participant EXCEPT ![n] = FALSE]
    /\ auction_id' = [auction_id EXCEPT ![n] = NoName]
    /\ started' = [started EXCEPT ![n] = FALSE]
    /\ goal' = [goal EXCEPT ![n] = NoName]
    /\ running' = [running EXCEPT ![n] = FALSE]
    /\ paused' = [paused EXCEPT ![n] = FALSE]
    /\ self_goals' = [self_goals EXCEPT ![n] = <<>>]
    /\ UNCHANGED <<kbVars, submitted, results>>

-----------------------------------------------------------------------------
(***************************************************************************)
(* The steps in which the auction plugin takes no part.  A fleet running a *)
(* plugin adds that the plugin's own state does not change.                *)
(***************************************************************************)
\* Nothing is being executed, awaited or delivered.
Quiet ==
    /\ \A n \in Agent : ~ running[n] /\ self_goals[n] = <<>>
    /\ \A c \in Channel : net[c] = <<>>

MaySubmit(a) == a \notin submitted /\ (Serial => Quiet)

\* A mission submits auction a, and its auctioneer's on_activate refuses.
RefuseActivation(a) ==
    /\ MaySubmit(a)
    /\ RejectGoal(Auctioneer[a], a, a)
    /\ submitted' = submitted \cup {a}
    /\ UNCHANGED <<cost, self_goals, baseVars, netVars>>

\* The server refuses a node's self-goal: another goal is active.
RefuseSelfGoal(n) ==
    /\ self_goals[n] # <<>>
    /\ running[n]
    /\ self_goals' = [self_goals EXCEPT ![n] = Tail(@)]
    /\ UNCHANGED <<cost, baseVars, netVars, roleVars, serverVars, kbVars,
                   submitted, results>>

\* StartAuction, when the item plugin cannot be loaded: the handler returns.
HandleStartUnloadable(s, n) == \E k \in Deliverable(<<s, n>>) :
    LET m == net[<<s, n>>][k] IN
    /\ m.kind = "start"
    /\ Registered(n, "start")
    /\ ~ Loadable(n, TypeOf[m.auction])
    /\ net' = Without(<<s, n>>, k)
    /\ UNCHANGED <<cost, lost, baseVars, nodeVars>>

\* The gateway has no handler to call before configure() has registered it.
DropUnregistered(s, n) == \E k \in Deliverable(<<s, n>>) :
    /\ ~ Registered(n, net[<<s, n>>][k].kind)
    /\ net' = Without(<<s, n>>, k)
    /\ UNCHANGED <<cost, lost, baseVars, nodeVars>>

LoseMessage(s, n) ==
    /\ Lose(<<s, n>>)
    /\ UNCHANGED <<cost, baseVars, nodeVars>>

Configure(n) ==
    /\ ConfigureNode(n)
    /\ UNCHANGED <<cost, netVars, baseVars>>

Pause(n) ==
    /\ PauseNode(n)
    /\ UNCHANGED <<cost, netVars, baseVars>>

Resume(n) ==
    /\ ResumeNode(n)
    /\ UNCHANGED <<cost, netVars, baseVars>>
=============================================================================
