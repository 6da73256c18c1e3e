--------------------------- MODULE AuctionPromise ---------------------------
(***************************************************************************)
(* What an auction promises, whatever plugin carries it out: only a bidder *)
(* executes it, one auction at a time, and never again once it has ended   *)
(* it; when it ends it with SUCCESS the winners are the cheapest bidders,  *)
(* hence the same on every node; it may give up only if some item has no   *)
(* bidder that can price it, or if it is stopped.                          *)
(***************************************************************************)
EXTENDS AuctionProblem

CONSTANT Mortal     \* the nodes whose process may die during an auction

VARIABLES
    results,    \* how every execution ended
    executing   \* the auction a node executes, NoName for none

Right(a, w) == \A i \in Item :
    IF i \in ItemsOf[a] THEN IsCheapest(a, w[i], i) ELSE w[i] = NoAgent

Reported(n, a) == \E r \in results : r.by = n /\ r.auction = a

Begin(n, a) ==
    /\ n \in Bidders[a]
    /\ executing[n] = NoName
    /\ ~ Reported(n, a)
    /\ executing' = [executing EXCEPT ![n] = a]
    /\ UNCHANGED <<cost, results>>

End(n, a, status, w) ==
    /\ executing[n] = a
    /\ executing' = [executing EXCEPT ![n] = NoName]
    /\ results' = results \cup
         {[by |-> n, auction |-> a, status |-> status, winners |-> w]}
    /\ UNCHANGED cost

Succeed(n, a) == \E w \in Assignment : Right(a, w) /\ End(n, a, "SUCCESS", w)

GiveUp(n, a) ==
    /\ \E i \in ItemsOf[a] : Unassignable(a, i)
    /\ End(n, a, "FAILURE", Nobody)

Abort(n, a) == End(n, a, "ABORTED", Nobody)

\* A process that dies ends nothing.
Die(n) ==
    /\ n \in Mortal
    /\ executing' = [executing EXCEPT ![n] = NoName]
    /\ UNCHANGED <<cost, results>>

promiseVars == <<cost, results, executing>>

Init ==
    /\ cost \in CostTable
    /\ results = {}
    /\ executing = [n \in Agent |-> NoName]

Next ==
    \/ \E n \in Agent, a \in Auction :
          Begin(n, a) \/ Succeed(n, a) \/ GiveUp(n, a) \/ Abort(n, a)
    \/ \E n \in Agent : Die(n)

Spec == Init /\ [][Next]_promiseVars
=============================================================================
