------------------------ MODULE AuctionBehaviorProofs ------------------------
(***************************************************************************)
(* What holds of a node whatever auction plugin it loads: lemmas about the *)
(* network, and that with one auction a node joins it at most once.        *)
(***************************************************************************)
EXTENDS AuctionBehavior, SequenceTheorems, WellFoundedInduction, TLAPS

\* Taking a message off a channel leaves its other messages, in their order.
LEMMA RemoveAtFacts ==
    ASSUME NEW S, NEW s \in Seq(S), NEW k \in DOMAIN s
    PROVE  /\ RemoveAt(s, k) \in Seq(S)
           /\ DOMAIN RemoveAt(s, k) = 1..(Len(s) - 1)
           /\ \A j \in 1..(Len(s) - 1) :
                 RemoveAt(s, k)[j] = IF j < k THEN s[j] ELSE s[j+1]
           /\ \A j \in DOMAIN RemoveAt(s, k) : \E i \in DOMAIN s :
                 RemoveAt(s, k)[j] = s[i]
<1> DEFINE l == SubSeq(s, 1, k-1)
           r == SubSeq(s, k+1, Len(s))
<1>1. k \in 1..Len(s) /\ Len(s) \in Nat /\ \A i \in 1..Len(s) : s[i] \in S
  OBVIOUS
<1>2. /\ l \in Seq(S)
      /\ Len(l) = k-1
      /\ \A i \in 1..(k-1) : l[i] = s[i]
  <2>1. k - 1 \in Int /\ 1 \in Int /\ \A i \in 1..(k-1) : s[i] \in S
    BY <1>1
  <2>2. QED  BY <1>1, <2>1, SubSeqProperties
<1>3. /\ r \in Seq(S)
      /\ Len(r) = Len(s) - k
      /\ \A i \in 1..(Len(s)-k) : r[i] = s[k+i]
  <2>1. k + 1 \in Int /\ Len(s) \in Int /\ \A i \in (k+1)..Len(s) : s[i] \in S
    BY <1>1
  <2>2. QED  BY <1>1, <2>1, SubSeqProperties
<1>4. RemoveAt(s, k) = l \o r
  BY DEF RemoveAt
<1> HIDE DEF l, r
<1>5. /\ l \o r \in Seq(S)
      /\ Len(l \o r) = Len(s) - 1
      /\ \A i \in 1..(Len(s) - 1) : (l \o r)[i] = IF i <= k-1 THEN l[i] ELSE r[i-(k-1)]
  <2>1. /\ l \o r \in Seq(S)
        /\ Len(l \o r) = Len(l) + Len(r)
        /\ \A i \in 1..(Len(l) + Len(r)) :
              (l \o r)[i] = IF i <= Len(l) THEN l[i] ELSE r[i - Len(l)]
    BY <1>2, <1>3, ConcatProperties
  <2>2. Len(l) + Len(r) = Len(s) - 1
    BY <1>1, <1>2, <1>3
  <2>3. QED
    BY <1>2, <2>1, <2>2
<1>6. \A j \in 1..(Len(s) - 1) : (l \o r)[j] = IF j < k THEN s[j] ELSE s[j+1]
  <2> TAKE j \in 1..(Len(s) - 1)
  <2>1. CASE j <= k-1
    BY <2>1, <1>1, <1>2, <1>5
  <2>2. CASE ~ j <= k-1
    <3>1. j - (k-1) \in 1..(Len(s)-k) /\ k + (j - (k-1)) = j + 1
      BY <2>2, <1>1
    <3>2. (l \o r)[j] = r[j - (k-1)]
      BY <2>2, <1>5
    <3>3. r[j - (k-1)] = s[k + (j - (k-1))]
      BY <3>1, <1>3
    <3> QED  BY <2>2, <1>1, <3>1, <3>2, <3>3
  <2> QED  BY <2>1, <2>2
<1>7. DOMAIN s = 1..Len(s) /\ DOMAIN (l \o r) = 1..(Len(s) - 1)
  BY <1>5
<1>8. \A j \in 1..(Len(s) - 1) : \E i \in 1..Len(s) : (l \o r)[j] = s[i]
  <2> TAKE j \in 1..(Len(s) - 1)
  <2>1. j \in 1..Len(s) /\ j + 1 \in 1..Len(s)
    BY <1>1
  <2> QED  BY <1>6, <2>1
<1> QED  BY <1>4, <1>5, <1>6, <1>7, <1>8

-----------------------------------------------------------------------------
\* The messages on their way on channel c.
InFlight(nt, c) == {nt[c][k] : k \in DOMAIN nt[c]}

\* Forwarding m adds it to the sender's channels to the destinations.
LEMMA ForwardInFlight ==
    ASSUME NEW M, NEW nt \in [Channel -> Seq(M)], NEW s, NEW dests, NEW m
    PROVE  \A c \in Channel : InFlight(Forward(nt, s, dests, m), c) =
              IF c[1] = s /\ c[2] \in dests /\ c[2] # s THEN InFlight(nt, c) \cup {m}
                                                      ELSE InFlight(nt, c)
<1> SUFFICES ASSUME NEW c \in Channel, c[1] = s /\ c[2] \in dests /\ c[2] # s
             PROVE  InFlight(Forward(nt, s, dests, m), c) = InFlight(nt, c) \cup {m}
  BY DEF InFlight, Forward
<1>1. Forward(nt, s, dests, m)[c] = Append(nt[c], m)
  BY DEF Forward
<1>2. nt[c] \in Seq(M) /\ Len(nt[c]) \in Nat /\ DOMAIN nt[c] = 1..Len(nt[c])
  OBVIOUS
<1>3. /\ DOMAIN Append(nt[c], m) = 1..(Len(nt[c]) + 1)
      /\ \A k \in 1..Len(nt[c]) : Append(nt[c], m)[k] = nt[c][k]
      /\ Append(nt[c], m)[Len(nt[c]) + 1] = m
  BY <1>2
<1>4. \A x : (\E k \in 1..(Len(nt[c]) + 1) : x = Append(nt[c], m)[k])
            <=> x = m \/ \E k \in 1..Len(nt[c]) : x = nt[c][k]
  BY <1>2, <1>3
<1> QED  BY <1>1, <1>2, <1>3, <1>4 DEF InFlight

\* Taking a message off a channel leaves every other one.
LEMMA WithoutInFlight ==
    ASSUME NEW M, net \in [Channel -> Seq(M)], NEW c \in Channel, NEW k \in DOMAIN net[c]
    PROVE  /\ \A d \in Channel : InFlight(Without(c, k), d) \subseteq InFlight(net, d)
           /\ \A d \in Channel \ {c} : InFlight(Without(c, k), d) = InFlight(net, d)
           /\ InFlight(net, c) = InFlight(Without(c, k), c) \cup {net[c][k]}
<1>1. /\ net[c] \in Seq(M) /\ Len(net[c]) \in Nat /\ DOMAIN net[c] = 1..Len(net[c])
      /\ \A d \in Channel : Without(c, k)[d] = IF d = c THEN RemoveAt(net[c], k) ELSE net[d]
  BY DEF Without
<1>2. /\ DOMAIN RemoveAt(net[c], k) = 1..(Len(net[c]) - 1)
      /\ \A j \in 1..(Len(net[c]) - 1) :
            RemoveAt(net[c], k)[j] = IF j < k THEN net[c][j] ELSE net[c][j+1]
  <2>1. net[c] \in Seq(M)
    OBVIOUS
  <2> QED  BY <2>1, RemoveAtFacts
<1>3. \A d \in Channel \ {c} : InFlight(Without(c, k), d) = InFlight(net, d)
  BY <1>1 DEF InFlight
<1>4. \A j \in 1..(Len(net[c]) - 1) : Without(c, k)[c][j] \in InFlight(net, c)
  <2> TAKE j \in 1..(Len(net[c]) - 1)
  <2> DEFINE i == IF j < k THEN j ELSE j + 1
  <2>1. i \in DOMAIN net[c] /\ Without(c, k)[c][j] = net[c][i]
    BY <1>1, <1>2
  <2> QED  BY <2>1 DEF InFlight
<1>5. ASSUME NEW i \in DOMAIN net[c], i # k
      PROVE  net[c][i] \in InFlight(Without(c, k), c)
  <2> DEFINE j == IF i < k THEN i ELSE i - 1
  <2>1. j \in 1..(Len(net[c]) - 1) /\ (IF j < k THEN j ELSE j + 1) = i
    BY <1>1, <1>5
  <2>2. Without(c, k)[c][j] = net[c][i] /\ j \in DOMAIN Without(c, k)[c]
    BY <1>1, <1>2, <2>1
  <2> QED  BY <2>2 DEF InFlight
<1>6. \A x \in InFlight(net, c) : x \in InFlight(Without(c, k), c) \/ x = net[c][k]
  BY <1>5 DEF InFlight
<1>7. net[c][k] \in InFlight(net, c)
  BY DEF InFlight
<1>8. \A x \in InFlight(Without(c, k), c) : x \in InFlight(net, c)
  BY <1>1, <1>2, <1>4 DEF InFlight
<1> QED  BY <1>3, <1>6, <1>7, <1>8

-----------------------------------------------------------------------------
\* A non-empty set of naturals has a least element.
LEMMA LeastNatural ==
    ASSUME NEW T, T \subseteq Nat, T # {}
    PROVE  \E x \in T : \A y \in T : x <= y
<1>1. IsWellFoundedOn(OpToRel(<, Nat), Nat)
  BY NatLessThanWellFounded
<1>2. PICK x \in T : \A y \in T : <<y, x>> \notin OpToRel(<, Nat)
  BY <1>1, WFMin
<1>3. \A y \in T : ~ (y < x)
  BY <1>2 DEF OpToRel
<1> QED  BY <1>3

-----------------------------------------------------------------------------
(***************************************************************************)
(* With one auction a node comes to it at most once: as the auctioneer     *)
(* when the goal is submitted, or with the one StartAuction that is ever   *)
(* on its way to it.  A node that is executing, or about to, has reported  *)
(* nothing yet; one that restarts after it joined does not come back.      *)
(***************************************************************************)
OneAuction == \E a : Auction = {a}

SingleAuction == OneAuction /\ \A a \in Auction : Auctioneer[a] \in Bidders[a]

IsStart(m) == m.kind = "start"

\* A StartAuction is on its way to node n.
Starting(nt, n) == \E c \in Channel : \E k \in DOMAIN nt[c] : c[2] = n /\ IsStart(nt[c][k])

\* StartAuctions come from the auctioneer, one to a channel.
OneStart(nt) == \A c \in Channel : \A j, k \in DOMAIN nt[c] :
    IsStart(nt[c][j]) /\ IsStart(nt[c][k]) =>
        j = k /\ \A a \in Auction : c[1] = Auctioneer[a]

NoResult(n) == \A r \in results : r.by # n

\* Node n has nothing to do with the auction yet.
Outside(n) ==
    /\ ~ running[n] /\ ~ is_participant[n]
    /\ self_goals[n] = <<>> /\ auction_items[n] = {}
    /\ NoResult(n)

JoinsOnce ==
    /\ OneStart(net)
    /\ \A a \in Auction \ submitted : \A n \in Agent : Outside(n) /\ ~ Starting(net, n)
    /\ \A n \in Agent : Starting(net, n) => Outside(n)
    /\ \A n \in Agent : running[n] => self_goals[n] = <<>> /\ NoResult(n)
    /\ \A n \in Agent : self_goals[n] # <<>> =>
          Tail(self_goals[n]) = <<>> /\ is_participant[n] /\ NoResult(n)

joinVars == <<is_participant, running, self_goals, submitted, results, auction_items>>

\* What happens to StartAuctions when a message is taken off a channel.
LEMMA WithoutStarts ==
    ASSUME NEW M, net \in [Channel -> Seq(M)], OneStart(net),
           NEW c \in Channel, NEW k \in DOMAIN net[c]
    PROVE  /\ OneStart(Without(c, k))
           /\ \A n \in Agent : Starting(Without(c, k), n) => Starting(net, n)
           /\ OneAuction /\ IsStart(net[c][k]) => ~ Starting(Without(c, k), c[2])
<1> DEFINE nt == Without(c, k)
           from(j) == IF j < k THEN j ELSE j + 1
<1>1. /\ net[c] \in Seq(M)
      /\ \A d \in Channel : nt[d] = IF d = c THEN RemoveAt(net[c], k) ELSE net[d]
  BY DEF Without
<1>2. /\ DOMAIN net[c] = 1..Len(net[c]) /\ Len(net[c]) \in Nat /\ k \in 1..Len(net[c])
      /\ DOMAIN nt[c] = 1..(Len(net[c]) - 1)
      /\ \A j \in 1..(Len(net[c]) - 1) : nt[c][j] = net[c][from(j)]
  <2>1. DOMAIN net[c] = 1..Len(net[c]) /\ Len(net[c]) \in Nat /\ k \in 1..Len(net[c])
    BY <1>1
  <2>2. /\ DOMAIN RemoveAt(net[c], k) = 1..(Len(net[c]) - 1)
        /\ \A j \in 1..(Len(net[c]) - 1) :
              RemoveAt(net[c], k)[j] = IF j < k THEN net[c][j] ELSE net[c][j+1]
    BY <1>1, RemoveAtFacts
  <2>3. nt[c] = RemoveAt(net[c], k)
    BY <1>1
  <2> QED  BY <2>1, <2>2, <2>3
<1>3. /\ \A j \in DOMAIN nt[c] : from(j) \in DOMAIN net[c] /\ from(j) # k
      /\ \A i, j \in DOMAIN nt[c] : from(i) = from(j) => i = j
  BY <1>2
<1> HIDE DEF nt, from
<1>4. OneStart(nt)
  <2> SUFFICES ASSUME NEW d \in Channel, NEW i \in DOMAIN nt[d], NEW j \in DOMAIN nt[d],
                      IsStart(nt[d][i]), IsStart(nt[d][j])
               PROVE  i = j /\ \A a \in Auction : d[1] = Auctioneer[a]
    BY DEF OneStart
  <2>1. CASE d = c
    BY <2>1, <1>2, <1>3 DEF OneStart
  <2>2. CASE d # c
    BY <2>2, <1>1 DEF OneStart
  <2> QED  BY <2>1, <2>2
<1>5. ASSUME NEW n \in Agent, Starting(nt, n) PROVE Starting(net, n)
  BY <1>1, <1>2, <1>3, <1>5 DEF Starting
<1>6. ASSUME OneAuction, IsStart(net[c][k]), Starting(nt, c[2]) PROVE FALSE
  <2>1. PICK d \in Channel : \E j \in DOMAIN nt[d] : d[2] = c[2] /\ IsStart(nt[d][j])
    BY <1>6 DEF Starting
  <2>2. PICK i \in DOMAIN net[d] : IsStart(net[d][i]) /\ (d = c => i # k)
    <3>1. PICK j \in DOMAIN nt[d] : IsStart(nt[d][j])
      BY <2>1
    <3>2. CASE d = c
      BY <1>2, <1>3, <3>1, <3>2
    <3>3. CASE d # c
      BY <1>1, <3>1, <3>3
    <3> QED  BY <3>2, <3>3
  <2>3. \A a \in Auction : c[1] = Auctioneer[a] /\ d[1] = Auctioneer[a]
    BY <1>6, <2>2 DEF OneStart
  <2>4. c = d
    BY <1>6, <2>1, <2>3 DEF OneAuction, Channel
  <2> QED  BY <1>6, <2>2, <2>4 DEF OneStart
<1> QED  BY <1>4, <1>5, <1>6 DEF nt

\* Bids change nothing about StartAuctions.
LEMMA BidStarts ==
    ASSUME NEW M, NEW nt \in [Channel -> Seq(M)], NEW s \in Agent, NEW dests, NEW p
    PROVE  /\ OneStart(nt) => OneStart(Forward(nt, s, dests, Bid(p)))
           /\ \A n \in Agent : Starting(Forward(nt, s, dests, Bid(p)), n) => Starting(nt, n)
<1> DEFINE to == Forward(nt, s, dests, Bid(p))
<1>1. \A c \in Channel : \A k \in DOMAIN to[c] : IsStart(to[c][k]) =>
        k \in DOMAIN nt[c] /\ to[c][k] = nt[c][k]
  <2> SUFFICES ASSUME NEW c \in Channel, NEW k \in DOMAIN to[c], IsStart(to[c][k])
               PROVE  k \in DOMAIN nt[c] /\ to[c][k] = nt[c][k]
    OBVIOUS
  <2>1. nt[c] \in Seq(M) /\ DOMAIN nt[c] = 1..Len(nt[c]) /\ Len(nt[c]) \in Nat
    OBVIOUS
  <2>2. CASE to[c] = nt[c]
    BY <2>2
  <2>3. CASE to[c] = Append(nt[c], Bid(p))
    BY <2>1, <2>3 DEF IsStart, Bid
  <2> QED  BY <2>2, <2>3 DEF Forward
<1> HIDE DEF to
<1> QED  BY <1>1 DEF OneStart, Starting, to

\* The auctioneer, when nobody has been asked yet, asks everybody else once.
LEMMA AskStarts ==
    ASSUME NEW M, NEW nt \in [Channel -> Seq(M)], OneAuction, NEW a \in Auction, NEW dests,
           \A n \in Agent : ~ Starting(nt, n)
    PROVE  LET to == Forward(nt, Auctioneer[a], dests, StartAuction(a))
           IN  OneStart(to) /\ ~ Starting(to, Auctioneer[a])
<1> DEFINE to == Forward(nt, Auctioneer[a], dests, StartAuction(a))
<1>1. \A c \in Channel : \A k \in DOMAIN to[c] : IsStart(to[c][k]) =>
        c[1] = Auctioneer[a] /\ c[2] # Auctioneer[a] /\ k = Len(nt[c]) + 1
  <2> SUFFICES ASSUME NEW c \in Channel, NEW k \in DOMAIN to[c], IsStart(to[c][k])
               PROVE  c[1] = Auctioneer[a] /\ c[2] # Auctioneer[a] /\ k = Len(nt[c]) + 1
    OBVIOUS
  <2>1. nt[c] \in Seq(M) /\ DOMAIN nt[c] = 1..Len(nt[c]) /\ Len(nt[c]) \in Nat
    OBVIOUS
  <2>2. \A j \in DOMAIN nt[c] : ~ IsStart(nt[c][j])
    BY DEF Starting, Channel
  <2>3. to[c] # nt[c]
    BY <2>2
  <2>4. /\ c[1] = Auctioneer[a] /\ c[2] # Auctioneer[a]
        /\ to[c] = Append(nt[c], StartAuction(a))
    BY <2>3 DEF Forward
  <2> QED  BY <2>1, <2>2, <2>4
<1>2. \A b \in Auction : b = a
  BY DEF OneAuction
<1> HIDE DEF to
<1>3. OneStart(to) /\ ~ Starting(to, Auctioneer[a])
  BY <1>1, <1>2 DEF OneStart, Starting
<1> QED  BY <1>3 DEF to

-----------------------------------------------------------------------------
(***************************************************************************)
(* Every kind of step keeps JoinsOnce: one lemma per kind, for the fleets  *)
(* of both plugins to use.                                                 *)
(***************************************************************************)
\* What JoinsOnce needs of the types.
JoinTypes ==
    /\ is_participant \in [Agent -> BOOLEAN] /\ running \in [Agent -> BOOLEAN]
    /\ self_goals \in [Agent -> Seq(Auction)] /\ auction_items \in [Agent -> SUBSET Item]
    /\ OneAuction

LEMMA JoinInit ==
    ASSUME NodeInit, net = [c \in Channel |-> <<>>], auction_items = [n \in Agent |-> {}]
    PROVE  JoinsOnce
<1>1. OneStart(net) /\ \A n \in Agent : ~ Starting(net, n)
  BY DEF OneStart, Starting
<1>2. \A n \in Agent : Outside(n)
  BY DEF NodeInit, Outside, NoResult
<1>3. \A n \in Agent : ~ running[n] /\ self_goals[n] = <<>>
  BY DEF NodeInit
<1> QED  BY <1>1, <1>2, <1>3 DEF JoinsOnce

\* A step that at most takes a message off the network, or adds bids to it.
LEMMA JoinQuiet ==
    ASSUME JoinsOnce, UNCHANGED joinVars, OneStart(net'),
           \A n \in Agent : Starting(net', n) => Starting(net, n)
    PROVE  JoinsOnce'
<1>1. \A n : Outside(n)' <=> Outside(n)
  BY DEF joinVars, Outside, NoResult
<1>2. \A n : NoResult(n)' <=> NoResult(n)
  BY DEF joinVars, NoResult
<1> QED  BY <1>1, <1>2 DEF JoinsOnce, joinVars, Starting, OneStart

\* The mission's goal finds a node outside, which therefore opens the auction.
LEMMA JoinOpen ==
    ASSUME JoinTypes, JoinsOnce, NEW a \in Auction, MaySubmit(a), Auctioneer[a] \in Agent,
           ActivateNode(Auctioneer[a], a, a), submitted' = submitted \cup {a},
           UNCHANGED self_goals, OneStart(net'), ~ Starting(net', Auctioneer[a]),
           \A n \in Agent \ {Auctioneer[a]} : auction_items'[n] = auction_items[n]
    PROVE  JoinsOnce'
<1> DEFINE A == Auctioneer[a]
<1>1. /\ UNCHANGED results
      /\ running' = [running EXCEPT ![A] = TRUE]
      /\ is_participant' = [is_participant EXCEPT ![A] = FALSE]
  BY DEF ActivateNode, AnnounceStart
<1>2. \A n \in Agent : Outside(n) /\ NoResult(n)
  BY DEF JoinsOnce, MaySubmit, Outside
<1>3. \A n : NoResult(n)' <=> NoResult(n)
  BY <1>1 DEF NoResult
<1>4. \A n \in Agent : self_goals'[n] = <<>>
  BY <1>2 DEF Outside
<1>5. \A n \in Agent \ {A} : Outside(n)'
  BY <1>1, <1>2, <1>3, <1>4 DEF Outside, JoinTypes
<1>6. Auction \ submitted' = {}
  BY DEF JoinTypes, OneAuction
<1> QED  BY <1>2, <1>3, <1>4, <1>5, <1>6 DEF JoinsOnce

LEMMA JoinRefuse ==
    ASSUME JoinTypes, JoinsOnce, NEW a \in Auction, RefuseActivation(a)
    PROVE  JoinsOnce'
<1>1. /\ UNCHANGED <<results, running, self_goals, auction_items, net>>
      /\ is_participant' = [is_participant EXCEPT ![Auctioneer[a]] = FALSE]
      /\ submitted' = submitted \cup {a}
  BY DEF RefuseActivation, RejectGoal, serverVars, baseVars, netVars
<1>2. \A n \in Agent : Outside(n) /\ ~ Starting(net, n)
  BY DEF JoinsOnce, RefuseActivation, MaySubmit
<1>3. \A n : NoResult(n)' <=> NoResult(n)
  BY <1>1 DEF NoResult
<1>4. \A n \in Agent : ~ Starting(net', n) /\ self_goals'[n] = <<>> /\ ~ running'[n]
  BY <1>1, <1>2 DEF Outside
<1>5. Auction \ submitted' = {}
  BY <1>1 DEF JoinTypes, OneAuction
<1> QED  BY <1>1, <1>4, <1>5 DEF JoinsOnce, OneStart

\* A self-goal is handled by a node that is a participant: it only ticks.
LEMMA JoinSelfGoal ==
    ASSUME JoinTypes, JoinsOnce, NEW n \in Agent, self_goals[n] # <<>>, NEW a, NEW name,
           ActivateNode(n, a, name), self_goals' = [self_goals EXCEPT ![n] = Tail(@)],
           UNCHANGED <<net, submitted, auction_items>>
    PROVE  JoinsOnce'
<1>1. /\ UNCHANGED results
      /\ running' = [running EXCEPT ![n] = TRUE]
      /\ is_participant' = [is_participant EXCEPT ![n] = FALSE]
  BY DEF ActivateNode, AnnounceStart
<1>2. ~ Outside(n) /\ NoResult(n) /\ Tail(self_goals[n]) = <<>>
  BY DEF JoinsOnce, Outside
<1>3. \A m : NoResult(m)' <=> NoResult(m)
  BY <1>1 DEF NoResult
<1>4. \A m \in Agent : Starting(net', m) <=> Starting(net, m)
  BY DEF Starting
<1>5. \A m \in Agent \ {n} : Outside(m)' <=> Outside(m)
  BY <1>1, <1>3 DEF Outside, JoinTypes
<1>6. self_goals'[n] = <<>>
  BY <1>2 DEF JoinTypes
<1>7. \A m \in Agent \ {n} :
        /\ self_goals'[m] = self_goals[m] /\ running'[m] = running[m]
        /\ is_participant'[m] = is_participant[m]
  BY <1>1 DEF JoinTypes
<1> QED  BY <1>2, <1>3, <1>4, <1>5, <1>6, <1>7 DEF JoinsOnce, OneStart

\* StartAuction finds a node outside, and is the last one for it.
LEMMA JoinStart ==
    ASSUME JoinTypes, JoinsOnce, NEW n \in Agent, NEW a \in Auction, Starting(net, n),
           JoinAuction(n, a), OneStart(net'), ~ Starting(net', n),
           \A m \in Agent : Starting(net', m) => Starting(net, m),
           \A m \in Agent \ {n} : auction_items'[m] = auction_items[m]
    PROVE  JoinsOnce'
<1>1. /\ UNCHANGED <<results, running, submitted>>
      /\ is_participant' = [is_participant EXCEPT ![n] = TRUE]
      /\ self_goals' = [self_goals EXCEPT ![n] = Append(@, a)]
  BY DEF JoinAuction, serverVars
<1>2. Outside(n) /\ Auction \ submitted = {}
  BY DEF JoinsOnce
<1>3. \A m : NoResult(m)' <=> NoResult(m)
  BY <1>1 DEF NoResult
<1>4. \A m \in Agent \ {n} : Outside(m)' <=> Outside(m)
  BY <1>1, <1>3 DEF Outside, JoinTypes
<1>5. self_goals'[n] = <<a>> /\ Tail(<<a>>) = <<>>
  BY <1>1, <1>2 DEF Outside, JoinTypes
<1>6. is_participant'[n] /\ ~ running'[n] /\ NoResult(n)
  BY <1>1, <1>2 DEF Outside, JoinTypes
<1>7. \A m \in Agent \ {n} :
        /\ self_goals'[m] = self_goals[m] /\ running'[m] = running[m]
        /\ is_participant'[m] = is_participant[m]
  BY <1>1 DEF JoinTypes
<1> QED  BY <1>1, <1>2, <1>3, <1>4, <1>5, <1>6, <1>7 DEF JoinsOnce

\* An execution ends.
LEMMA JoinEnd ==
    ASSUME JoinTypes, JoinsOnce, NEW n \in Agent, running[n],
           running' = [running EXCEPT ![n] = FALSE],
           NEW status, NEW w, Report(n, status, w),
           UNCHANGED <<is_participant, self_goals, submitted, net>>,
           \A m \in Agent \ {n} : auction_items'[m] = auction_items[m]
    PROVE  JoinsOnce'
<1>1. \A m : m # n => (NoResult(m)' <=> NoResult(m))
  BY DEF NoResult, Report
<1>2. self_goals[n] = <<>> /\ ~ Outside(n)
  BY DEF JoinsOnce, Outside
<1>3. \A m \in Agent \ {n} : Outside(m)' <=> Outside(m)
  BY <1>1 DEF Outside, JoinTypes
<1>4. \A m \in Agent : Starting(net', m) <=> Starting(net, m)
  BY DEF Starting
<1>5. Auction \ submitted = {}
  BY <1>2 DEF JoinsOnce
<1> QED  BY <1>1, <1>2, <1>3, <1>4, <1>5 DEF JoinsOnce, OneStart, JoinTypes

LEMMA JoinRestart ==
    ASSUME JoinTypes, JoinsOnce, NEW n \in Agent, RestartNode(n), UNCHANGED net,
           auction_items'[n] = {},
           \A m \in Agent \ {n} : auction_items'[m] = auction_items[m]
    PROVE  JoinsOnce'
<1>1. /\ UNCHANGED <<results, submitted>>
      /\ is_participant' = [is_participant EXCEPT ![n] = FALSE]
      /\ running' = [running EXCEPT ![n] = FALSE]
      /\ self_goals' = [self_goals EXCEPT ![n] = <<>>]
  BY DEF RestartNode
<1>2. \A m : NoResult(m)' <=> NoResult(m)
  BY <1>1 DEF NoResult
<1>3. \A m \in Agent : Outside(m) => Outside(m)'
  BY <1>1, <1>2 DEF Outside, JoinTypes
<1>4. \A m \in Agent : Starting(net', m) <=> Starting(net, m)
  BY DEF Starting
<1>5. self_goals'[n] = <<>> /\ ~ running'[n]
  BY <1>1 DEF JoinTypes
<1>6. \A m \in Agent \ {n} :
        /\ self_goals'[m] = self_goals[m] /\ running'[m] = running[m]
        /\ is_participant'[m] = is_participant[m]
  BY <1>1 DEF JoinTypes
<1> QED  BY <1>1, <1>2, <1>3, <1>4, <1>5, <1>6 DEF JoinsOnce, OneStart
=============================================================================
