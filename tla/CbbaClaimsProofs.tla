-------------------------- MODULE CbbaClaimsProofs --------------------------
(***************************************************************************)
(* What the operators of cbba::Plugin's algorithm return: the order in     *)
(* which the loop of build_bundle takes items, what it adds to a bundle,   *)
(* what consensus and cascade_remove leave of a view.                      *)
(***************************************************************************)
EXTENDS CbbaClaims, AuctionBehaviorProofs, FiniteSetTheorems

\* Items are in a strict total order.
LEMMA SoonerOrder ==
    ASSUME NEW c \in CostVector
    PROVE  /\ \A i \in Item : c[i] \in Int /\ ~ Sooner(c, i, i)
           /\ \A i, j, k \in Item : Sooner(c, i, j) /\ Sooner(c, j, k) => Sooner(c, i, k)
           /\ \A i, j \in Item : i # j => Sooner(c, i, j) \/ Sooner(c, j, i)
           /\ \A i, j \in Item : Sooner(c, i, j) => ~ Sooner(c, j, i) /\ c[i] <= c[j]
<1>1. \A i \in Item : c[i] \in Int /\ i \in Int
  <2>1. \A i \in Item : c[i] \in CostValue \cup {NoBid}
    BY DEF CostVector
  <2>2. \A x \in CostValue \cup {NoBid} : x \in Int
    BY CostAssumption DEF NoBid
  <2> QED  BY <2>1, <2>2, ItemAssumption
<1> QED  BY <1>1 DEF Sooner

\* The place of every item of S in that order.
Place(c, S) == [i \in S |-> 1 + Cardinality({j \in S : Sooner(c, j, i)})]

LEMMA PlaceFacts ==
    ASSUME NEW c \in CostVector, NEW S \in SUBSET Item, IsFiniteSet(S)
    PROVE  /\ Place(c, S) \in Bijection(S, 1..Cardinality(S))
           /\ \A i, j \in S : Sooner(c, i, j) <=> Place(c, S)[i] < Place(c, S)[j]
<1> DEFINE Before(i) == {j \in S : Sooner(c, j, i)}
           p == Place(c, S)
           N == Cardinality(S)
<1>1. N \in Nat
  BY FS_CardinalityType
<1>2. \A i \in S : IsFiniteSet(Before(i)) /\ Cardinality(Before(i)) \in 0..(N - 1)
  <2> TAKE i \in S
  <2>1. Before(i) \in SUBSET S /\ Before(i) # S
    BY SoonerOrder
  <2> HIDE DEF Before
  <2>2. IsFiniteSet(Before(i)) /\ Cardinality(Before(i)) <= N /\ Cardinality(Before(i)) # N
    BY <2>1, FS_Subset
  <2> QED  BY <1>1, <2>2, FS_CardinalityType
<1>3. \A i \in S : p[i] = 1 + Cardinality(Before(i)) /\ p[i] \in 1..N
  BY <1>1, <1>2 DEF Place
<1>4. ASSUME NEW i \in S, NEW j \in S, Sooner(c, i, j) PROVE p[i] < p[j]
  <2>1. Before(i) \in SUBSET Before(j) /\ Before(i) # Before(j)
    <3>1. i \in Before(j) /\ i \notin Before(i)
      BY <1>4, SoonerOrder
    <3>2. \A k \in Before(i) : k \in Before(j)
      BY <1>4, SoonerOrder
    <3> QED  BY <3>1, <3>2
  <2> HIDE DEF Before, p
  <2>2. Cardinality(Before(i)) <= Cardinality(Before(j))
        /\ Cardinality(Before(i)) # Cardinality(Before(j))
    BY <1>2, <2>1, FS_Subset
  <2> QED  BY <1>1, <1>2, <1>3, <2>2
<1> HIDE DEF Before
<1>5. p \in [S -> 1..N]
  BY <1>3 DEF Place
<1> HIDE DEF p, N
<1>6. \A i, j \in S : Sooner(c, i, j) <=> p[i] < p[j]
  <2> TAKE i, j \in S
  <2>1. p[i] \in Int /\ p[j] \in Int
    BY <1>1, <1>5
  <2>2. CASE i = j
    BY <2>1, <2>2, SoonerOrder
  <2>3. CASE i # j
    BY <1>4, <2>1, <2>3, SoonerOrder
  <2> QED  BY <2>2, <2>3
<1>7. p \in Injection(S, 1..N)
  <2>1. \A i, j \in S : p[i] = p[j] => i = j
    <3> SUFFICES ASSUME NEW i \in S, NEW j \in S, i # j PROVE p[i] # p[j]
      OBVIOUS
    <3>1. p[i] \in Int /\ p[j] \in Int
      BY <1>1, <1>5
    <3> QED  BY <1>4, <3>1, SoonerOrder
  <2> QED  BY <1>5, <2>1 DEF Injection, IsInjective
<1>8. p \in Surjection(S, 1..N)
  <2>1. IsFiniteSet(1..N) /\ Cardinality(1..N) = N
    BY <1>1, FS_Interval
  <2>2. Cardinality(S) = N
    BY DEF N
  <2> QED  BY <1>7, <2>1, <2>2, FS_Injection
<1> QED  BY <1>6, <1>7, <1>8 DEF Bijection, p, N

\* InOrder lists the whole set, every item once, each before the later ones.
LEMMA InOrderFacts ==
    ASSUME NEW c \in CostVector, NEW S \in SUBSET Item, IsFiniteSet(S)
    PROVE  /\ InOrder(c, S) \in Seq(Item) /\ Len(InOrder(c, S)) = Cardinality(S)
           /\ Range(InOrder(c, S)) = S /\ IsInjective(InOrder(c, S))
           /\ \A j, k \in DOMAIN InOrder(c, S) :
                 j < k => Sooner(c, InOrder(c, S)[j], InOrder(c, S)[k])
<1> DEFINE N == Cardinality(S)
           p == Place(c, S)
           Sorted(q) == \A j, k \in DOMAIN q : j < k => Sooner(c, q[j], q[k])
<1>1. N \in Nat
  BY FS_CardinalityType
<1>2. \E q \in [1..N -> S] : Sorted(q)
  <2> DEFINE q == [k \in 1..N |-> CHOOSE i \in S : p[i] = k]
  <2> HIDE DEF p
  <2>1. /\ \A k \in 1..N : \E i \in S : p[i] = k
        /\ \A i, j \in S : Sooner(c, i, j) <=> p[i] < p[j]
    BY PlaceFacts DEF Bijection, Surjection, p
  <2>2. \A k \in 1..N : q[k] \in S /\ p[q[k]] = k
    BY <2>1
  <2>3. q \in [1..N -> S]
    BY <2>2
  <2>4. DOMAIN q = 1..N
    OBVIOUS
  <2> HIDE DEF q
  <2>5. Sorted(q)
    BY <2>1, <2>2, <2>4
  <2> QED  BY <2>3, <2>5
<1> DEFINE q == InOrder(c, S)
<1>3. q \in [1..N -> S] /\ Sorted(q)
  <2>1. q = CHOOSE r \in [1..N -> S] : Sorted(r)
    BY DEF InOrder
  <2> HIDE DEF q, Sorted
  <2> QED  BY <1>2, <2>1
<1>4. q \in Seq(Item) /\ Len(q) = N /\ DOMAIN q = 1..N
  BY <1>1, <1>3
<1> HIDE DEF q
<1>5. IsInjective(q)
  <2> SUFFICES ASSUME NEW j \in 1..N, NEW k \in 1..N, j # k PROVE q[j] # q[k]
    BY <1>4 DEF IsInjective
  <2>1. q[j] \in Item /\ q[k] \in Item
    BY <1>3
  <2>2. Sooner(c, q[j], q[k]) \/ Sooner(c, q[k], q[j])
    BY <1>1, <1>3
  <2> QED  BY <2>1, <2>2, SoonerOrder
<1>6. q \in Surjection(1..N, S)
  <2>1. q \in Injection(1..N, S)
    BY <1>3, <1>5 DEF Injection
  <2>2. Cardinality(1..N) = Cardinality(S)
    BY <1>1, FS_Interval
  <2> QED  BY <2>1, <2>2, FS_Injection
<1>7. Range(q) = S
  BY <1>3, <1>6 DEF Range, Surjection
<1> QED  BY <1>3, <1>4, <1>5, <1>7 DEF q

-----------------------------------------------------------------------------
\* A set of items that can all be looked up, as every auction's is.
Priceable(c, items) == /\ items \in SUBSET Item /\ IsFiniteSet(items)
                       /\ \A i \in items : c[i] # NoBid

ViewType == [y : Claims, z : Assignment, bundle : Seq(Item)]

\* The items the loop of build_bundle adds.
Taken(n, c, items, v) ==
    {i \in Claimable(n, c, items, v) : Len(v.bundle) +
        Cardinality({j \in Claimable(n, c, items, v) : Sooner(c, j, i)}) < MaxBundle(n)}

LEMMA MaxBundleType == \A n \in Agent : MaxBundle(n) \in Nat \ {0}
BY BundleAssumption DEF MaxBundle

LEMMA TakenType ==
    ASSUME NEW n, NEW c \in CostVector, NEW items, Priceable(c, items), NEW v
    PROVE  /\ Taken(n, c, items, v) \in SUBSET Claimable(n, c, items, v)
           /\ Claimable(n, c, items, v) \in SUBSET items
           /\ \A i \in items \cup Claimable(n, c, items, v) : i \in Item /\ c[i] \in CostValue
           /\ IsFiniteSet(Claimable(n, c, items, v)) /\ IsFiniteSet(Taken(n, c, items, v))
<1>1. /\ Taken(n, c, items, v) \in SUBSET Claimable(n, c, items, v)
      /\ Claimable(n, c, items, v) \in SUBSET items
  BY DEF Taken, Claimable
<1>2. \A i \in items : i \in Item /\ c[i] \in CostValue
  BY DEF CostVector, Priceable
<1>3. IsFiniteSet(Claimable(n, c, items, v))
  BY <1>1, FS_Subset DEF Priceable
<1>4. IsFiniteSet(Taken(n, c, items, v))
  BY <1>1, <1>3, FS_Subset
<1> QED  BY <1>1, <1>2, <1>3, <1>4

\* It adds the first few: no more than there is room for, and an item is left
\* out only when the bundle is full of items that come before it.
LEMMA TakenFacts ==
    ASSUME NEW n \in Agent, NEW c \in CostVector, NEW items, Priceable(c, items),
           NEW v, v.bundle \in Seq(Item), Len(v.bundle) <= MaxBundle(n)
    PROVE  LET Able == Claimable(n, c, items, v)
               T    == Taken(n, c, items, v)
           IN  /\ Len(v.bundle) + Cardinality(T) <= MaxBundle(n)
               /\ \A i \in Able \ T : /\ Len(v.bundle) + Cardinality(T) = MaxBundle(n)
                                      /\ \A j \in T : Sooner(c, j, i)
<1> DEFINE Able == Claimable(n, c, items, v)
           T == Taken(n, c, items, v)
           p == Place(c, Able)
           room == MaxBundle(n) - Len(v.bundle)
           N == Cardinality(Able)
<1>1. Able \in SUBSET Item /\ IsFiniteSet(Able) /\ T \in SUBSET Able /\ IsFiniteSet(T)
  BY TakenType DEF Priceable
<1>2. room \in Nat /\ N \in Nat /\ Len(v.bundle) \in Nat /\ MaxBundle(n) \in Nat
  BY <1>1, MaxBundleType, FS_CardinalityType
<1>3. T = {i \in Able : Len(v.bundle) + Cardinality({j \in Able : Sooner(c, j, i)}) < MaxBundle(n)}
  BY DEF Taken
<1>4. \A i \in Able : p[i] = 1 + Cardinality({j \in Able : Sooner(c, j, i)})
  BY DEF Place
<1> HIDE DEF Able, T
<1>5. p \in Bijection(Able, 1..N) /\ \A i, j \in Able : Sooner(c, i, j) <=> p[i] < p[j]
  BY <1>1, PlaceFacts
<1>6. p \in [Able -> 1..N]
  BY <1>5 DEF Bijection, Surjection
<1>7. \A i \in Able : i \in T <=> p[i] <= room
  <2> TAKE i \in Able
  <2> DEFINE k == Cardinality({j \in Able : Sooner(c, j, i)})
  <2>1. i \in T <=> Len(v.bundle) + k < MaxBundle(n)
    BY <1>3
  <2>2. p[i] = 1 + k /\ p[i] \in Int
    BY <1>4, <1>2, <1>6
  <2>3. k \in Int
    <3>1. IsFiniteSet({j \in Able : Sooner(c, j, i)})
      BY <1>1, FS_Subset
    <3> QED  BY <3>1, FS_CardinalityType
  <2> HIDE DEF k
  <2> QED  BY <1>2, <2>1, <2>2, <2>3
<1> HIDE DEF p, N
<1> DEFINE m == IF room <= N THEN room ELSE N
<1>8. Cardinality(T) = m
  <2> DEFINE f == [i \in T |-> p[i]]
  <2>1. \A i \in T : p[i] \in 1..m
    BY <1>1, <1>2, <1>6, <1>7
  <2>2. f \in Injection(T, 1..m)
    <3>1. \A i, j \in T : f[i] = f[j] => i = j
      BY <1>1, <1>5 DEF Bijection, Injection, IsInjective
    <3> QED  BY <2>1, <3>1 DEF Injection, IsInjective
  <2>3. f \in Surjection(T, 1..m)
    <3> SUFFICES ASSUME NEW k \in 1..m PROVE \E i \in T : f[i] = k
      BY <2>1 DEF Surjection
    <3>1. PICK i \in Able : p[i] = k
      BY <1>2, <1>5 DEF Bijection, Surjection
    <3>2. i \in T
      BY <1>2, <1>7, <3>1
    <3> QED  BY <3>1, <3>2
  <2> HIDE DEF f
  <2>4. ExistsBijection(T, 1..m)
    BY <2>2, <2>3 DEF ExistsBijection, Bijection
  <2>5. m \in Nat /\ Cardinality(1..m) = Cardinality(T)
    BY <1>1, <1>2, <2>4, FS_Bijection
  <2> QED  BY <2>5, FS_Interval
<1>9. ASSUME NEW i \in Able, i \notin T
      PROVE  Cardinality(T) = room /\ \A j \in T : Sooner(c, j, i)
  BY <1>1, <1>2, <1>5, <1>6, <1>7, <1>8, <1>9
<1>10. Cardinality(T) <= room /\ Cardinality(T) \in Nat
  BY <1>2, <1>8
<1> HIDE DEF m
<1>11. Len(v.bundle) + Cardinality(T) <= MaxBundle(n)
  BY <1>2, <1>10
<1>12. \A i \in Able \ T : Len(v.bundle) + Cardinality(T) = MaxBundle(n)
  BY <1>2, <1>9, <1>10
<1> QED  BY <1>9, <1>11, <1>12 DEF Able, T

-----------------------------------------------------------------------------
\* build_bundle appends what it takes, and its claims name the agent itself.
LEMMA BuildBundleFacts ==
    ASSUME NEW n \in Agent, NEW c \in CostVector, NEW items, Priceable(c, items),
           NEW v \in ViewType
    PROVE  LET T == Taken(n, c, items, v)
               w == BuildBundle(n, c, items, v)
           IN  /\ w \in ViewType
               /\ \A i \in Item :
                     /\ w.y[i] = IF i \in T /\ v.z[i] # n THEN c[i] ELSE v.y[i]
                     /\ w.z[i] = IF i \in T THEN n ELSE v.z[i]
               /\ Range(w.bundle) = Range(v.bundle) \cup T
               /\ Len(w.bundle) = Len(v.bundle) + Cardinality(T)
               /\ IsInjective(v.bundle) => IsInjective(w.bundle)
<1> DEFINE T == Taken(n, c, items, v)
           w == BuildBundle(n, c, items, v)
           q == InOrder(c, T)
<1>1. w = [y |-> [i \in Item |-> IF i \in T /\ v.z[i] # n THEN c[i] ELSE v.y[i]],
           z |-> [i \in Item |-> IF i \in T THEN n ELSE v.z[i]],
           bundle |-> v.bundle \o q]
  BY DEF BuildBundle, Taken
<1>2. /\ T \in SUBSET Item /\ IsFiniteSet(T) /\ T \cap Range(v.bundle) = {}
      /\ \A i \in T : c[i] \in CostValue
  <2>1. T \cap Range(v.bundle) = {}
    BY DEF Taken, Claimable
  <2> QED  BY <2>1, TakenType
<1> HIDE DEF T, w, q
<1>3. q \in Seq(Item) /\ Len(q) = Cardinality(T) /\ Range(q) = T /\ IsInjective(q)
  BY <1>2, InOrderFacts DEF q
<1> DEFINE b == v.bundle
<1>4. b \in Seq(Item) /\ v.y \in Claims /\ v.z \in Assignment
  BY DEF ViewType
<1>5. /\ b \o q \in Seq(Item) /\ Len(b \o q) = Len(b) + Len(q)
      /\ \A k \in 1..(Len(b) + Len(q)) :
            (b \o q)[k] = IF k <= Len(b) THEN b[k] ELSE q[k - Len(b)]
  BY <1>3, <1>4, ConcatProperties
<1>6. /\ DOMAIN b = 1..Len(b) /\ Len(b) \in Nat /\ DOMAIN q = 1..Len(q) /\ Len(q) \in Nat
      /\ DOMAIN (b \o q) = 1..(Len(b) + Len(q))
  BY <1>3, <1>4, <1>5
<1> HIDE DEF b
<1>7. Range(b \o q) = Range(b) \cup T
  <2>1. \A k \in DOMAIN (b \o q) : (b \o q)[k] \in Range(b) \cup Range(q)
    BY <1>5, <1>6 DEF Range
  <2>2. \A k \in DOMAIN b : k \in DOMAIN (b \o q) /\ (b \o q)[k] = b[k]
    BY <1>5, <1>6
  <2>3. \A k \in DOMAIN q : k + Len(b) \in DOMAIN (b \o q) /\ (b \o q)[k + Len(b)] = q[k]
    BY <1>5, <1>6
  <2>4. Range(b) \subseteq Range(b \o q) /\ Range(q) \subseteq Range(b \o q)
    BY <2>2, <2>3 DEF Range
  <2>5. Range(b \o q) \subseteq Range(b) \cup Range(q)
    BY <2>1 DEF Range
  <2> QED  BY <1>3, <2>4, <2>5
<1>8. ASSUME IsInjective(b) PROVE IsInjective(b \o q)
  <2> SUFFICES ASSUME NEW j \in DOMAIN (b \o q), NEW k \in DOMAIN (b \o q),
                      (b \o q)[j] = (b \o q)[k], j < k
               PROVE  FALSE
    <3>1. DOMAIN (b \o q) \subseteq Int
      BY <1>6
    <3> QED  BY <3>1 DEF IsInjective
  <2>1. CASE k <= Len(b)
    BY <1>5, <1>6, <1>8, <2>1 DEF IsInjective
  <2>2. CASE j <= Len(b) /\ ~ k <= Len(b)
    <3>1. j \in DOMAIN b /\ k - Len(b) \in DOMAIN q
      BY <1>6, <2>2
    <3>2. b[j] = q[k - Len(b)]
      BY <1>5, <1>6, <2>2
    <3>3. b[j] \in Range(b) /\ q[k - Len(b)] \in Range(q)
      BY <3>1 DEF Range
    <3> QED  BY <1>2, <1>3, <3>2, <3>3 DEF b
  <2>3. CASE ~ j <= Len(b)
    <3>1. j - Len(b) \in DOMAIN q /\ k - Len(b) \in DOMAIN q /\ j - Len(b) # k - Len(b)
      BY <1>6, <2>3
    <3>2. q[j - Len(b)] = q[k - Len(b)]
      BY <1>5, <1>6, <2>3
    <3> QED  BY <1>3, <3>1, <3>2 DEF IsInjective
  <2> QED  BY <1>6, <2>1, <2>2, <2>3
<1>9. w.y \in Claims /\ w.z \in Assignment
  BY <1>1, <1>2, <1>4 DEF Claims, Assignment
<1>10. w \in ViewType
  BY <1>1, <1>5, <1>9 DEF ViewType, b
<1>11. \A i \in Item : /\ w.y[i] = IF i \in T /\ v.z[i] # n THEN c[i] ELSE v.y[i]
                       /\ w.z[i] = IF i \in T THEN n ELSE v.z[i]
  BY <1>1
<1>12. w.bundle = b \o q
  BY <1>1 DEF b
<1> QED  BY <1>3, <1>5, <1>7, <1>8, <1>10, <1>11, <1>12 DEF T, w, b

\* Consensus takes over the adopted claims, price and winner, and no others.
LEMMA ConsensusFacts ==
    ASSUME NEW items \in SUBSET Item, NEW v \in ViewType, NEW bid \in ClaimBid
    PROVE  LET w == Consensus(items, v, bid)
           IN  /\ w \in ViewType /\ w.bundle = v.bundle
               /\ \A i \in Item :
                     /\ w.y[i] = IF i \in Adopted(items, v, bid) THEN bid.y[i] ELSE v.y[i]
                     /\ w.z[i] = IF i \in Adopted(items, v, bid) THEN bid.z[i] ELSE v.z[i]
<1> DEFINE w == Consensus(items, v, bid)
           Won == Adopted(items, v, bid)
<1>1. w = [v EXCEPT !.y = [i \in Item |-> IF i \in Won THEN bid.y[i] ELSE v.y[i]],
                    !.z = [i \in Item |-> IF i \in Won THEN bid.z[i] ELSE v.z[i]]]
  BY DEF Consensus
<1>2. \A i \in Won : bid.y[i] # NoBid
  BY DEF Adopted, Beats
<1> HIDE DEF Won, w
<1>3. /\ v.y \in Claims /\ v.z \in Assignment /\ v.bundle \in Seq(Item)
      /\ bid.y \in [Item -> CostValue \cup {Infinity, NoBid}] /\ bid.z \in Assignment
  BY DEF ViewType, ClaimBid
<1>4. [i \in Item |-> IF i \in Won THEN bid.y[i] ELSE v.y[i]] \in Claims
  BY <1>2, <1>3 DEF Claims
<1>5. [i \in Item |-> IF i \in Won THEN bid.z[i] ELSE v.z[i]] \in Assignment
  BY <1>3 DEF Assignment
<1>6. /\ w.y = [i \in Item |-> IF i \in Won THEN bid.y[i] ELSE v.y[i]]
      /\ w.z = [i \in Item |-> IF i \in Won THEN bid.z[i] ELSE v.z[i]]
      /\ w.bundle = v.bundle
  BY <1>1 DEF ViewType
<1>7. w \in ViewType
  <2>1. w = [y |-> w.y, z |-> w.z, bundle |-> w.bundle]
    BY <1>1, <1>6 DEF ViewType
  <2> QED  BY <1>3, <1>4, <1>5, <1>6, <2>1 DEF ViewType
<1> QED  BY <1>6, <1>7 DEF w, Won

\* cascade_remove cuts the bundle before the first item lost.
LEMMA CascadeFacts ==
    ASSUME NEW n, NEW v \in ViewType
    PROVE  LET w == CascadeRemove(n, v)
           IN  /\ w \in ViewType /\ w.y = v.y /\ w.z = v.z
               /\ LostAt(n, v) = {} => w = v
               /\ LostAt(n, v) # {} => Len(w.bundle) + 1 \in LostAt(n, v)
               /\ Len(w.bundle) <= Len(v.bundle)
               /\ \A k \in DOMAIN w.bundle : /\ k \in DOMAIN v.bundle
                                             /\ w.bundle[k] = v.bundle[k]
                                             /\ v.z[v.bundle[k]] = n
               /\ Range(w.bundle) \subseteq Range(v.bundle)
               /\ \A i \in Range(w.bundle) : v.z[i] = n
               /\ IsInjective(v.bundle) => IsInjective(w.bundle)
<1> DEFINE w == CascadeRemove(n, v)
           L == LostAt(n, v)
<1>1. v.bundle \in Seq(Item) /\ DOMAIN v.bundle = 1..Len(v.bundle) /\ Len(v.bundle) \in Nat
  BY DEF ViewType
<1>2. /\ L \subseteq DOMAIN v.bundle
      /\ \A k \in DOMAIN v.bundle : k \notin L => v.z[v.bundle[k]] = n
  BY DEF LostAt
<1>3. /\ L = {} => w = v
      /\ L # {} => w = [v EXCEPT !.bundle = SubSeq(@, 1, Min(L) - 1)]
  BY DEF CascadeRemove
<1> HIDE DEF w, L
<1>4. /\ w \in ViewType /\ w.y = v.y /\ w.z = v.z
      /\ L # {} => Len(w.bundle) + 1 \in L
      /\ Len(w.bundle) <= Len(v.bundle)
      /\ \A k \in 1..Len(w.bundle) : /\ k \in DOMAIN v.bundle /\ w.bundle[k] = v.bundle[k]
                                     /\ v.z[v.bundle[k]] = n
  <2>1. CASE L = {}
    BY <1>1, <1>2, <1>3, <2>1
  <2>2. CASE L # {}
    <3>1. L \subseteq Nat
      BY <1>1, <1>2
    <3> DEFINE m == Min(L)
    <3>2. m \in L /\ \A k \in L : m <= k
      <4>1. \E x \in L : \A k \in L : x =< k
        BY <2>2, <3>1, LeastNatural
      <4> QED  BY <4>1 DEF Min
    <3>3. w = [v EXCEPT !.bundle = SubSeq(v.bundle, 1, m - 1)]
      BY <1>3, <2>2
    <3> HIDE DEF m
    <3>4. m \in 1..Len(v.bundle)
      BY <1>1, <1>2, <3>2
    <3> DEFINE s == SubSeq(v.bundle, 1, m - 1)
    <3>5. /\ s \in Seq(Item) /\ Len(s) = m - 1
          /\ \A k \in 1..(m - 1) : s[k] = v.bundle[k]
      <4>1. \A k \in 1..(m - 1) : v.bundle[k] \in Item
        BY <1>1, <3>4
      <4>2. 1 \in Int /\ m - 1 \in Int
        BY <3>4
      <4>3. /\ s \in Seq(Item) /\ Len(s) = (IF 1 <= m - 1 THEN m - 1 - 1 + 1 ELSE 0)
            /\ \A k \in 1..(m - 1 - 1 + 1) : s[k] = v.bundle[1 + k - 1]
        BY <4>1, <4>2, SubSeqProperties
      <4> HIDE DEF s
      <4> QED  BY <3>4, <4>3
    <3>6. w.bundle = s /\ w.y = v.y /\ w.z = v.z
      BY <3>3 DEF ViewType
    <3>7. w \in ViewType
      <4>1. w = [y |-> v.y, z |-> v.z, bundle |-> s]
        BY <3>3 DEF ViewType
      <4> HIDE DEF s
      <4> QED  BY <3>5, <4>1 DEF ViewType
    <3> HIDE DEF s
    <3>8. \A k \in 1..(m - 1) : k \in DOMAIN v.bundle /\ k \notin L
      BY <1>1, <3>2, <3>4
    <3>9. Len(w.bundle) = m - 1 /\ \A k \in 1..(m - 1) : w.bundle[k] = v.bundle[k]
      BY <3>5, <3>6
    <3>10. Len(w.bundle) + 1 = m /\ m - 1 <= Len(v.bundle)
      BY <3>4, <3>9
    <3> QED  BY <1>2, <3>2, <3>6, <3>7, <3>8, <3>9, <3>10
  <2> QED  BY <2>1, <2>2
<1>5. DOMAIN w.bundle = 1..Len(w.bundle)
  BY <1>4 DEF ViewType
<1>6. \A k \in DOMAIN w.bundle : /\ k \in DOMAIN v.bundle /\ w.bundle[k] = v.bundle[k]
                                 /\ v.z[v.bundle[k]] = n
  BY <1>4, <1>5
<1>7. Range(w.bundle) \subseteq Range(v.bundle) /\ \A i \in Range(w.bundle) : v.z[i] = n
  BY <1>6 DEF Range
<1>8. IsInjective(v.bundle) => IsInjective(w.bundle)
  BY <1>6 DEF IsInjective
<1> QED  BY <1>3, <1>4, <1>6, <1>7, <1>8 DEF w, L

LEMMA ComputeBidType ==
    ASSUME NEW items \in SUBSET Item, NEW v \in ViewType
    PROVE  ComputeBid(items, v) \in ClaimBid
BY DEF ViewType, ComputeBid, ClaimBid, Claims, Assignment

-----------------------------------------------------------------------------
(***************************************************************************)
(* A whole update: consensus, release and a new bundle.  Of every item the *)
(* agent keeps its belief, takes over the bid's, or undercuts its belief   *)
(* with a claim of its own.                                                *)
(***************************************************************************)
Updated(n, c, items, v, bid) ==
    BuildBundle(n, c, items, CascadeRemove(n, Consensus(items, v, bid)))

Keeps(w, v, i) == w.y[i] = v.y[i] /\ w.z[i] = v.z[i]

TakesOver(items, w, v, bid, i) ==
    /\ i \in Adopted(items, v, bid)
    /\ w.y[i] = bid.y[i] /\ w.z[i] = bid.z[i]

Undercuts(n, c, items, w, v, i) ==
    /\ i \in items /\ c[i] < Infinity /\ c[i] < v.y[i]
    /\ w.y[i] = c[i] /\ w.z[i] = n

\* No belief gets dearer in consensus.
LEMMA HeardIsCheaper ==
    ASSUME NEW items \in SUBSET Item, NEW v \in ViewType, NEW bid \in ClaimBid
    PROVE  \A i \in Item : /\ Consensus(items, v, bid).y[i] <= v.y[i]
                           /\ v.y[i] \in Int /\ Consensus(items, v, bid).y[i] \in Int
<1> TAKE i \in Item
<1>1. v.y[i] \in CostValue \cup {Infinity} /\ bid.y[i] \in CostValue \cup {Infinity, NoBid}
  BY DEF ViewType, Claims, ClaimBid
<1>2. v.y[i] \in Int /\ (bid.y[i] # NoBid => bid.y[i] \in Int)
  <2>1. \A x \in CostValue \cup {Infinity} : x \in Int
    BY CostAssumption
  <2> QED  BY <1>1, <2>1
<1>3. i \in Adopted(items, v, bid) => bid.y[i] # NoBid /\ bid.y[i] <= v.y[i]
  BY <1>2 DEF Adopted, Beats
<1>4. Consensus(items, v, bid).y[i] = IF i \in Adopted(items, v, bid) THEN bid.y[i] ELSE v.y[i]
  BY ConsensusFacts
<1> QED  BY <1>2, <1>3, <1>4

LEMMA UpdatedBelief ==
    ASSUME NEW n \in Agent, NEW c \in CostVector, NEW items, Priceable(c, items),
           NEW v \in ViewType, NEW bid \in ClaimBid
    PROVE  LET w == Updated(n, c, items, v, bid)
           IN  /\ w \in ViewType
               /\ Range(w.bundle) \subseteq Range(v.bundle) \cup items
               /\ \A i \in Item : \/ Keeps(w, v, i)
                                  \/ TakesOver(items, w, v, bid, i)
                                  \/ Undercuts(n, c, items, w, v, i)
<1> DEFINE h == Consensus(items, v, bid)
           r == CascadeRemove(n, h)
           T == Taken(n, c, items, r)
           w == Updated(n, c, items, v, bid)
           Won == Adopted(items, v, bid)
<1>1. /\ h \in ViewType /\ h.bundle = v.bundle
      /\ \A i \in Item : /\ h.y[i] = IF i \in Won THEN bid.y[i] ELSE v.y[i]
                         /\ h.z[i] = IF i \in Won THEN bid.z[i] ELSE v.z[i]
  BY ConsensusFacts DEF Priceable
<1>2. \A i \in Item : h.y[i] <= v.y[i] /\ v.y[i] \in Int /\ h.y[i] \in Int
  BY HeardIsCheaper DEF Priceable
<1> HIDE DEF h
<1>3. /\ r \in ViewType /\ r.y = h.y /\ r.z = h.z /\ Range(r.bundle) \subseteq Range(h.bundle)
  BY <1>1, CascadeFacts
<1>4. w = BuildBundle(n, c, items, r)
  BY DEF Updated, h
<1>5. \A i \in T : /\ i \in items /\ i \in Item /\ c[i] \in Int /\ c[i] < Infinity
                   /\ r.z[i] = n \/ c[i] < r.y[i]
  <2>1. \A i \in T : i \in items /\ c[i] < Infinity /\ (r.z[i] = n \/ c[i] < r.y[i])
    BY DEF Taken, Claimable
  <2> QED  BY <2>1, SoonerOrder DEF Priceable
<1> HIDE DEF r
<1>6. /\ w \in ViewType
      /\ \A i \in Item : /\ w.y[i] = IF i \in T /\ r.z[i] # n THEN c[i] ELSE r.y[i]
                         /\ w.z[i] = IF i \in T THEN n ELSE r.z[i]
      /\ Range(w.bundle) = Range(r.bundle) \cup T
  BY <1>3, <1>4, BuildBundleFacts
<1> HIDE DEF T, w
<1>7. ASSUME NEW i \in Item
      PROVE  \/ Keeps(w, v, i)
             \/ TakesOver(items, w, v, bid, i)
             \/ Undercuts(n, c, items, w, v, i)
  <2>1. CASE i \in T /\ r.z[i] # n
    <3>1. c[i] < v.y[i]
      BY <1>2, <1>3, <1>5, <2>1
    <3> QED  BY <1>5, <1>6, <2>1, <3>1 DEF Undercuts
  <2>2. CASE ~ (i \in T /\ r.z[i] # n)
    <3>1. w.y[i] = h.y[i] /\ w.z[i] = h.z[i]
      BY <1>3, <1>6, <2>2
    <3>2. CASE i \in Won
      BY <1>1, <3>1, <3>2 DEF TakesOver
    <3>3. CASE i \notin Won
      BY <1>1, <3>1, <3>3 DEF Keeps
    <3> QED  BY <3>2, <3>3
  <2> QED  BY <2>1, <2>2
<1>8. Range(w.bundle) \subseteq Range(v.bundle) \cup items
  BY <1>1, <1>3, <1>5, <1>6
<1> QED  BY <1>6, <1>7, <1>8 DEF w

\* An agent claims only below what consensus left: the bid counts for what it
\* is, whatever the agent then does.
LEMMA UpdatedUndercuts ==
    ASSUME NEW n \in Agent, NEW c \in CostVector, NEW items, Priceable(c, items),
           NEW v \in ViewType, NEW bid \in ClaimBid
    PROVE  LET w == Updated(n, c, items, v, bid)
               h == Consensus(items, v, bid)
           IN  \A i \in Item : w.y[i] < h.y[i] \/ (w.y[i] = h.y[i] /\ w.z[i] = h.z[i])
<1> DEFINE h == Consensus(items, v, bid)
           r == CascadeRemove(n, h)
           T == Taken(n, c, items, r)
           w == Updated(n, c, items, v, bid)
<1>1. h \in ViewType
  BY ConsensusFacts DEF Priceable
<1> HIDE DEF h
<1>2. r \in ViewType /\ r.y = h.y /\ r.z = h.z
  BY <1>1, CascadeFacts
<1>3. w = BuildBundle(n, c, items, r)
  BY DEF Updated, h
<1>4. \A i \in T : r.z[i] = n \/ c[i] < r.y[i]
  BY DEF Taken, Claimable
<1> HIDE DEF r
<1>5. \A i \in Item : /\ w.y[i] = IF i \in T /\ r.z[i] # n THEN c[i] ELSE r.y[i]
                      /\ w.z[i] = IF i \in T THEN n ELSE r.z[i]
  BY <1>2, <1>3, BuildBundleFacts
<1> HIDE DEF T, w
<1> QED  BY <1>2, <1>4, <1>5 DEF w, h

-----------------------------------------------------------------------------
(***************************************************************************)
(* What an agent in one auction always holds.  Its bundle is exactly what  *)
(* it believes it wins, at its own costs; and an item it could win but     *)
(* does not hold comes after everything in a bundle that is full.          *)
(***************************************************************************)
OwnPrices(n, c, items, v) ==
    /\ \A i \in Item : v.y[i] <= Infinity
    /\ \A i \in items : v.z[i] = n => v.y[i] = c[i] /\ c[i] < Infinity

Holds(n, items, v) ==
    /\ Range(v.bundle) = {i \in items : v.z[i] = n}
    /\ IsInjective(v.bundle)
    /\ Len(v.bundle) <= MaxBundle(n)

Content(n, c, items, v) ==
    \A i \in items : (v.z[i] # n /\ c[i] < v.y[i]) =>
        /\ Len(v.bundle) = MaxBundle(n)
        /\ \A j \in Range(v.bundle) : Sooner(c, j, i)

\* The elements of a sequence without repetition are as many as its length.
LEMMA InjectiveLength ==
    ASSUME NEW S, NEW s \in Seq(S), IsInjective(s)
    PROVE  IsFiniteSet(Range(s)) /\ Cardinality(Range(s)) = Len(s)
<1>1. DOMAIN s = 1..Len(s) /\ Len(s) \in Nat
  OBVIOUS
<1>2. s \in Bijection(1..Len(s), Range(s))
  <2>1. s \in [1..Len(s) -> Range(s)]
    BY <1>1 DEF Range
  <2>2. \A t \in Range(s) : \E k \in 1..Len(s) : s[k] = t
    BY <1>1 DEF Range
  <2> QED  BY <2>1, <2>2 DEF Bijection, Injection, Surjection
<1>3. IsFiniteSet(1..Len(s)) /\ Cardinality(1..Len(s)) = Len(s)
  BY <1>1, FS_Interval
<1> QED  BY <1>2, <1>3, FS_Bijection DEF ExistsBijection

\* The facts both lemmas below need: what a step of update goes through.  An
\* item the agent could take and did not hold was one it envied.
LEMMA UpdateSteps ==
    ASSUME NEW n \in Agent, NEW c \in CostVector, NEW items, Priceable(c, items),
           NEW v \in ViewType, NEW bid \in ClaimBid,
           OwnPrices(n, c, items, v), Holds(n, items, v), Content(n, c, items, v),
           \A i \in Adopted(items, v, bid) : bid.z[i] # n
    PROVE  LET Won == Adopted(items, v, bid)
               h   == Consensus(items, v, bid)
               r   == CascadeRemove(n, h)
               T   == Taken(n, c, items, r)
               w   == Updated(n, c, items, v, bid)
           IN  /\ r.bundle \in Seq(Item) /\ r.y = h.y /\ r.z = h.z
               /\ Len(r.bundle) <= MaxBundle(n) /\ IsInjective(r.bundle)
               /\ Range(r.bundle) \subseteq {i \in items : h.z[i] = n}
               /\ Range(r.bundle) \subseteq Range(v.bundle)
               /\ \A i \in items : h.z[i] = n <=> v.z[i] = n /\ i \notin Won
               /\ \A i \in items : h.z[i] # n /\ c[i] < h.y[i] =>
                     /\ c[i] < Infinity
                     /\ Len(v.bundle) = MaxBundle(n)
                     /\ \A j \in Range(v.bundle) : Sooner(c, j, i)
               /\ \A i \in items : h.z[i] = n => c[i] < Infinity
               /\ Range(w.bundle) = Range(r.bundle) \cup T /\ T \cap Range(r.bundle) = {}
               /\ Len(w.bundle) = Len(r.bundle) + Cardinality(T)
               /\ IsInjective(w.bundle)
               /\ \A i \in Item : /\ w.y[i] = IF i \in T /\ h.z[i] # n THEN c[i] ELSE h.y[i]
                                  /\ w.z[i] = IF i \in T THEN n ELSE h.z[i]
<1> DEFINE Won == Adopted(items, v, bid)
           h == Consensus(items, v, bid)
           r == CascadeRemove(n, h)
           T == Taken(n, c, items, r)
           w == Updated(n, c, items, v, bid)
<1>1. /\ h \in ViewType /\ h.bundle = v.bundle /\ Won \subseteq items
      /\ \A i \in Item : /\ h.y[i] = IF i \in Won THEN bid.y[i] ELSE v.y[i]
                         /\ h.z[i] = IF i \in Won THEN bid.z[i] ELSE v.z[i]
  BY ConsensusFacts DEF Priceable, Adopted
<1>2. \A i \in items : i \in Item /\ h.y[i] <= v.y[i] /\ v.y[i] \in Int /\ h.y[i] \in Int /\ c[i] \in Int
  BY HeardIsCheaper, SoonerOrder DEF Priceable
<1>3. w = BuildBundle(n, c, items, r)
  BY DEF Updated
<1> HIDE DEF h, Won, w
<1>4. \A i \in items : h.z[i] = n <=> v.z[i] = n /\ i \notin Won
  BY <1>1, <1>2 DEF Won
<1>5. /\ r \in ViewType /\ r.y = h.y /\ r.z = h.z
      /\ Len(r.bundle) <= Len(h.bundle)
      /\ Range(r.bundle) \subseteq Range(h.bundle) /\ \A i \in Range(r.bundle) : h.z[i] = n
      /\ IsInjective(h.bundle) => IsInjective(r.bundle)
  BY <1>1, CascadeFacts
<1>6. T \cap Range(r.bundle) = {}
  BY DEF Taken, Claimable
<1> HIDE DEF r
<1>7. /\ \A i \in Item : /\ w.y[i] = IF i \in T /\ r.z[i] # n THEN c[i] ELSE r.y[i]
                         /\ w.z[i] = IF i \in T THEN n ELSE r.z[i]
      /\ Range(w.bundle) = Range(r.bundle) \cup T
      /\ Len(w.bundle) = Len(r.bundle) + Cardinality(T)
      /\ IsInjective(r.bundle) => IsInjective(w.bundle)
  BY <1>3, <1>5, BuildBundleFacts
<1> HIDE DEF T
<1>8. /\ r.bundle \in Seq(Item) /\ h.bundle \in Seq(Item)
      /\ Len(r.bundle) \in Nat /\ Len(v.bundle) \in Nat /\ MaxBundle(n) \in Nat
  BY <1>1, <1>5, MaxBundleType DEF ViewType
<1>9. Len(r.bundle) <= MaxBundle(n) /\ IsInjective(r.bundle)
  BY <1>1, <1>5, <1>8 DEF Holds
<1>10. Range(r.bundle) \subseteq {i \in items : h.z[i] = n} /\ Range(r.bundle) \subseteq Range(v.bundle)
  BY <1>1, <1>5 DEF Holds
<1>11. ASSUME NEW i \in items, h.z[i] # n, c[i] < h.y[i]
       PROVE  /\ c[i] < Infinity
              /\ Len(v.bundle) = MaxBundle(n)
              /\ \A j \in Range(v.bundle) : Sooner(c, j, i)
  <2>1. c[i] < v.y[i]
    BY <1>2, <1>11
  <2>2. v.z[i] # n
    BY <1>2, <2>1 DEF OwnPrices
  <2>3. c[i] < Infinity
    BY <1>2, <2>1, CostAssumption DEF OwnPrices
  <2> QED  BY <2>1, <2>2, <2>3 DEF Content
<1>12. \A i \in items : h.z[i] = n => c[i] < Infinity
  BY <1>4 DEF OwnPrices
<1> QED
  BY <1>4, <1>5, <1>6, <1>7, <1>8, <1>9, <1>10, <1>11, <1>12 DEF Won, h, r, T, w

\* An update that adopts no claim of this agent's own keeps it so: what was
\* released without being lost is taken back before anything else.
LEMMA UpdateHolds ==
    ASSUME NEW n \in Agent, NEW c \in CostVector, NEW items, Priceable(c, items),
           NEW v \in ViewType, NEW bid \in ClaimBid,
           OwnPrices(n, c, items, v), Holds(n, items, v), Content(n, c, items, v),
           \A i \in Adopted(items, v, bid) : bid.z[i] # n
    PROVE  LET w == Updated(n, c, items, v, bid)
           IN  Holds(n, items, w) /\ Content(n, c, items, w)
<1> DEFINE Won == Adopted(items, v, bid)
           h == Consensus(items, v, bid)
           r == CascadeRemove(n, h)
           T == Taken(n, c, items, r)
           w == Updated(n, c, items, v, bid)
<1>1. /\ r.bundle \in Seq(Item) /\ r.y = h.y /\ r.z = h.z
      /\ Len(r.bundle) <= MaxBundle(n) /\ IsInjective(r.bundle)
      /\ Range(r.bundle) \subseteq {i \in items : h.z[i] = n}
      /\ Range(r.bundle) \subseteq Range(v.bundle)
      /\ \A i \in items : h.z[i] = n <=> v.z[i] = n /\ i \notin Won
      /\ \A i \in items : h.z[i] # n /\ c[i] < h.y[i] =>
            /\ c[i] < Infinity
            /\ Len(v.bundle) = MaxBundle(n)
            /\ \A j \in Range(v.bundle) : Sooner(c, j, i)
      /\ \A i \in items : h.z[i] = n => c[i] < Infinity
      /\ Range(w.bundle) = Range(r.bundle) \cup T /\ T \cap Range(r.bundle) = {}
      /\ Len(w.bundle) = Len(r.bundle) + Cardinality(T)
      /\ IsInjective(w.bundle)
      /\ \A i \in Item : /\ w.y[i] = IF i \in T /\ h.z[i] # n THEN c[i] ELSE h.y[i]
                         /\ w.z[i] = IF i \in T THEN n ELSE h.z[i]
  BY UpdateSteps
<1> DEFINE Able == Claimable(n, c, items, r)
<1>2. \A i : i \in Able <=> /\ i \in items /\ i \notin Range(r.bundle)
                            /\ c[i] < Infinity /\ (h.z[i] = n \/ c[i] < h.y[i])
  BY <1>1 DEF Claimable
<1>3. /\ Len(r.bundle) + Cardinality(T) <= MaxBundle(n)
      /\ \A i \in Able \ T : /\ Len(r.bundle) + Cardinality(T) = MaxBundle(n)
                             /\ \A j \in T : Sooner(c, j, i)
  BY <1>1, TakenFacts
<1>4. T \subseteq Able /\ IsFiniteSet(T) /\ Able \subseteq items
  BY TakenType
<1>5. /\ Range(v.bundle) = {i \in items : v.z[i] = n}
      /\ IsInjective(v.bundle) /\ Len(v.bundle) <= MaxBundle(n)
      /\ v.bundle \in Seq(Item) /\ items \subseteq Item
  BY DEF Holds, ViewType, Priceable
<1> HIDE DEF Able, T, w, h, r, Won
<1>6. IsFiniteSet(Range(v.bundle)) /\ Cardinality(Range(v.bundle)) = Len(v.bundle)
  BY <1>5, InjectiveLength
<1>7. IsFiniteSet(Range(r.bundle)) /\ Cardinality(Range(r.bundle)) = Len(r.bundle)
  BY <1>1, InjectiveLength
<1>8. ASSUME NEW i \in items, h.z[i] = n, i \notin Range(r.bundle), i \notin T PROVE FALSE
  <2>1. i \in Able \ T /\ i \in Range(v.bundle)
    BY <1>1, <1>2, <1>5, <1>8
  <2>2. T \subseteq Range(v.bundle)
    <3> SUFFICES ASSUME NEW j \in T, j \notin Range(v.bundle) PROVE FALSE
      OBVIOUS
    <3>1. j \in items /\ h.z[j] # n /\ c[j] < h.y[j]
      BY <1>1, <1>2, <1>4, <1>5
    <3>2. Sooner(c, i, j) /\ Sooner(c, j, i)
      BY <1>1, <1>3, <2>1, <3>1
    <3> QED  BY <1>5, <3>1, <3>2, SoonerOrder
  <2> DEFINE U == Range(r.bundle) \cup T
  <2>3. Cardinality(U) = Len(r.bundle) + Cardinality(T)
    <3>1. Cardinality(Range(r.bundle) \cap T) = 0
      BY <1>1, FS_EmptySet
    <3>2. Len(r.bundle) \in Nat /\ Cardinality(T) \in Nat
      BY <1>4, <1>7, FS_CardinalityType
    <3>3. Cardinality(U) = Len(r.bundle) + Cardinality(T) - Cardinality(Range(r.bundle) \cap T)
      BY <1>4, <1>7, FS_Union
    <3> QED  BY <3>1, <3>2, <3>3
  <2>4. U \in SUBSET Range(v.bundle) /\ i \notin U
    BY <1>1, <1>8, <2>2
  <2> HIDE DEF U
  <2>5. Cardinality(U) <= Len(v.bundle) /\ Cardinality(U) # Len(v.bundle)
    BY <1>6, <2>1, <2>4, FS_Subset
  <2>6. Len(v.bundle) \in Nat /\ Cardinality(U) \in Nat /\ MaxBundle(n) \in Nat
    BY <1>5, <1>6, <2>4, FS_Subset, FS_CardinalityType, MaxBundleType
  <2> QED  BY <1>3, <1>5, <2>1, <2>3, <2>5, <2>6
<1>9. Holds(n, items, w)
  <2>1. \A i \in items : w.z[i] = n <=> i \in Range(r.bundle) \cup T
    BY <1>1, <1>5, <1>8
  <2>2. Range(w.bundle) = {i \in items : w.z[i] = n}
    BY <1>1, <1>4, <2>1
  <2> QED  BY <1>1, <1>3, <2>2 DEF Holds
<1>10. Content(n, c, items, w)
  <2> SUFFICES ASSUME NEW i \in items, w.z[i] # n, c[i] < w.y[i]
               PROVE  /\ Len(w.bundle) = MaxBundle(n)
                      /\ \A j \in Range(w.bundle) : Sooner(c, j, i)
    BY DEF Content
  <2>1. i \notin T /\ h.z[i] # n /\ c[i] < h.y[i]
    BY <1>1, <1>5
  <2>2. i \in Able \ T /\ \A j \in Range(v.bundle) : Sooner(c, j, i)
    BY <1>1, <1>2, <2>1
  <2> QED  BY <1>1, <1>3, <2>2
<1> QED  BY <1>9, <1>10 DEF w

\* The view changes exactly when the bid beat it somewhere or the bundle lost
\* an item: with neither, nothing can be claimed that was not before.
LEMMA UpdateChanges ==
    ASSUME NEW n \in Agent, NEW c \in CostVector, NEW items, Priceable(c, items),
           NEW v \in ViewType, NEW bid \in ClaimBid,
           OwnPrices(n, c, items, v), Holds(n, items, v), Content(n, c, items, v),
           \A i \in Adopted(items, v, bid) : bid.z[i] # n
    PROVE  LET w == Updated(n, c, items, v, bid)
           IN  (w.y # v.y \/ w.z # v.z) <=>
                  (\/ Adopted(items, v, bid) # {}
                   \/ LostAt(n, Consensus(items, v, bid)) # {})
<1> DEFINE Won == Adopted(items, v, bid)
           h == Consensus(items, v, bid)
           r == CascadeRemove(n, h)
           T == Taken(n, c, items, r)
           w == Updated(n, c, items, v, bid)
           L == LostAt(n, h)
<1>1. /\ r.bundle \in Seq(Item) /\ r.y = h.y /\ r.z = h.z
      /\ Len(r.bundle) <= MaxBundle(n)
      /\ \A i \in items : h.z[i] = n <=> v.z[i] = n /\ i \notin Won
      /\ \A i \in items : h.z[i] # n /\ c[i] < h.y[i] =>
            /\ c[i] < Infinity
            /\ Len(v.bundle) = MaxBundle(n)
            /\ \A j \in Range(v.bundle) : Sooner(c, j, i)
      /\ \A i \in Item : /\ w.y[i] = IF i \in T /\ h.z[i] # n THEN c[i] ELSE h.y[i]
                         /\ w.z[i] = IF i \in T THEN n ELSE h.z[i]
  BY UpdateSteps
<1>2. /\ h \in ViewType /\ h.bundle = v.bundle
      /\ \A i \in Item : /\ h.y[i] = IF i \in Won THEN bid.y[i] ELSE v.y[i]
                         /\ h.z[i] = IF i \in Won THEN bid.z[i] ELSE v.z[i]
  BY ConsensusFacts DEF Priceable
<1>3. \A i \in items : i \in Item /\ h.y[i] <= v.y[i] /\ v.y[i] \in Int /\ h.y[i] \in Int /\ c[i] \in Int
  BY HeardIsCheaper, SoonerOrder DEF Priceable
<1>4. Won \subseteq items /\ \A i \in Won : Beats(bid, v, i)
  BY DEF Adopted
<1>5. L = {} => r = h
  BY <1>2, CascadeFacts
<1>6. /\ Len(r.bundle) + Cardinality(T) <= MaxBundle(n) /\ IsFiniteSet(T)
      /\ \A i \in T : /\ i \in items /\ i \notin Range(r.bundle)
                      /\ h.z[i] = n \/ c[i] < h.y[i]
  <2>1. Len(r.bundle) + Cardinality(T) <= MaxBundle(n)
    BY <1>1, TakenFacts
  <2>2. IsFiniteSet(T)
    BY TakenType
  <2>3. \A i \in T : i \in items /\ i \notin Range(r.bundle) /\ (r.z[i] = n \/ c[i] < r.y[i])
    BY DEF Taken, Claimable
  <2> QED  BY <1>1, <2>1, <2>2, <2>3
<1>7. w \in ViewType
  BY UpdatedBelief
<1>8. \A k \in L : k \in DOMAIN v.bundle /\ h.z[v.bundle[k]] # n
  BY <1>2 DEF LostAt
<1> HIDE DEF h, r, T, w, Won, L
<1>9. ASSUME Won = {}, L = {} PROVE w.y = v.y /\ w.z = v.z
  <2>1. Range(r.bundle) = {i \in items : h.z[i] = n} /\ Len(r.bundle) = Len(v.bundle)
    BY <1>1, <1>2, <1>5, <1>9 DEF Holds
  <2>2. T = {}
    <3> SUFFICES ASSUME NEW i \in T PROVE FALSE
      OBVIOUS
    <3>1. h.z[i] # n /\ c[i] < h.y[i]
      BY <1>6, <2>1
    <3>2. Len(r.bundle) = MaxBundle(n)
      BY <1>1, <1>6, <2>1, <3>1
    <3>3. Cardinality(T) # 0 /\ Cardinality(T) \in Nat /\ MaxBundle(n) \in Nat
      BY <1>6, FS_EmptySet, FS_CardinalityType, MaxBundleType
    <3> QED  BY <1>6, <3>2, <3>3
  <2>3. \A i \in Item : w.y[i] = v.y[i] /\ w.z[i] = v.z[i]
    BY <1>1, <1>2, <1>9, <2>2
  <2> QED  BY <1>7, <2>3 DEF ViewType, Claims, Assignment
<1>10. ASSUME Won # {} PROVE w.y # v.y \/ w.z # v.z
  <2>1. PICK i \in Won : TRUE
    BY <1>10
  <2>2. i \in items /\ i \in Item /\ h.z[i] # n
    BY <1>1, <1>3, <1>4, <2>1
  <2>3. CASE i \in T
    <3>1. w.y[i] < v.y[i]
      BY <1>1, <1>3, <1>6, <2>2, <2>3
    <3> QED  BY <1>3, <2>2, <3>1
  <2>4. CASE i \notin T
    <3>1. w.y[i] = bid.y[i] /\ w.z[i] = bid.z[i]
      BY <1>1, <1>2, <2>1, <2>2, <2>4
    <3>2. v.z[i] \in Int /\ bid.z[i] \in Int
      <4>1. \A x \in Agent \cup {NoAgent} : x \in Int
        BY AgentAssumption DEF NoAgent
      <4> QED  BY <2>2, <4>1 DEF ViewType, ClaimBid, Assignment
    <3>3. v.y[i] \in Int /\ bid.y[i] \in Int
      BY <1>2, <1>3, <2>1, <2>2
    <3>4. bid.y[i] # v.y[i] \/ bid.z[i] # v.z[i]
      BY <1>4, <2>1, <3>2, <3>3 DEF Beats
    <3> QED  BY <3>1, <3>4
  <2> QED  BY <2>3, <2>4
<1>11. ASSUME L # {} PROVE Won # {}
  <2>1. PICK k \in DOMAIN v.bundle : h.z[v.bundle[k]] # n
    BY <1>8, <1>11
  <2>2. v.bundle[k] \in Range(v.bundle)
    BY DEF Range
  <2>3. v.bundle[k] \in items /\ v.z[v.bundle[k]] = n
    BY <2>2 DEF Holds
  <2> QED  BY <1>1, <2>1, <2>3
<1> QED  BY <1>9, <1>10, <1>11 DEF Won, h, w, L

\* The first bundle, when the agent holds nothing and knows of no claim.
LEMMA FirstHolds ==
    ASSUME NEW n \in Agent, NEW c \in CostVector, NEW items, Priceable(c, items),
           NEW v \in ViewType, v.bundle = <<>>,
           \A i \in Item : v.y[i] = Infinity /\ v.z[i] = NoAgent
    PROVE  LET w == BuildBundle(n, c, items, v)
           IN  Holds(n, items, w) /\ Content(n, c, items, w)
<1> DEFINE T == Taken(n, c, items, v)
           w == BuildBundle(n, c, items, v)
           Able == Claimable(n, c, items, v)
<1>1. /\ \A i \in Item : /\ w.y[i] = IF i \in T /\ v.z[i] # n THEN c[i] ELSE v.y[i]
                         /\ w.z[i] = IF i \in T THEN n ELSE v.z[i]
      /\ Range(w.bundle) = Range(v.bundle) \cup T
      /\ Len(w.bundle) = Len(v.bundle) + Cardinality(T)
      /\ IsInjective(v.bundle) => IsInjective(w.bundle)
  BY BuildBundleFacts
<1>2. v.bundle \in Seq(Item) /\ Len(v.bundle) = 0 /\ Range(v.bundle) = {} /\ IsInjective(v.bundle)
  BY DEF Range, IsInjective
<1>3. Len(v.bundle) <= MaxBundle(n) /\ n # NoAgent
  BY <1>2, MaxBundleType, AgentAssumption
<1>4. /\ Len(v.bundle) + Cardinality(T) <= MaxBundle(n)
      /\ \A i \in Able \ T : /\ Len(v.bundle) + Cardinality(T) = MaxBundle(n)
                             /\ \A j \in T : Sooner(c, j, i)
  BY <1>2, <1>3, TakenFacts
<1>5. T \subseteq Able /\ \A i : i \in Able <=> i \in items /\ c[i] < Infinity
  <2>1. \A i : i \in Able <=> i \in items /\ c[i] < Infinity
    BY <1>2, <1>3 DEF Claimable, Priceable
  <2> HIDE DEF Able
  <2> QED  BY <2>1, TakenType DEF Able
<1> HIDE DEF T, w, Able
<1>6. items \subseteq Item
  BY DEF Priceable
<1>7. Holds(n, items, w)
  BY <1>1, <1>2, <1>3, <1>4, <1>5, <1>6 DEF Holds
<1>8. Content(n, c, items, w)
  BY <1>1, <1>2, <1>3, <1>4, <1>5, <1>6 DEF Content
<1> QED  BY <1>7, <1>8 DEF w

-----------------------------------------------------------------------------
(***************************************************************************)
(* The loop of build_bundle turn by turn.  A recursive function is given   *)
(* by exhibiting a function that satisfies the recursion; any other that   *)
(* does would have a least argument at which the two differ.               *)
(***************************************************************************)
LEMMA ListedFacts ==
    ASSUME NEW S \in SUBSET Item, IsFiniteSet(S)
    PROVE  /\ Cardinality(S) \in Nat
           /\ Listed(S) \in [1..Cardinality(S) -> S] /\ Range(Listed(S)) = S
           /\ \A j, k \in 1..Cardinality(S) : j < k => Listed(S)[j] < Listed(S)[k]
<1> DEFINE N == Cardinality(S)
           Sorted(q) == \A j, k \in DOMAIN q : j < k => q[j] < q[k]
           free == [i \in Item |-> NoBid]
<1>1. N \in Nat
  BY FS_CardinalityType
<1>2. \E q \in [1..N -> S] : Sorted(q)
  <2>1. free \in CostVector
    BY DEF CostVector
  <2>2. \A i, j \in Item : Sooner(free, i, j) <=> i < j
    BY DEF Sooner, NoBid
  <2> HIDE DEF free
  <2> DEFINE q == InOrder(free, S)
  <2>3. /\ q \in Seq(Item) /\ Len(q) = N /\ Range(q) = S
        /\ \A j, k \in DOMAIN q : j < k => Sooner(free, q[j], q[k])
    BY <2>1, InOrderFacts
  <2> HIDE DEF q
  <2>4. q \in [1..N -> S]
    BY <2>3 DEF Range
  <2>5. Sorted(q)
    BY <2>2, <2>3, <2>4
  <2> QED  BY <2>4, <2>5
<1> DEFINE q == Listed(S)
<1>3. q \in [1..N -> S] /\ Sorted(q)
  <2>1. q = CHOOSE r \in [1..N -> S] : Sorted(r)
    BY DEF Listed
  <2> HIDE DEF q, Sorted
  <2> QED  BY <1>2, <2>1
<1> HIDE DEF q
<1>4. q \in Surjection(1..N, S)
  <2>1. \A j, k \in 1..N : q[j] = q[k] => j = k
    <3>1. \A j \in 1..N : q[j] \in S
      BY <1>3
    <3>2. \A i \in S : i \in Int
      BY ItemAssumption
    <3> QED  BY <1>1, <1>3, <3>1, <3>2
  <2>2. q \in Injection(1..N, S)
    BY <1>3, <2>1 DEF Injection, IsInjective
  <2>3. Cardinality(1..N) = Cardinality(S)
    BY <1>1, FS_Interval
  <2> QED  BY <2>2, <2>3, FS_Injection
<1>5. Range(q) = S
  BY <1>3, <1>4 DEF Range, Surjection
<1> QED  BY <1>1, <1>3, <1>5 DEF q

\* The least of a set of items in the order of the loop.
First(c, S) == InOrder(c, S)[1]

LEMMA FirstFacts ==
    ASSUME NEW c \in CostVector, NEW S \in SUBSET Item, IsFiniteSet(S), S # {}
    PROVE  /\ First(c, S) \in S
           /\ \A i \in S : i # First(c, S) => Sooner(c, First(c, S), i)
           /\ \A i \in S : (\A j \in S : j # i => Sooner(c, i, j)) => i = First(c, S)
<1> DEFINE q == InOrder(c, S)
<1>1. /\ q \in Seq(Item) /\ Range(q) = S /\ DOMAIN q = 1..Len(q) /\ Len(q) \in Nat
      /\ \A j, k \in DOMAIN q : j < k => Sooner(c, q[j], q[k])
  BY InOrderFacts
<1> HIDE DEF q
<1>2. 1 \in DOMAIN q
  BY <1>1 DEF Range
<1>3. q[1] \in S
  BY <1>1, <1>2 DEF Range
<1>4. ASSUME NEW i \in S, i # q[1] PROVE Sooner(c, q[1], i)
  <2>1. PICK k \in DOMAIN q : q[k] = i
    BY <1>1 DEF Range
  <2> QED  BY <1>1, <1>2, <1>4, <2>1
<1>5. ASSUME NEW i \in S, \A j \in S : j # i => Sooner(c, i, j), i # q[1] PROVE FALSE
  BY <1>3, <1>4, <1>5, SoonerOrder
<1> QED  BY <1>3, <1>4, <1>5 DEF First, q

\* What the scan of the list finds: the first claimable item, in the order of
\* cost and list.
LEMMA BestTaskFacts ==
    ASSUME NEW n \in Agent, NEW c \in CostVector, NEW items, Priceable(c, items),
           NEW v
    PROVE  BestTask(n, c, items, v) =
               IF Claimable(n, c, items, v) = {} THEN NoItem
               ELSE First(c, Claimable(n, c, items, v))
<1> DEFINE N == Cardinality(items)
           list == Listed(items)
           Able == Claimable(n, c, items, v)
           Seen(k) == {i \in Able : \E j \in 1..k : list[j] = i}
           Found(k) == IF Seen(k) = {} THEN NoItem ELSE First(c, Seen(k))
           Rec(f) == [k \in 0..N |->
               IF k = 0 THEN NoItem
               ELSE IF Better(n, c, v, f[k - 1], list[k]) THEN list[k] ELSE f[k - 1]]
           scan == CHOOSE f : f = Rec(f)
<1>1. /\ items \in SUBSET Item /\ IsFiniteSet(items) /\ N \in Nat
      /\ list \in [1..N -> items] /\ Range(list) = items
      /\ \A j, k \in 1..N : j < k => list[j] < list[k]
  BY ListedFacts DEF Priceable
<1>2. /\ Able \in SUBSET items
      /\ \A i \in items : i \in Int /\ i # NoItem /\ c[i] \in Int /\ i \in Item
      /\ \A i \in items : i \in Able <=> /\ i \notin Range(v.bundle) /\ c[i] < Infinity
                                         /\ v.z[i] = n \/ c[i] < v.y[i]
  <2>1. \A i \in items : i \in Item /\ c[i] \in CostValue
    BY TakenType
  <2>2. \A i \in items : i \in Int /\ i # NoItem
    <3>1. \A i \in Item : i \in Int /\ i # NoItem
      BY ItemAssumption DEF NoItem
    <3> QED  BY <2>1, <3>1
  <2>5. \A i \in items : c[i] \in Int
    <3>1. \A x \in CostValue : x \in Int
      BY CostAssumption
    <3> QED  BY <2>1, <3>1
  <2>3. Able \in SUBSET items
    BY DEF Claimable
  <2>4. \A i \in items : i \in Able <=> /\ i \notin Range(v.bundle) /\ c[i] < Infinity
                                        /\ v.z[i] = n \/ c[i] < v.y[i]
    BY DEF Claimable
  <2> QED  BY <2>1, <2>2, <2>3, <2>4, <2>5
<1>3. BestTask(n, c, items, v) = scan[N]
  BY DEF BestTask
<1> HIDE DEF list, Able, N
<1>4. /\ Seen(0) = {} /\ Seen(N) = Able
      /\ \A k \in 0..N : Seen(k) \in SUBSET Item /\ IsFiniteSet(Seen(k))
  <2>1. Seen(0) = {}
    OBVIOUS
  <2>2. Seen(N) = Able
    BY <1>1, <1>2 DEF Range
  <2>3. \A k \in 0..N : Seen(k) \in SUBSET items
    BY <1>2
  <2> HIDE DEF Seen
  <2> QED  BY <1>1, <2>1, <2>2, <2>3, FS_Subset
<1>5. ASSUME NEW k \in 1..N
      PROVE  Found(k) = IF Better(n, c, v, Found(k - 1), list[k]) THEN list[k]
                        ELSE Found(k - 1)
  <2> DEFINE i == list[k]
             S == Seen(k - 1)
  <2>1. /\ i \in items /\ k - 1 \in 0..N /\ k \in 0..N
        /\ \A j \in S : j < i /\ j \in items
    BY <1>1, <1>2
  <2>2. Seen(k) = IF i \in Able THEN S \cup {i} ELSE S
    <3>1. 1..k = (1..(k - 1)) \cup {k}
      BY <1>1
    <3> QED  BY <3>1
  <2>3. S \in SUBSET Item /\ IsFiniteSet(S) /\ Seen(k) \in SUBSET Item /\ IsFiniteSet(Seen(k))
    BY <1>4, <2>1
  <2> HIDE DEF i, Seen, S
  <2>4. CASE i \notin Able
    <3>1. ~ Better(n, c, v, Found(k - 1), i)
      <4>1. CASE S = {}
        BY <1>2, <2>1, <2>4, <4>1 DEF Better, S
      <4>2. CASE S # {}
        <5>1. Found(k - 1) \in S /\ Found(k - 1) # NoItem
          BY <1>2, <2>1, <2>3, <4>2, FirstFacts DEF S
        <5>2. c[Found(k - 1)] < Infinity
          BY <1>2, <5>1 DEF S, Seen
        <5>3. c[Found(k - 1)] \in Int /\ Infinity \in Int /\ c[i] \in Int
          BY <1>2, <2>1, <5>1, CostAssumption
        <5> HIDE DEF Found
        <5> QED  BY <1>2, <2>1, <2>4, <5>1, <5>2, <5>3 DEF Better
      <4> QED  BY <4>1, <4>2
    <3>2. Seen(k) = Seen(k - 1)
      BY <2>2, <2>4 DEF S
    <3> QED  BY <3>1, <3>2 DEF i
  <2>5. CASE i \in Able /\ S = {}
    <3>1. Found(k - 1) = NoItem /\ Seen(k) = {i}
      BY <2>2, <2>5 DEF S
    <3>2. Found(k) = i
      BY <2>3, <3>1, FirstFacts
    <3>3. Better(n, c, v, NoItem, i)
      BY <1>2, <2>1, <2>5 DEF Better
    <3> HIDE DEF Found
    <3> QED  BY <3>1, <3>2, <3>3 DEF i
  <2>6. CASE i \in Able /\ S # {}
    <3> DEFINE b == Found(k - 1)
    <3>1. /\ b = First(c, S) /\ b \in S /\ b \in items /\ b < i /\ b # NoItem /\ b \in Item
          /\ \A j \in S : j # b => Sooner(c, b, j)
      BY <1>2, <2>1, <2>3, <2>6, FirstFacts DEF S
    <3>2. Seen(k) = S \cup {i} /\ Found(k) = First(c, S \cup {i})
      BY <2>2, <2>6
    <3> HIDE DEF b, Found
    <3>3. Better(n, c, v, b, i) <=> c[i] < c[b]
      BY <1>2, <2>1, <2>6, <3>1 DEF Better
    <3>4. c[i] < c[b] <=> Sooner(c, i, b)
      BY <1>2, <2>1, <3>1 DEF Sooner
    <3>5. \A w \in S \cup {i} : (\A j \in S \cup {i} : j # w => Sooner(c, w, j)) => w = Found(k)
      BY <2>3, <3>2, FirstFacts
    <3>6. CASE Sooner(c, i, b)
      <4>1. \A j \in S : Sooner(c, i, j)
        BY <1>2, <2>1, <2>3, <3>1, <3>6, SoonerOrder
      <4>2. Found(k) = i
        BY <3>5, <4>1
      <4> QED  BY <3>3, <3>4, <3>6, <4>2 DEF b, i
    <3>7. CASE ~ Sooner(c, i, b)
      <4>1. Sooner(c, b, i)
        BY <1>2, <2>1, <3>1, <3>7, SoonerOrder
      <4>2. Found(k) = b
        BY <3>1, <3>5, <4>1
      <4> QED  BY <3>3, <3>4, <3>7, <4>2 DEF b, i
    <3> QED  BY <3>6, <3>7
  <2> HIDE DEF Found
  <2> QED  BY <2>4, <2>5, <2>6
<1>6. Found(0) = NoItem
  BY <1>4
<1> HIDE DEF Found
<1> DEFINE g == [k \in 0..N |-> Found(k)]
<1>7. g = Rec(g)
  <2> SUFFICES ASSUME NEW k \in 0..N PROVE g[k] = Rec(g)[k]
    OBVIOUS
  <2>1. CASE k = 0
    BY <1>6, <2>1
  <2>2. CASE k # 0
    <3>1. k \in 1..N /\ k - 1 \in 0..N
      BY <1>1, <2>2
    <3> QED  BY <1>5, <2>2, <3>1
  <2> QED  BY <2>1, <2>2
<1>8. scan = Rec(scan)
  <2> HIDE DEF g, Rec
  <2> QED  BY <1>7
<1> HIDE DEF scan
<1>9. \A k \in 0..N : scan[k] = g[k]
  <2> DEFINE Off == {k \in 0..N : scan[k] # g[k]}
  <2> SUFFICES ASSUME Off # {} PROVE FALSE
    OBVIOUS
  <2>1. PICK k \in Off : \A j \in Off : k <= j
    <3>1. Off \subseteq Nat
      OBVIOUS
    <3> HIDE DEF Off
    <3> QED  BY <3>1, LeastNatural
  <2>2. scan[k] = Rec(scan)[k] /\ g[k] = Rec(g)[k] /\ k \in 0..N
    BY <1>7, <1>8
  <2>3. k # 0 => k - 1 \in 0..N /\ scan[k - 1] = g[k - 1]
    BY <1>1, <2>1
  <2>4. Rec(scan)[k] = Rec(g)[k]
    <3> HIDE DEF g
    <3> QED  BY <2>2, <2>3
  <2> QED  BY <2>1, <2>2, <2>4
<1>10. scan[N] = Found(N)
  BY <1>1, <1>9
<1> QED  BY <1>3, <1>4, <1>10 DEF Found, Able

\* The view after j items have been taken: the first j of those the loop will
\* take are claimed and appended in order.
AfterTurns(n, c, v, q, j) ==
    [y |-> [i \in Item |->
               IF (\E l \in 1..j : q[l] = i) /\ v.z[i] # n THEN c[i] ELSE v.y[i]],
     z |-> [i \in Item |-> IF \E l \in 1..j : q[l] = i THEN n ELSE v.z[i]],
     bundle |-> [l \in 1..(Len(v.bundle) + j) |->
                    IF l <= Len(v.bundle) THEN v.bundle[l] ELSE q[l - Len(v.bundle)]]]

LEMMA AfterTurnsFacts ==
    ASSUME NEW n \in Agent, NEW c \in CostVector, NEW v \in ViewType,
           NEW q \in Seq(Item), \A l \in 1..Len(q) : c[q[l]] \in CostValue,
           NEW j \in 0..Len(q)
    PROVE  LET w == AfterTurns(n, c, v, q, j)
           IN  /\ w \in ViewType /\ Len(w.bundle) = Len(v.bundle) + j
               /\ \A i : i \in Range(w.bundle) <=>
                        i \in Range(v.bundle) \/ \E l \in 1..j : q[l] = i
<1> DEFINE w == AfterTurns(n, c, v, q, j)
           b == v.bundle
           L == Len(v.bundle)
<1>1. v.y \in Claims /\ v.z \in Assignment /\ b \in Seq(Item) /\ L \in Nat /\ DOMAIN b = 1..L
  BY DEF ViewType
<1>2. /\ w.y = [i \in Item |->
                   IF (\E l \in 1..j : q[l] = i) /\ v.z[i] # n THEN c[i] ELSE v.y[i]]
      /\ w.z = [i \in Item |-> IF \E l \in 1..j : q[l] = i THEN n ELSE v.z[i]]
      /\ w.bundle = [l \in 1..(L + j) |-> IF l <= L THEN b[l] ELSE q[l - L]]
      /\ w = [y |-> w.y, z |-> w.z, bundle |-> w.bundle]
  BY DEF AfterTurns
<1> HIDE DEF w, b, L
<1>3. w.y \in Claims
  <2>1. \A i \in Item : (\E l \in 1..j : q[l] = i) => c[i] \in CostValue
    OBVIOUS
  <2> QED  BY <1>1, <1>2, <2>1 DEF Claims
<1>4. w.z \in Assignment
  BY <1>1, <1>2 DEF Assignment
<1>5. w.bundle \in Seq(Item) /\ Len(w.bundle) = L + j
  <2>1. \A l \in 1..(L + j) : IF l <= L THEN b[l] \in Item ELSE q[l - L] \in Item
    BY <1>1
  <2>2. w.bundle \in [1..(L + j) -> Item] /\ L + j \in Nat
    BY <1>1, <1>2, <2>1
  <2> QED  BY <2>2
<1>6. Range(w.bundle) = Range(b) \cup {q[l] : l \in 1..j}
  <2>1. ASSUME NEW l \in 1..(L + j) PROVE w.bundle[l] \in Range(b) \cup {q[k] : k \in 1..j}
    <3>1. CASE l <= L
      BY <1>1, <1>2, <3>1 DEF Range
    <3>2. CASE ~ l <= L
      <4>1. l - L \in 1..j /\ w.bundle[l] = q[l - L]
        BY <1>1, <1>2, <3>2
      <4> QED  BY <4>1
    <3> QED  BY <3>1, <3>2
  <2>2. ASSUME NEW l \in 1..L PROVE b[l] \in Range(w.bundle)
    <3>1. l \in 1..(L + j) /\ w.bundle[l] = b[l]
      BY <1>1, <1>2
    <3> QED  BY <1>2, <3>1 DEF Range
  <2>3. ASSUME NEW l \in 1..j PROVE q[l] \in Range(w.bundle)
    <3>1. l + L \in 1..(L + j) /\ w.bundle[l + L] = q[l]
      BY <1>1, <1>2
    <3> QED  BY <1>2, <3>1 DEF Range
  <2>4. DOMAIN w.bundle = 1..(L + j)
    BY <1>2
  <2> QED  BY <1>1, <2>1, <2>2, <2>3, <2>4 DEF Range
<1>7. w \in ViewType
  BY <1>2, <1>3, <1>4, <1>5 DEF ViewType
<1> QED  BY <1>5, <1>6, <1>7 DEF w, b, L

\* One turn takes the next item of the order, and there is no turn after the
\* last of them.
LEMMA TurnFacts ==
    ASSUME NEW n \in Agent, NEW c \in CostVector, NEW items, Priceable(c, items),
           NEW v \in ViewType
    PROVE  LET q == InOrder(c, Taken(n, c, items, v))
               M == Cardinality(Taken(n, c, items, v))
           IN  /\ M \in 0..Cardinality(items) /\ Cardinality(items) \in Nat
               /\ AfterTurns(n, c, v, q, 0) = v
               /\ AfterTurns(n, c, v, q, M) = BuildBundle(n, c, items, v)
               /\ \A j \in 0..(M - 1) : LoopTurn(n, c, items, AfterTurns(n, c, v, q, j)) =
                                            AfterTurns(n, c, v, q, j + 1)
               /\ LoopTurn(n, c, items, AfterTurns(n, c, v, q, M)) = AfterTurns(n, c, v, q, M)
<1> DEFINE Able == Claimable(n, c, items, v)
           T == Taken(n, c, items, v)
           q == InOrder(c, T)
           M == Cardinality(T)
           L == Len(v.bundle)
           w(j) == AfterTurns(n, c, v, q, j)
           First1(j) == {q[l] : l \in 1..j}
<1>1. /\ T \in SUBSET Able /\ Able \in SUBSET items /\ items \in SUBSET Item
      /\ IsFiniteSet(items) /\ IsFiniteSet(Able) /\ IsFiniteSet(T)
      /\ \A i \in items : i \in Item /\ c[i] \in CostValue
      /\ M \in Nat /\ Cardinality(items) \in Nat /\ M <= Cardinality(items)
  <2>1. /\ T \in SUBSET Able /\ Able \in SUBSET items /\ items \in SUBSET Item
        /\ IsFiniteSet(items) /\ IsFiniteSet(Able) /\ IsFiniteSet(T)
        /\ \A i \in items : i \in Item /\ c[i] \in CostValue
    BY TakenType DEF Priceable
  <2> HIDE DEF T, Able
  <2>2. T \in SUBSET items
    BY <2>1
  <2> QED  BY <2>1, <2>2, FS_Subset, FS_CardinalityType
<1>2. /\ \A i \in Item : i \in Able <=> /\ i \in items \ Range(v.bundle) /\ c[i] < Infinity
                                        /\ v.z[i] = n \/ c[i] < v.y[i]
      /\ BuildBundle(n, c, items, v) =
             [y |-> [i \in Item |-> IF i \in T /\ v.z[i] # n THEN c[i] ELSE v.y[i]],
              z |-> [i \in Item |-> IF i \in T THEN n ELSE v.z[i]],
              bundle |-> v.bundle \o q]
  <2>1. \A i \in Item : i \in Able <=> /\ i \in items \ Range(v.bundle) /\ c[i] < Infinity
                                       /\ v.z[i] = n \/ c[i] < v.y[i]
    BY DEF Claimable
  <2>2. BuildBundle(n, c, items, v) =
             [y |-> [i \in Item |-> IF i \in T /\ v.z[i] # n THEN c[i] ELSE v.y[i]],
              z |-> [i \in Item |-> IF i \in T THEN n ELSE v.z[i]],
              bundle |-> v.bundle \o q]
    BY DEF BuildBundle, Taken
  <2> QED  BY <2>1, <2>2
<1>3. /\ v.y \in Claims /\ v.z \in Assignment /\ v.bundle \in Seq(Item) /\ L \in Nat
      /\ v = [y |-> v.y, z |-> v.z, bundle |-> v.bundle]
      /\ DOMAIN v.bundle = 1..L /\ MaxBundle(n) \in Nat
  BY MaxBundleType DEF ViewType
<1>4. L <= MaxBundle(n) => /\ L + M <= MaxBundle(n)
                           /\ \A i \in Able \ T : L + M = MaxBundle(n)
                           /\ \A i \in Able \ T : \A j \in T : Sooner(c, j, i)
  BY <1>3, TakenFacts
<1>5. ASSUME ~ L <= MaxBundle(n) PROVE T = {}
  <2> SUFFICES ASSUME NEW i \in T PROVE FALSE
    OBVIOUS
  <2> DEFINE k == Cardinality({j \in Able : Sooner(c, j, i)})
  <2>1. L + k < MaxBundle(n)
    BY DEF Taken
  <2>2. k \in Nat
    <3>1. IsFiniteSet({j \in Able : Sooner(c, j, i)})
      BY <1>1, FS_Subset
    <3> QED  BY <3>1, FS_CardinalityType
  <2> HIDE DEF k
  <2> QED  BY <1>3, <1>5, <2>1, <2>2
<1> HIDE DEF T, Able
<1>6. /\ q \in Seq(Item) /\ Len(q) = M /\ Range(q) = T /\ IsInjective(q) /\ DOMAIN q = 1..M
      /\ \A j, k \in 1..M : j < k => Sooner(c, q[j], q[k])
  <2>1. T \in SUBSET Item
    BY <1>1
  <2>2. /\ q \in Seq(Item) /\ Len(q) = M /\ Range(q) = T /\ IsInjective(q)
        /\ \A j, k \in DOMAIN q : j < k => Sooner(c, q[j], q[k])
    BY <1>1, <2>1, InOrderFacts
  <2> HIDE DEF q
  <2> QED  BY <2>2
<1> HIDE DEF q, M, L
<1>7. /\ q \in [1..M -> Item] /\ First1(M) = T /\ First1(0) = {}
      /\ \A l \in 1..M : q[l] \in T /\ c[q[l]] \in CostValue
  <2>1. \A l \in 1..M : q[l] \in T
    BY <1>6 DEF Range
  <2> QED  BY <1>1, <1>6, <2>1 DEF Range
<1>8. \A j \in 0..M : /\ w(j) \in ViewType /\ Len(w(j).bundle) = L + j
                      /\ Range(w(j).bundle) = Range(v.bundle) \cup First1(j)
  <2> HIDE DEF w
  <2> TAKE j \in 0..M
  <2>1. \A l \in 1..M : c[q[l]] \in CostValue
    BY <1>7
  <2>2. q \in Seq(Item) /\ M = Len(q)
    BY <1>6
  <2> DEFINE x == AfterTurns(n, c, v, q, j)
  <2>3. /\ x \in ViewType /\ Len(x.bundle) = Len(v.bundle) + j
        /\ \A i : i \in Range(x.bundle) <=>
                 i \in Range(v.bundle) \/ \E l \in 1..j : q[l] = i
    BY <2>1, <2>2, AfterTurnsFacts
  <2> HIDE DEF x
  <2>4. Range(x.bundle) = Range(v.bundle) \cup First1(j)
    BY <2>3
  <2> QED  BY <2>3, <2>4 DEF L, w, x
<1>9. \A j \in 0..M :
         /\ w(j).y = [i \in Item |-> IF i \in First1(j) /\ v.z[i] # n THEN c[i] ELSE v.y[i]]
         /\ w(j).z = [i \in Item |-> IF i \in First1(j) THEN n ELSE v.z[i]]
         /\ w(j).bundle = [l \in 1..(L + j) |-> IF l <= L THEN v.bundle[l] ELSE q[l - L]]
         /\ w(j) = [y |-> w(j).y, z |-> w(j).z, bundle |-> w(j).bundle]
  <2> TAKE j \in 0..M
  <2>1. \A i : (\E l \in 1..j : q[l] = i) <=> i \in First1(j)
    OBVIOUS
  <2>2. /\ w(j).y = [i \in Item |->
               IF (\E l \in 1..j : q[l] = i) /\ v.z[i] # n THEN c[i] ELSE v.y[i]]
        /\ w(j).z = [i \in Item |-> IF \E l \in 1..j : q[l] = i THEN n ELSE v.z[i]]
        /\ w(j).bundle = [l \in 1..(L + j) |-> IF l <= L THEN v.bundle[l] ELSE q[l - L]]
        /\ w(j) = [y |-> w(j).y, z |-> w(j).z, bundle |-> w(j).bundle]
    BY DEF AfterTurns, L
  <2> HIDE DEF w, First1
  <2> QED  BY <2>1, <2>2
<1> HIDE DEF w
<1>10. w(0) = v
  <2> HIDE DEF First1
  <2>0. 0 \in 0..M
    BY <1>1
  <2>1. w(0).y = v.y /\ w(0).z = v.z
    <3>1. \A i \in Item : i \notin First1(0)
      BY <1>7
    <3> QED  BY <1>3, <1>9, <2>0, <3>1 DEF Claims, Assignment
  <2>2. w(0).bundle = v.bundle
    <3>1. w(0).bundle = [l \in 1..L |-> v.bundle[l]]
      <4>1. L + 0 = L /\ 1..L = DOMAIN v.bundle /\ \A l \in 1..L : l <= L
        BY <1>3
      <4>2. w(0).bundle = [l \in 1..(L + 0) |-> IF l <= L THEN v.bundle[l] ELSE q[l - L]]
        BY <1>9, <2>0
      <4> QED  BY <4>1, <4>2
    <3>2. v.bundle = [l \in 1..L |-> v.bundle[l]]
      BY <1>3
    <3> QED  BY <3>1, <3>2
  <2>3. w(0) = [y |-> w(0).y, z |-> w(0).z, bundle |-> w(0).bundle]
    BY <1>9, <2>0
  <2> QED  BY <1>3, <2>1, <2>2, <2>3
<1>11. w(M) = BuildBundle(n, c, items, v)
  <2> HIDE DEF First1
  <2>0. M \in 0..M
    BY <1>1
  <2>1. w(M).bundle = v.bundle \o q
    <3>1. w(M).bundle = [l \in 1..(L + M) |-> IF l <= L THEN v.bundle[l] ELSE q[l - L]]
      BY <1>9, <2>0
    <3>2. /\ v.bundle \o q \in Seq(Item) /\ Len(v.bundle \o q) = L + M
          /\ \A l \in 1..(L + M) :
                (v.bundle \o q)[l] = IF l <= L THEN v.bundle[l] ELSE q[l - L]
      BY <1>3, <1>6, ConcatProperties DEF L
    <3> DEFINE o == v.bundle \o q
    <3>3. o = [l \in 1..(L + M) |-> o[l]]
      BY <3>2
    <3> HIDE DEF o
    <3>4. \A l \in 1..(L + M) : o[l] = IF l <= L THEN v.bundle[l] ELSE q[l - L]
      BY <3>2 DEF o
    <3>5. o = w(M).bundle
      BY <3>1, <3>3, <3>4
    <3> QED  BY <3>5 DEF o
  <2>2. /\ w(M).y = [i \in Item |-> IF i \in T /\ v.z[i] # n THEN c[i] ELSE v.y[i]]
        /\ w(M).z = [i \in Item |-> IF i \in T THEN n ELSE v.z[i]]
        /\ w(M) = [y |-> w(M).y, z |-> w(M).z, bundle |-> w(M).bundle]
    BY <1>7, <1>9, <2>0
  <2> QED  BY <1>2, <2>1, <2>2
<1>12. \A j \in 0..M : First1(j) \in SUBSET T
  BY <1>1, <1>7
<1>13. ASSUME NEW j \in 0..M
       PROVE  Claimable(n, c, items, w(j)) = Able \ First1(j)
  <2>1. /\ Range(w(j).bundle) = Range(v.bundle) \cup First1(j)
        /\ \A i \in Item \ First1(j) : w(j).y[i] = v.y[i] /\ w(j).z[i] = v.z[i]
    BY <1>8, <1>9
  <2> HIDE DEF First1
  <2>2. \A i \in Item : i \in Claimable(n, c, items, w(j)) <=>
            /\ i \in items \ Range(w(j).bundle) /\ c[i] < Infinity
            /\ w(j).z[i] = n \/ c[i] < w(j).y[i]
    BY DEF Claimable
  <2>3. \A i \in Item : i \in Claimable(n, c, items, w(j)) <=> i \in Able \ First1(j)
    BY <1>2, <2>1, <2>2
  <2>4. Claimable(n, c, items, w(j)) \in SUBSET Item
    BY <1>1 DEF Claimable
  <2> QED  BY <1>1, <2>3, <2>4
<1>14. ASSUME NEW j \in 0..M
       PROVE  LET best == BestTask(n, c, items, w(j))
              IN  IF Able \ First1(j) = {} THEN best = NoItem
                  ELSE /\ best = First(c, Able \ First1(j)) /\ best # NoItem
                       /\ best \in Able \ First1(j)
  <2>1. BestTask(n, c, items, w(j)) =
            IF Able \ First1(j) = {} THEN NoItem ELSE First(c, Able \ First1(j))
    BY <1>13, BestTaskFacts
  <2> DEFINE Left == Able \ First1(j)
  <2>2. Left \in SUBSET Item /\ IsFiniteSet(Left)
    BY <1>1, FS_Subset
  <2> HIDE DEF Left
  <2>3. Left # {} => First(c, Left) \in Left /\ First(c, Left) # NoItem
    BY <2>2, FirstFacts, ItemAssumption DEF NoItem
  <2> QED  BY <2>1, <2>3 DEF Left
<1>15. ASSUME NEW j \in 0..(M - 1)
       PROVE  LoopTurn(n, c, items, w(j)) = w(j + 1)
  <2> DEFINE b == q[j + 1]
             Left == Able \ First1(j)
  <2>1. j \in 0..M /\ j + 1 \in 0..M /\ j + 1 \in 1..M /\ j \in Nat
    BY <1>1
  <2>2. b \in T /\ b \in Item /\ b \notin First1(j) /\ First1(j + 1) = First1(j) \cup {b}
    <3>1. b \in T /\ b \in Item
      BY <1>1, <1>7, <2>1
    <3>2. \A l \in 1..j : l \in DOMAIN q /\ j + 1 \in DOMAIN q /\ l # j + 1
      BY <1>1, <1>6, <2>1
    <3>3. b \notin First1(j)
      BY <1>6, <3>2 DEF IsInjective
    <3>4. 1..(j + 1) = 1..j \cup {j + 1}
      BY <2>1
    <3> QED  BY <3>1, <3>3, <3>4
  <2>3. b \in Left /\ Left \in SUBSET Item /\ IsFiniteSet(Left) /\ Left # {}
    BY <1>1, <2>2, FS_Subset
  <2>4. L <= MaxBundle(n) /\ L + M <= MaxBundle(n)
    BY <1>4, <1>5, <2>2
  <2>5. \A i \in Left : i # b => Sooner(c, b, i)
    <3> SUFFICES ASSUME NEW i \in Left, i # b PROVE Sooner(c, b, i)
      OBVIOUS
    <3>1. CASE i \in T
      <4>1. PICK l \in 1..M : q[l] = i
        BY <1>7, <3>1
      <4>2. ~ l <= j /\ l # j + 1
        BY <2>1, <4>1
      <4>3. j + 1 < l
        BY <2>1, <4>2
      <4> QED  BY <1>6, <2>1, <4>1, <4>3
    <3>2. CASE i \notin T
      BY <1>4, <2>2, <2>4, <3>2
    <3> QED  BY <3>1, <3>2
  <2>6. BestTask(n, c, items, w(j)) = b /\ b # NoItem
    <3> HIDE DEF b
    <3>1. First(c, Left) = b
      <4> HIDE DEF Left
      <4> QED  BY <2>3, <2>5, FirstFacts
    <3> QED  BY <1>14, <2>1, <2>3, <3>1
  <2>7. Len(w(j).bundle) = L + j /\ ~ (L + j >= MaxBundle(n))
    BY <1>1, <1>3, <1>8, <2>1, <2>4
  <2>8. LoopTurn(n, c, items, w(j)) = ClaimTask(n, c, w(j), b)
    BY <2>6, <2>7 DEF LoopTurn
  <2> DEFINE t == ClaimTask(n, c, w(j), b)
  <2>9. /\ t.y = IF w(j).z[b] = n THEN w(j).y ELSE [w(j).y EXCEPT ![b] = c[b]]
        /\ t.z = [w(j).z EXCEPT ![b] = n]
        /\ t.bundle = Append(w(j).bundle, b)
        /\ t = [y |-> t.y, z |-> t.z, bundle |-> t.bundle]
    BY DEF ClaimTask
  <2> HIDE DEF t, b
  <2> DEFINE S == First1(j)
  <2>11. /\ w(j).y = [i \in Item |-> IF i \in S /\ v.z[i] # n THEN c[i] ELSE v.y[i]]
         /\ w(j).z = [i \in Item |-> IF i \in S THEN n ELSE v.z[i]]
         /\ w(j + 1).y = [i \in Item |-> IF i \in S \cup {b} /\ v.z[i] # n THEN c[i] ELSE v.y[i]]
         /\ w(j + 1).z = [i \in Item |-> IF i \in S \cup {b} THEN n ELSE v.z[i]]
    BY <1>9, <2>1, <2>2
  <2> HIDE DEF First1, S
  <2>10. b \notin S /\ w(j).z[b] = v.z[b]
    <3>1. b \notin S
      BY <2>2 DEF S
    <3> QED  BY <2>2, <2>11, <3>1
  <2>12. t.y = w(j + 1).y
    BY <2>2, <2>9, <2>10, <2>11
  <2>13. t.z = w(j + 1).z
    <3>1. t.z = [i \in Item |-> IF i = b THEN n ELSE w(j).z[i]]
      BY <2>9, <2>11
    <3> QED  BY <2>11, <3>1
  <2>14. t.bundle = w(j + 1).bundle
    <3> DEFINE o == w(j).bundle
    <3>1. o \in Seq(Item) /\ Len(o) = L + j
      BY <1>8, <2>1 DEF ViewType
    <3>2. o = [l \in 1..(L + j) |-> IF l <= L THEN v.bundle[l] ELSE q[l - L]]
      BY <1>9, <2>1
    <3> HIDE DEF o
    <3>3. Append(o, b) \in Seq(Item) /\ Len(Append(o, b)) = L + j + 1
          /\ \A l \in 1..(L + j + 1) : Append(o, b)[l] = IF l <= L + j THEN o[l] ELSE b
      BY <1>3, <2>1, <2>2, <3>1
    <3>4. w(j + 1).bundle = [l \in 1..(L + (j + 1)) |-> IF l <= L THEN v.bundle[l] ELSE q[l - L]]
      BY <1>9, <2>1
    <3>5. \A l \in 1..(L + j + 1) :
              Append(o, b)[l] = IF l <= L THEN v.bundle[l] ELSE q[l - L]
      <4> SUFFICES ASSUME NEW l \in 1..(L + j + 1)
                   PROVE  Append(o, b)[l] = IF l <= L THEN v.bundle[l] ELSE q[l - L]
        OBVIOUS
      <4>1. CASE l <= L + j
        BY <1>3, <2>1, <3>2, <3>3, <4>1
      <4>2. CASE ~ l <= L + j
        <5>1. l - L = j + 1 /\ ~ l <= L
          BY <1>3, <2>1, <4>2
        <5> QED  BY <3>3, <4>2, <5>1 DEF b
      <4> QED  BY <4>1, <4>2
    <3>6. L + (j + 1) = L + j + 1 /\ L + j + 1 \in Nat
      BY <1>3, <2>1
    <3>7. Append(o, b) = [l \in 1..(L + j + 1) |-> Append(o, b)[l]]
      <4>1. \A s \in Seq(Item) : s = [l \in 1..Len(s) |-> s[l]]
        OBVIOUS
      <4> QED  BY <3>3, <4>1
    <3>8. Append(o, b) = w(j + 1).bundle
      BY <3>4, <3>5, <3>6, <3>7
    <3> QED  BY <2>9, <3>8 DEF o
  <2>15. w(j + 1) = [y |-> w(j + 1).y, z |-> w(j + 1).z, bundle |-> w(j + 1).bundle]
    BY <1>9, <2>1
  <2> QED  BY <2>8, <2>9, <2>12, <2>13, <2>14, <2>15 DEF t
<1>16. LoopTurn(n, c, items, w(M)) = w(M)
  <2>1. Len(w(M).bundle) = L + M /\ M \in 0..M /\ First1(M) = T
    BY <1>1, <1>7, <1>8
  <2> HIDE DEF First1
  <2>2. CASE L + M >= MaxBundle(n)
    BY <2>1, <2>2 DEF LoopTurn
  <2>3. CASE ~ (L + M >= MaxBundle(n))
    <3>1. Able \ First1(M) = {}
      BY <1>1, <1>3, <1>4, <2>1, <2>3
    <3>2. BestTask(n, c, items, w(M)) = NoItem
      BY <1>14, <2>1, <3>1
    <3> QED  BY <3>2 DEF LoopTurn
  <2> QED  BY <2>2, <2>3
<1> QED  BY <1>1, <1>10, <1>11, <1>15, <1>16 DEF w, q, M, T

\* The loop builds what the closed form BuildBundle gives at once, and has
\* come to its end then: another turn would change nothing.
THEOREM LoopBuildsBundle ==
    ASSUME NEW n \in Agent, NEW c \in CostVector, NEW items, Priceable(c, items),
           NEW v \in ViewType
    PROVE  /\ BuildLoop(n, c, items, v) = BuildBundle(n, c, items, v)
           /\ LoopTurn(n, c, items, BuildLoop(n, c, items, v)) = BuildLoop(n, c, items, v)
<1> DEFINE N == Cardinality(items)
           M == Cardinality(Taken(n, c, items, v))
           w(j) == AfterTurns(n, c, v, InOrder(c, Taken(n, c, items, v)), j)
           Turn(x) == LoopTurn(n, c, items, x)
           Rec(f) == [k \in 0..N |-> IF k = 0 THEN v ELSE Turn(f[k - 1])]
           loop == CHOOSE f : f = Rec(f)
           g == [k \in 0..N |-> w(IF k <= M THEN k ELSE M)]
<1>1. /\ M \in 0..N /\ N \in Nat /\ w(0) = v /\ w(M) = BuildBundle(n, c, items, v)
      /\ \A j \in 0..(M - 1) : Turn(w(j)) = w(j + 1)
      /\ Turn(w(M)) = w(M)
  BY TurnFacts
<1>2. BuildLoop(n, c, items, v) = loop[N]
  BY DEF BuildLoop
<1> HIDE DEF w, M, N, Turn
<1>3. g = Rec(g)
  <2> SUFFICES ASSUME NEW k \in 0..N PROVE g[k] = Rec(g)[k]
    OBVIOUS
  <2>1. CASE k = 0
    BY <1>1, <2>1
  <2>2. CASE k # 0 /\ k <= M
    <3>1. k - 1 \in 0..(M - 1) /\ k - 1 \in 0..N /\ (k - 1) + 1 = k /\ k - 1 <= M
      BY <1>1, <2>2
    <3>2. g[k - 1] = w(k - 1) /\ g[k] = w(k)
      BY <2>2, <3>1
    <3>3. Turn(w(k - 1)) = w(k)
      BY <1>1, <3>1
    <3> QED  BY <2>2, <3>2, <3>3
  <2>3. CASE k # 0 /\ ~ k <= M
    <3>1. k - 1 \in 0..N /\ (IF k - 1 <= M THEN k - 1 ELSE M) = M
      BY <1>1, <2>3
    <3>2. g[k - 1] = w(M) /\ g[k] = w(M)
      BY <2>3, <3>1
    <3> QED  BY <1>1, <2>3, <3>2
  <2> QED  BY <2>1, <2>2, <2>3
<1> HIDE DEF g
<1>4. loop = Rec(loop)
  <2> HIDE DEF Rec
  <2> QED  BY <1>3
<1> HIDE DEF loop
<1>5. \A k \in 0..N : loop[k] = g[k]
  <2> DEFINE Off == {k \in 0..N : loop[k] # g[k]}
  <2> SUFFICES ASSUME Off # {} PROVE FALSE
    OBVIOUS
  <2>1. PICK k \in Off : \A j \in Off : k <= j
    <3>1. Off \subseteq Nat
      OBVIOUS
    <3> HIDE DEF Off
    <3> QED  BY <3>1, LeastNatural
  <2>2. loop[k] = Rec(loop)[k] /\ g[k] = Rec(g)[k] /\ k \in 0..N
    BY <1>3, <1>4
  <2>3. k # 0 => k - 1 \in 0..N /\ loop[k - 1] = g[k - 1]
    BY <1>1, <2>1
  <2>4. Rec(loop)[k] = Rec(g)[k]
    BY <2>2, <2>3
  <2> QED  BY <2>1, <2>2, <2>4
<1>6. loop[N] = w(M)
  <2>1. g[N] = w(M)
    BY <1>1 DEF g
  <2> QED  BY <1>1, <1>5, <2>1
<1> QED  BY <1>1, <1>2, <1>6 DEF Turn
=============================================================================
