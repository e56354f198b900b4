--------------------------- MODULE UpgradePlanProofs ---------------------------
(***************************************************************************)
(* Proofs about how an upgrade is planned: the component graph and its     *)
(* batches (Topology), the path of hops (UpgradePath), and the hops that   *)
(* are taken on it (UpgradeHop).  They are for any names, versions, rules  *)
(* and components and any number of changes, failures and crashes.         *)
(*                                                                         *)
(* The loops of both graph algorithms are recursive functions on numbers:  *)
(* it is shown that they exist (Iteration), and what holds of each round   *)
(* by induction over the set of the numbers that have a property.          *)
(***************************************************************************)
EXTENDS UpgradeHop, Topology, FiniteSetTheorems, FunctionTheorems, WellFoundedInduction, TLAPS

-----------------------------------------------------------------------------
(***************************************************************************)
(* Numbers, and functions that are defined by iteration.                   *)
(***************************************************************************)

LEMMA LeastNumber ==
    ASSUME NEW T \in SUBSET Nat, T # {}
    PROVE  \E i \in T : \A j \in T : i <= j
<1> DEFINE R == {ss \in Nat \X Nat : ss[1] < ss[2]}
<1>1. IsWellFoundedOn(R, Nat)
  BY NatLessThanWellFounded, Zenon DEF OpToRel
<1>2. \A i, j \in Nat : <<j, i>> \in R <=> j < i
  OBVIOUS
<1> HIDE DEF R
<1>3. PICK i \in T : \A j \in T : ~(<<j, i>> \in R)
  BY <1>1, WFMin
<1>4. ASSUME NEW j \in T PROVE i <= j
  <2>1. i \in Nat /\ j \in Nat /\ ~(<<j, i>> \in R)
    BY <1>3
  <2>2. ~(j < i)
    BY <1>2, <2>1
  <2> QED BY <2>1, <2>2
<1> QED BY <1>4

\* Induction, for the set of the numbers that have the property.
LEMMA Induction ==
    ASSUME NEW S, 0 \in S, \A n \in Nat : n \in S => n + 1 \in S
    PROVE  Nat \subseteq S
<1> SUFFICES ASSUME Nat \ S # {} PROVE FALSE
  OBVIOUS
<1>1. PICK i \in Nat \ S : \A j \in Nat \ S : i <= j
  BY LeastNumber
<1>2. i # 0 /\ i - 1 \in Nat
  BY <1>1
<1>3. i - 1 \in S
  BY <1>1, <1>2
<1> QED BY <1>1, <1>2, <1>3

\* g gives the first n + 1 values of the iteration of G from v.
Begins(g, n, G, v) ==
    /\ g[0] = v
    /\ \A i \in 0 .. n - 1 : g[i + 1] = G[g[i]]

\* What a step function is iterated to exists.
LEMMA Iteration ==
    ASSUME NEW V, NEW v \in V, NEW G \in [V -> V]
    PROVE  \E f \in [Nat -> V] : f[0] = v /\ \A n \in Nat : f[n + 1] = G[f[n]]
<1> DEFINE P == {n \in Nat : \E g \in [0 .. n -> V] : Begins(g, n, G, v)}
<1>1. 0 \in P
  <2>1. [i \in 0 .. 0 |-> v] \in [0 .. 0 -> V] /\ Begins([i \in 0 .. 0 |-> v], 0, G, v)
    BY DEF Begins
  <2> QED BY <2>1
<1>2. ASSUME NEW n \in Nat, n \in P PROVE n + 1 \in P
  <2>1. PICK g \in [0 .. n -> V] : Begins(g, n, G, v)
    BY <1>2
  <2> DEFINE h == [i \in 0 .. n + 1 |-> IF i = n + 1 THEN G[g[n]] ELSE g[i]]
  <2>2. h \in [0 .. n + 1 -> V]
    BY <2>1
  <2>3. h[0] = v
    BY <2>1 DEF Begins
  <2>4. ASSUME NEW i \in 0 .. n PROVE h[i + 1] = G[h[i]]
    <3>1. CASE i = n
      BY <3>1
    <3>2. CASE i # n
      <4>1. i \in 0 .. n - 1 /\ i + 1 \in 0 .. n + 1 /\ i + 1 # n + 1
        BY <3>2
      <4> QED BY <2>1, <4>1 DEF Begins
    <3> QED BY <3>1, <3>2
  <2>5. Begins(h, n + 1, G, v)
    BY <2>3, <2>4 DEF Begins
  <2> QED BY <2>2, <2>5
<1>3. Nat \subseteq P
  <2> HIDE DEF P
  <2> QED BY <1>1, <1>2, Induction
<1> DEFINE first == [n \in Nat |-> CHOOSE g \in [0 .. n -> V] : Begins(g, n, G, v)]
<1>4. ASSUME NEW n \in Nat
      PROVE  first[n] \in [0 .. n -> V] /\ Begins(first[n], n, G, v)
  <2>1. \E g \in [0 .. n -> V] : Begins(g, n, G, v)
    BY <1>3
  <2> QED BY <2>1
<1> HIDE DEF first
\* two beginnings agree as far as both go
<1>5. ASSUME NEW n \in Nat PROVE first[n + 1][n] = first[n][n]
  <2> DEFINE Q == {i \in Nat : i <= n => first[n + 1][i] = first[n][i]}
  <2>1. 0 \in Q
    BY <1>4 DEF Begins
  <2>2. ASSUME NEW i \in Nat, i \in Q PROVE i + 1 \in Q
    <3>1. SUFFICES ASSUME i + 1 <= n PROVE first[n + 1][i + 1] = first[n][i + 1]
      OBVIOUS
    <3>2. i \in 0 .. n - 1 /\ i \in 0 .. (n + 1) - 1
      BY <3>1
    <3>3. first[n + 1][i] = first[n][i]
      BY <2>2, <3>2
    <3>4. Begins(first[n + 1], n + 1, G, v) /\ Begins(first[n], n, G, v)
      BY <1>4
    <3> QED BY <3>2, <3>3, <3>4 DEF Begins
  <2>3. Nat \subseteq Q
    <3> HIDE DEF Q
    <3> QED BY <2>1, <2>2, Induction
  <2> QED BY <2>3
<1> DEFINE f == [n \in Nat |-> first[n][n]]
<1>6. f \in [Nat -> V]
  BY <1>4
<1>7. f[0] = v
  BY <1>4 DEF Begins
<1>8. ASSUME NEW n \in Nat PROVE f[n + 1] = G[f[n]]
  <2>1. n \in 0 .. (n + 1) - 1
    OBVIOUS
  <2>2. first[n + 1][n + 1] = G[first[n + 1][n]]
    BY <1>4, <2>1 DEF Begins
  <2> QED BY <1>5, <2>2
<1> QED BY <1>6, <1>7, <1>8

-----------------------------------------------------------------------------
(***************************************************************************)
(* The breadth-first search of hasPath.                                    *)
(***************************************************************************)

\* A graph as the operations of graph.go build it.
WellFormed(g) ==
    /\ IsFiniteSet(g.nodes)
    /\ g.outEdges \in [g.nodes -> SUBSET g.nodes]

\* What the search knows at some time, and what one round adds.
Known(g) == [visited : SUBSET g.nodes, current : SUBSET g.nodes]

Round(g, r) ==
    LET next == Successors(g, r.current) \ r.visited
    IN  [visited |-> r.visited \cup next, current |-> next]

LEMMA RoundType ==
    ASSUME NEW g, WellFormed(g), NEW r \in Known(g)
    PROVE  Round(g, r) \in Known(g)
<1>1. Successors(g, r.current) \subseteq g.nodes
  BY DEF Successors, WellFormed, Known
<1> QED BY <1>1 DEF Round, Known

\* The rounds of a search from a node: they exist, and a path is found when
\* one of them has the node that is searched for.
PathSearches(s, g, from) ==
    /\ s \in [Nat -> Known(g)]
    /\ s[0] = [visited |-> {from}, current |-> {from}]
    /\ \A k \in Nat : s[k + 1] = Round(g, s[k])

LEMMA PathSearchExists ==
    ASSUME NEW g, WellFormed(g), NEW from \in g.nodes, NEW to
    PROVE  \E s : /\ PathSearches(s, g, from)
                  /\ HasPath(g, from, to) <=>
                        \/ from = to
                        \/ \E k \in 0 .. Cardinality(g.nodes) : to \in s[k].current
<1> DEFINE v == [visited |-> {from}, current |-> {from}]
           G == [r \in Known(g) |-> Round(g, r)]
           Rec(f) == [k \in Nat |->
                        IF k = 0
                        THEN [visited |-> {from}, current |-> {from}]
                        ELSE LET next == Successors(g, f[k - 1].current)
                                             \ f[k - 1].visited
                             IN  [visited |-> f[k - 1].visited \cup next,
                                  current |-> next]]
           s == CHOOSE f : f = Rec(f)
<1>1. v \in Known(g)
  BY DEF Known
<1>2. G \in [Known(g) -> Known(g)]
  BY RoundType
<1>3. PICK f \in [Nat -> Known(g)] :
         f[0] = v /\ \A n \in Nat : f[n + 1] = G[f[n]]
  <2> HIDE DEF v, G
  <2> QED BY <1>1, <1>2, Iteration
<1>4. f = Rec(f)
  <2>1. ASSUME NEW k \in Nat PROVE f[k] = Rec(f)[k]
    <3>1. CASE k = 0
      BY <1>3, <3>1
    <3>2. CASE k # 0
      <4>1. k - 1 \in Nat /\ (k - 1) + 1 = k
        BY <3>2
      <4>2. f[k] = G[f[k - 1]] /\ f[k - 1] \in Known(g)
        BY <1>3, <4>1
      <4>3. f[k] = Round(g, f[k - 1])
        BY <4>2
      <4> QED BY <3>2, <4>3 DEF Round
    <3> QED BY <3>1, <3>2
  <2> HIDE DEF Rec
  <2>2. Rec(f) = [k \in Nat |-> Rec(f)[k]]
    BY DEF Rec
  <2> QED BY <1>3, <2>1, <2>2
<1>5. s = Rec(s)
  <2> HIDE DEF Rec
  <2> QED BY <1>4
<1>6. s[0] = v
  <2> HIDE DEF s
  <2> QED BY <1>5
<1>7. ASSUME NEW k \in Nat PROVE s[k + 1] = Round(g, s[k])
  <2>1. k + 1 # 0 /\ k + 1 \in Nat /\ (k + 1) - 1 = k
    OBVIOUS
  <2> HIDE DEF s
  <2>2. s[k + 1] = Rec(s)[k + 1]
    BY <1>5
  <2> QED BY <2>1, <2>2 DEF Round
<1>8. s \in [Nat -> Known(g)]
  <2> DEFINE P == {n \in Nat : s[n] \in Known(g)}
  <2>1. 0 \in P
    BY <1>1, <1>6
  <2>2. ASSUME NEW n \in Nat, n \in P PROVE n + 1 \in P
    BY <1>7, <2>2, RoundType
  <2>3. Nat \subseteq P
    <3> HIDE DEF P
    <3> QED BY <2>1, <2>2, Induction
  <2>4. s = [k \in Nat |-> s[k]]
    <3> HIDE DEF s
    <3> QED BY <1>5
  <2> HIDE DEF s
  <2> QED BY <2>3, <2>4
<1>9. HasPath(g, from, to) <=>
         \/ from = to
         \/ \E k \in 0 .. Cardinality(g.nodes) : to \in s[k].current
  BY Zenon DEF HasPath
<1> HIDE DEF s
<1> QED BY <1>6, <1>7, <1>8, <1>9 DEF PathSearches
\* One round.
LEMMA SearchRound ==
    ASSUME NEW g, NEW from, NEW s, PathSearches(s, g, from), NEW n \in Nat
    PROVE  /\ s[n] \in Known(g)
           /\ s[n + 1].current = Successors(g, s[n].current) \ s[n].visited
           /\ s[n + 1].visited = s[n].visited \cup s[n + 1].current
<1>1. s[n] \in Known(g) /\ s[n + 1] = Round(g, s[n])
  BY DEF PathSearches
<1> QED BY <1>1 DEF Round

\* U is closed: an edge that starts in it ends in it.
Closed(g, U) == \A n \in U \cap g.nodes : g.outEdges[n] \subseteq U

\* What is found is in every closed set that has the start.
LEMMA SearchSound ==
    ASSUME NEW g, WellFormed(g), NEW from \in g.nodes, NEW s, PathSearches(s, g, from),
           NEW U, from \in U, Closed(g, U), NEW k \in Nat
    PROVE  s[k].current \subseteq U
<1> DEFINE P == {n \in Nat : s[n].current \subseteq U}
<1>1. 0 \in P
  BY DEF PathSearches
<1>2. ASSUME NEW n \in Nat, n \in P PROVE n + 1 \in P
  <2>1. s[n] \in Known(g) /\ s[n].current \subseteq g.nodes
    BY DEF PathSearches, Known
  <2>2. Successors(g, s[n].current) \subseteq U
    BY <1>2, <2>1 DEF Closed, Successors
  <2>3. s[n + 1].current \subseteq Successors(g, s[n].current)
    BY SearchRound
  <2> QED BY <2>2, <2>3
<1>3. Nat \subseteq P
  <2> HIDE DEF P
  <2> QED BY <1>1, <1>2, Induction
<1> QED BY <1>3

\* The visited nodes are those of the rounds so far, and everything they lead
\* to is visited or found next.
LEMMA SearchGrows ==
    ASSUME NEW g, WellFormed(g), NEW from \in g.nodes, NEW s, PathSearches(s, g, from),
           NEW k \in Nat
    PROVE  /\ from \in s[k].visited
           /\ s[k].current \subseteq s[k].visited
           /\ \A n \in s[k].visited : \E j \in 0 .. k : n \in s[j].current
           /\ \A n \in s[k].visited \ s[k].current : g.outEdges[n] \subseteq s[k].visited
<1> DEFINE Good(n) == /\ from \in s[n].visited
                      /\ s[n].current \subseteq s[n].visited
                      /\ \A m \in s[n].visited : \E j \in 0 .. n : m \in s[j].current
                      /\ \A m \in s[n].visited \ s[n].current :
                            g.outEdges[m] \subseteq s[n].visited
           P == {n \in Nat : Good(n)}
<1>1. Good(0)
  BY DEF PathSearches
<1>2. ASSUME NEW n \in Nat, Good(n) PROVE Good(n + 1)
  <2>1. /\ s[n] \in Known(g)
        /\ s[n + 1].current = Successors(g, s[n].current) \ s[n].visited
        /\ s[n + 1].visited = s[n].visited \cup s[n + 1].current
    BY SearchRound
  <2>2. \A m \in s[n + 1].visited : \E j \in 0 .. n + 1 : m \in s[j].current
    <3>1. ASSUME NEW m \in s[n].visited PROVE \E j \in 0 .. n + 1 : m \in s[j].current
      BY <1>2
    <3> QED BY <2>1, <3>1
  <2>3. ASSUME NEW m \in s[n + 1].visited \ s[n + 1].current
        PROVE  g.outEdges[m] \subseteq s[n + 1].visited
    <3>1. CASE m \in s[n].current
      <4>1. g.outEdges[m] \subseteq Successors(g, s[n].current)
        BY <3>1 DEF Successors
      <4> QED BY <2>1, <4>1
    <3>2. CASE m \notin s[n].current
      BY <1>2, <2>1, <2>3, <3>2
    <3> QED BY <3>1, <3>2
  <2> QED BY <1>2, <2>1, <2>2, <2>3
<1> HIDE DEF Good
<1>3. Nat \subseteq P
  <2>1. 0 \in P
    BY <1>1
  <2>2. \A n \in Nat : n \in P => n + 1 \in P
    BY <1>2
  <2> HIDE DEF P
  <2> QED BY <2>1, <2>2, Induction
<1>4. Good(k)
  BY <1>3
<1> QED BY <1>4 DEF Good

\* Each round that is not empty adds a node, so the search ends in time: some
\* round within the number of nodes is empty.
LEMMA PathSearchEnds ==
    ASSUME NEW g, WellFormed(g), NEW from \in g.nodes, NEW s, PathSearches(s, g, from)
    PROVE  \E k \in 0 .. Cardinality(g.nodes) : s[k].current = {}
<1> SUFFICES ASSUME \A k \in 0 .. Cardinality(g.nodes) : s[k].current # {}
             PROVE  FALSE
  OBVIOUS
<1> DEFINE N == Cardinality(g.nodes)
           P == {n \in Nat : n <= N => Cardinality(s[n].visited) >= n + 1}
<1>1. N \in Nat /\ IsFiniteSet(g.nodes)
  BY FS_CardinalityType DEF WellFormed
<1>2. \A n \in Nat : s[n] \in Known(g) /\ s[n].visited \subseteq g.nodes
                     /\ IsFiniteSet(s[n].visited)
                     /\ Cardinality(s[n].visited) \in Nat
                     /\ Cardinality(s[n].visited) <= N
  BY <1>1, FS_Subset, FS_CardinalityType DEF PathSearches, Known
<1>3. 0 \in P
  <2>1. s[0].visited = {from}
    BY DEF PathSearches
  <2> QED BY <2>1, FS_Singleton
<1>4. ASSUME NEW n \in Nat, n \in P PROVE n + 1 \in P
  <2>1. SUFFICES ASSUME n + 1 <= N
                 PROVE  Cardinality(s[n + 1].visited) >= n + 1 + 1
    OBVIOUS
  <2>2. n <= N /\ Cardinality(s[n].visited) >= n + 1
    BY <1>1, <1>4, <2>1
  <2>3. n + 1 \in 0 .. N
    BY <1>1, <2>1
  <2>4. s[n + 1].current # {}
    BY <2>3
  <2>5. /\ s[n + 1].current = Successors(g, s[n].current) \ s[n].visited
        /\ s[n + 1].visited = s[n].visited \cup s[n + 1].current
    BY SearchRound
  <2>6. /\ s[n].visited \subseteq s[n + 1].visited
        /\ s[n].visited # s[n + 1].visited
    BY <2>4, <2>5
  <2>7. /\ Cardinality(s[n].visited) <= Cardinality(s[n + 1].visited)
        /\ Cardinality(s[n].visited) # Cardinality(s[n + 1].visited)
    BY <1>2, <2>6, FS_Subset
  <2> HIDE DEF N
  <2> QED BY <1>2, <2>2, <2>7
<1>5. N \in P
  <2>1. Nat \subseteq P
    <3> HIDE DEF P
    <3> QED BY <1>3, <1>4, Induction
  <2> QED BY <1>1, <2>1
<1> QED
  <2>1. Cardinality(s[N].visited) >= N + 1 /\ Cardinality(s[N].visited) <= N
        /\ Cardinality(s[N].visited) \in Nat
    BY <1>1, <1>2, <1>5
  <2> HIDE DEF N
  <2> QED BY <1>1, <2>1

(***************************************************************************)
(* hasPath is exact: it finds a way to a node iff the node is in every     *)
(* closed set that has the start.                                          *)
(***************************************************************************)
LEMMA HasPathExact ==
    ASSUME NEW g, WellFormed(g), NEW from \in g.nodes, NEW to \in g.nodes
    PROVE  HasPath(g, from, to) <=>
              \A U \in SUBSET g.nodes : from \in U /\ Closed(g, U) => to \in U
<1>1. PICK s : /\ PathSearches(s, g, from)
               /\ HasPath(g, from, to) <=>
                     \/ from = to
                     \/ \E k \in 0 .. Cardinality(g.nodes) : to \in s[k].current
  BY PathSearchExists
<1>2. Cardinality(g.nodes) \in Nat
  BY FS_CardinalityType DEF WellFormed
<1>3. ASSUME HasPath(g, from, to), NEW U, from \in U, Closed(g, U)
      PROVE  to \in U
  <2>1. \A k \in Nat : s[k].current \subseteq U
    BY <1>1, <1>3, SearchSound
  <2> QED BY <1>1, <1>2, <1>3, <2>1
<1>4. ASSUME \A U \in SUBSET g.nodes : from \in U /\ Closed(g, U) => to \in U
      PROVE  HasPath(g, from, to)
  <2>1. PICK k \in 0 .. Cardinality(g.nodes) : s[k].current = {}
    BY <1>1, PathSearchEnds
  <2> DEFINE U == s[k].visited
  <2>2. k \in Nat
    BY <1>2, <2>1
  <2>3. U \in SUBSET g.nodes
    BY <1>1, <2>2 DEF PathSearches, Known
  <2>4. /\ from \in U
        /\ \A n \in U : \E j \in 0 .. k : n \in s[j].current
        /\ \A n \in U : g.outEdges[n] \subseteq U
    BY <1>1, <2>1, <2>2, SearchGrows
  <2>5. to \in U
    BY <1>4, <2>3, <2>4 DEF Closed
  <2>6. PICK j \in 0 .. k : to \in s[j].current
    BY <2>4, <2>5
  <2>7. j \in 0 .. Cardinality(g.nodes)
    BY <1>2, <2>1, <2>6
  <2> QED BY <1>1, <2>6, <2>7
<1> QED BY <1>3, <1>4
-----------------------------------------------------------------------------
(***************************************************************************)
(* Graphs without a cycle.                                                 *)
(***************************************************************************)

\* The prerequisites of n among the nodes of T.
Prerequisites(g, T, n) == {m \in T : n \in g.outEdges[m]}

\* There is no cycle: any nodes have one without a prerequisite among them.
NoCycle(g) ==
    \A T \in SUBSET g.nodes :
        T # {} => \E n \in T : Prerequisites(g, T, n) = {}

\* A degree is the number of prerequisites.
Counted(g) ==
    g.inDegree = [n \in g.nodes |-> Cardinality(Prerequisites(g, g.nodes, n))]

GraphOK(g) == WellFormed(g) /\ NoCycle(g) /\ Counted(g)

\* A new node has no edge.
LEMMA AddNodeIs ==
    ASSUME NEW g, WellFormed(g), Counted(g), NEW n
    PROVE  LET h == AddNode(g, n)
           IN  /\ WellFormed(h) /\ Counted(h)
               /\ h.nodes = g.nodes \cup {n}
               /\ \A m \in g.nodes : h.outEdges[m] = g.outEdges[m]
               /\ n \notin g.nodes => h.outEdges[n] = {}
               /\ n \in g.nodes => h = g
<1>1. CASE n \in g.nodes
  BY <1>1 DEF AddNode
<1>2. CASE n \notin g.nodes
  <2> DEFINE h == AddNode(g, n)
  <2>1. /\ h.nodes = g.nodes \cup {n}
        /\ h.outEdges = With(g.outEdges, n, {})
        /\ h.inDegree = With(g.inDegree, n, 0)
    BY <1>2 DEF AddNode
  <2> HIDE DEF h
  <2>2. /\ h.outEdges = [m \in h.nodes |-> IF m = n THEN {} ELSE g.outEdges[m]]
        /\ h.inDegree = [m \in h.nodes |-> IF m = n THEN 0 ELSE g.inDegree[m]]
    BY <1>2, <2>1 DEF WellFormed, Counted, With
  <2>3. WellFormed(h)
    <3>1. IsFiniteSet(h.nodes)
      BY <2>1, FS_AddElement DEF WellFormed
    <3>2. h.outEdges \in [h.nodes -> SUBSET h.nodes]
      BY <1>2, <2>1, <2>2 DEF WellFormed
    <3> QED BY <3>1, <3>2 DEF WellFormed
  <2>4. ASSUME NEW m \in h.nodes
        PROVE  h.inDegree[m] = Cardinality(Prerequisites(h, h.nodes, m))
    <3>1. CASE m = n
      <4>1. Prerequisites(h, h.nodes, m) = {}
        BY <1>2, <2>1, <2>2, <3>1 DEF Prerequisites, WellFormed
      <4> QED BY <2>2, <3>1, <4>1, FS_EmptySet
    <3>2. CASE m # n
      <4>1. Prerequisites(h, h.nodes, m) = Prerequisites(g, g.nodes, m)
        BY <1>2, <2>1, <2>2, <3>2 DEF Prerequisites, WellFormed
      <4> QED BY <2>1, <2>2, <3>2, <4>1 DEF Counted
    <3> QED BY <3>1, <3>2
  <2>5. Counted(h)
    BY <2>2, <2>4 DEF Counted
  <2> QED BY <1>2, <2>1, <2>2, <2>3, <2>5 DEF h
<1> QED BY <1>1, <1>2

\* Nor does it close a cycle.
LEMMA AddNodeOK ==
    ASSUME NEW g, GraphOK(g), NEW n
    PROVE  GraphOK(AddNode(g, n))
<1> DEFINE h == AddNode(g, n)
<1>1. /\ WellFormed(h) /\ Counted(h)
      /\ h.nodes = g.nodes \cup {n}
      /\ \A m \in g.nodes : h.outEdges[m] = g.outEdges[m]
      /\ n \notin g.nodes => h.outEdges[n] = {}
      /\ n \in g.nodes => h = g
  BY AddNodeIs DEF GraphOK
<1> HIDE DEF h
<1>2. CASE n \in g.nodes
  BY <1>1, <1>2 DEF h
<1>3. CASE n \notin g.nodes
  <2>1. ASSUME NEW T \in SUBSET h.nodes, T # {}
        PROVE  \E m \in T : Prerequisites(h, T, m) = {}
    <3>1. CASE T = {n}
      BY <1>1, <1>3, <3>1 DEF Prerequisites
    <3>2. CASE T # {n}
      <4> DEFINE S == T \ {n}
      <4>1. S \in SUBSET g.nodes /\ S # {}
        BY <1>1, <2>1, <3>2
      <4>2. PICK m \in S : Prerequisites(g, S, m) = {}
        BY <4>1 DEF GraphOK, NoCycle
      <4>3. Prerequisites(h, T, m) = {}
        BY <1>1, <1>3, <4>1, <4>2 DEF Prerequisites
      <4> QED BY <4>2, <4>3
    <3> QED BY <3>1, <3>2
  <2> QED BY <1>1, <2>1 DEF GraphOK, NoCycle, h
<1> QED BY <1>2, <1>3

\* An edge is recorded and counted once.
LEMMA LinkedIs ==
    ASSUME NEW g, WellFormed(g), Counted(g), NEW p \in g.nodes, NEW d \in g.nodes
    PROVE  LET h == Linked(g, p, d)
           IN  /\ WellFormed(h) /\ Counted(h) /\ h.nodes = g.nodes
               /\ \A m \in g.nodes : h.outEdges[m] =
                     IF m = p THEN g.outEdges[m] \cup {d} ELSE g.outEdges[m]
<1>1. CASE d \in g.outEdges[p]
  <2>1. Linked(g, p, d) = g
    BY <1>1 DEF Linked
  <2> QED BY <1>1, <2>1
<1>2. CASE d \notin g.outEdges[p]
  <2> DEFINE h == Linked(g, p, d)
             D == Prerequisites(g, g.nodes, d)
  <2>1. h = [g EXCEPT !.outEdges[p] = @ \cup {d}, !.inDegree[d] = @ + 1]
    BY <1>2 DEF Linked
  <2>2. /\ h.nodes = g.nodes
        /\ h.outEdges = [g.outEdges EXCEPT ![p] = @ \cup {d}]
        /\ h.inDegree = [g.inDegree EXCEPT ![d] = @ + 1]
    BY <2>1
  <2> HIDE DEF h
  <2>3. WellFormed(h)
    BY <2>2 DEF WellFormed
  <2>4. \A m \in g.nodes : h.outEdges[m] =
           IF m = p THEN g.outEdges[m] \cup {d} ELSE g.outEdges[m]
    BY <2>2 DEF WellFormed
  <2>5. IsFiniteSet(D) /\ Cardinality(D) \in Nat
    BY FS_Subset, FS_CardinalityType DEF WellFormed, Prerequisites
  <2>6. Cardinality(D \cup {p}) = Cardinality(D) + 1
    <3>1. p \notin D
      BY <1>2 DEF Prerequisites
    <3> HIDE DEF D
    <3> QED BY <2>5, <3>1, FS_AddElement
  <2>7. ASSUME NEW m \in g.nodes
        PROVE  h.inDegree[m] = Cardinality(Prerequisites(h, h.nodes, m))
    <3>1. CASE m = d
      <4>1. Prerequisites(h, h.nodes, m) = D \cup {p}
        BY <2>2, <2>4, <3>1 DEF Prerequisites
      <4>2. h.inDegree[m] = Cardinality(D) + 1
        BY <2>2, <3>1 DEF Counted
      <4> QED BY <2>6, <4>1, <4>2
    <3>2. CASE m # d
      <4>1. Prerequisites(h, h.nodes, m) = Prerequisites(g, g.nodes, m)
        BY <2>2, <2>4, <3>2 DEF Prerequisites
      <4> QED BY <2>2, <3>2, <4>1 DEF Counted
    <3> QED BY <3>1, <3>2
  <2>8. Counted(h)
    BY <2>2, <2>7 DEF Counted
  <2> QED BY <2>2, <2>3, <2>4, <2>8 DEF h
<1> QED BY <1>1, <1>2

\* An edge closes no cycle unless there is a way back.
LEMMA LinkedOK ==
    ASSUME NEW g, GraphOK(g), NEW p \in g.nodes, NEW d \in g.nodes,
           ~HasPath(g, d, p)
    PROVE  GraphOK(Linked(g, p, d))
<1> DEFINE h == Linked(g, p, d)
<1>1. /\ WellFormed(h) /\ Counted(h) /\ h.nodes = g.nodes
      /\ \A m \in g.nodes : h.outEdges[m] =
            IF m = p THEN g.outEdges[m] \cup {d} ELSE g.outEdges[m]
  BY LinkedIs DEF GraphOK
<1> HIDE DEF h
<1>2. PICK U \in SUBSET g.nodes : d \in U /\ Closed(g, U) /\ p \notin U
  BY HasPathExact DEF GraphOK
<1>3. ASSUME NEW T \in SUBSET g.nodes, T # {}
      PROVE  \E n \in T : Prerequisites(h, T, n) = {}
  <2>1. CASE p \notin T
    <3>1. \A n \in T : Prerequisites(h, T, n) = Prerequisites(g, T, n)
      BY <1>1, <1>3, <2>1 DEF Prerequisites
    <3> QED BY <1>3, <3>1 DEF GraphOK, NoCycle
  <2>2. CASE p \in T
    <3> DEFINE S == T \ U
    <3>1. S \in SUBSET g.nodes /\ S # {}
      BY <1>2, <1>3, <2>2
    <3>2. PICK n \in S : Prerequisites(g, S, n) = {}
      BY <3>1 DEF GraphOK, NoCycle
    <3>3. ASSUME NEW m \in T, n \in h.outEdges[m] PROVE FALSE
      <4>1. n # d
        BY <1>2, <3>2
      <4>2. n \in g.outEdges[m]
        BY <1>1, <1>3, <3>3, <4>1
      <4>3. m \in U
        BY <3>2, <4>2, <3>3 DEF Prerequisites
      <4> QED BY <1>2, <3>2, <4>2, <4>3 DEF Closed
    <3>4. Prerequisites(h, T, n) = {}
      BY <3>3 DEF Prerequisites
    <3> QED BY <3>2, <3>4
  <2> QED BY <2>1, <2>2
<1> QED BY <1>1, <1>3 DEF GraphOK, NoCycle, h
-----------------------------------------------------------------------------
(***************************************************************************)
(* The batches.                                                            *)
(***************************************************************************)

\* The local state of TopologicalBatches, and what one round makes of it.
Local(g) == [inDegree : [g.nodes -> Int], processed : SUBSET g.nodes,
             batch : SUBSET g.nodes]

Take(g, r) ==
    LET batch == {n \in g.nodes \ r.processed : r.inDegree[n] = 0}
    IN  [inDegree  |-> [n \in g.nodes |->
             r.inDegree[n] - Cardinality({m \in batch : n \in g.outEdges[m]})],
         processed |-> r.processed \cup batch,
         batch     |-> batch]

Rounds(r, g) ==
    /\ r \in [Nat -> Local(g)]
    /\ r[0] = [inDegree |-> g.inDegree, processed |-> {}, batch |-> {}]
    /\ \A k \in Nat : r[k + 1] = Take(g, r[k])

\* The last round that finds a batch.
IsLast(r, g, k) ==
    /\ k \in 0 .. Cardinality(g.nodes)
    /\ r[k + 1].batch = {}
    /\ \A j \in 1 .. k : r[j].batch # {}

LEMMA TakeType ==
    ASSUME NEW g, WellFormed(g), NEW r \in Local(g)
    PROVE  Take(g, r) \in Local(g)
<1> DEFINE batch == {n \in g.nodes \ r.processed : r.inDegree[n] = 0}
<1>1. batch \in SUBSET g.nodes /\ IsFiniteSet(batch)
  BY FS_Subset DEF WellFormed
<1>2. ASSUME NEW n \in g.nodes
      PROVE  Cardinality({m \in batch : n \in g.outEdges[m]}) \in Int
  <2>1. {m \in batch : n \in g.outEdges[m]} \in SUBSET batch
    OBVIOUS
  <2> HIDE DEF batch
  <2>2. Cardinality({m \in batch : n \in g.outEdges[m]}) \in Nat
    BY <1>1, <2>1, FS_Subset, FS_CardinalityType
  <2> QED BY <2>2
<1>3. \A n \in g.nodes : r.inDegree[n] \in Int
  BY DEF Local
<1>4. r.processed \cup batch \in SUBSET g.nodes
  BY <1>1 DEF Local
<1> DEFINE degree == [n \in g.nodes |->
             r.inDegree[n] - Cardinality({m \in batch : n \in g.outEdges[m]})]
<1>5. Take(g, r) = [inDegree |-> degree, processed |-> r.processed \cup batch,
                    batch |-> batch]
  BY DEF Take
<1>6. degree \in [g.nodes -> Int]
  <2> HIDE DEF batch
  <2> QED BY <1>2, <1>3
<1> HIDE DEF batch, degree
<1> QED BY <1>1, <1>4, <1>5, <1>6 DEF Local

LEMMA RoundsExist ==
    ASSUME NEW g, WellFormed(g), Counted(g)
    PROVE  \E r : /\ Rounds(r, g)
                  /\ LET last == CHOOSE k \in 0 .. Cardinality(g.nodes) :
                                    /\ r[k + 1].batch = {}
                                    /\ \A j \in 1 .. k : r[j].batch # {}
                     IN  TopologicalBatches(g) =
                            [batches |-> [k \in 1 .. last |-> r[k].batch],
                             err     |-> r[last].processed # g.nodes]
<1> DEFINE v == [inDegree |-> g.inDegree, processed |-> {}, batch |-> {}]
           G == [r \in Local(g) |-> Take(g, r)]
           Rec(f) == [k \in Nat |->
                IF k = 0
                THEN [inDegree |-> g.inDegree, processed |-> {}, batch |-> {}]
                ELSE LET r     == f[k - 1]
                         batch == {n \in g.nodes \ r.processed : r.inDegree[n] = 0}
                     IN  [inDegree  |-> [n \in g.nodes |->
                              r.inDegree[n]
                                - Cardinality({m \in batch : n \in g.outEdges[m]})],
                          processed |-> r.processed \cup batch,
                          batch     |-> batch]]
           s == CHOOSE f : f = Rec(f)
<1>1. v \in Local(g)
  <2>1. \A n \in g.nodes : Cardinality(Prerequisites(g, g.nodes, n)) \in Nat
    BY FS_Subset, FS_CardinalityType DEF WellFormed, Prerequisites
  <2> QED BY <2>1 DEF Local, Counted
<1>2. G \in [Local(g) -> Local(g)]
  BY TakeType
<1>3. PICK f \in [Nat -> Local(g)] :
         f[0] = v /\ \A n \in Nat : f[n + 1] = G[f[n]]
  <2> DEFINE V == Local(g)
  <2>1. v \in V /\ G \in [V -> V]
    BY <1>1, <1>2
  <2> HIDE DEF v, G, V
  <2>2. \E f \in [Nat -> V] : f[0] = v /\ \A n \in Nat : f[n + 1] = G[f[n]]
    BY <2>1, Iteration
  <2> QED BY <2>2 DEF V
<1>4. f = Rec(f)
  <2>1. ASSUME NEW k \in Nat PROVE f[k] = Rec(f)[k]
    <3>1. CASE k = 0
      BY <1>3, <3>1
    <3>2. CASE k # 0
      <4>1. k - 1 \in Nat /\ (k - 1) + 1 = k
        BY <3>2
      <4>2. f[k] = G[f[k - 1]] /\ f[k - 1] \in Local(g)
        BY <1>3, <4>1
      <4>3. f[k] = Take(g, f[k - 1])
        BY <4>2
      <4> QED BY <3>2, <4>3 DEF Take
    <3> QED BY <3>1, <3>2
  <2> HIDE DEF Rec
  <2>2. Rec(f) = [k \in Nat |-> Rec(f)[k]]
    BY DEF Rec
  <2> QED BY <1>3, <2>1, <2>2
<1>5. s = Rec(s)
  <2> HIDE DEF Rec
  <2> QED BY <1>4
<1>6. s[0] = v
  <2> HIDE DEF s
  <2> QED BY <1>5
<1>7. ASSUME NEW k \in Nat PROVE s[k + 1] = Take(g, s[k])
  <2>1. k + 1 # 0 /\ k + 1 \in Nat /\ (k + 1) - 1 = k
    OBVIOUS
  <2> HIDE DEF s
  <2>2. s[k + 1] = Rec(s)[k + 1]
    BY <1>5
  <2> QED BY <2>1, <2>2 DEF Take
<1>8. s \in [Nat -> Local(g)]
  <2> DEFINE P == {n \in Nat : s[n] \in Local(g)}
  <2>1. 0 \in P
    BY <1>1, <1>6
  <2>2. ASSUME NEW n \in Nat, n \in P PROVE n + 1 \in P
    <3> HIDE DEF s
    <3> QED BY <1>7, <2>2, TakeType
  <2>3. Nat \subseteq P
    <3> HIDE DEF P
    <3> QED BY <2>1, <2>2, Induction
  <2>4. s = [k \in Nat |-> s[k]]
    <3> HIDE DEF s
    <3> QED BY <1>5
  <2> HIDE DEF s
  <2> QED BY <2>3, <2>4
<1>9. LET last == CHOOSE k \in 0 .. Cardinality(g.nodes) :
                     /\ s[k + 1].batch = {}
                     /\ \A j \in 1 .. k : s[j].batch # {}
      IN  TopologicalBatches(g) =
             [batches |-> [k \in 1 .. last |-> s[k].batch],
              err     |-> s[last].processed # g.nodes]
  BY Zenon DEF TopologicalBatches
<1> HIDE DEF s
<1>10. Rounds(s, g)
  BY <1>6, <1>7, <1>8 DEF Rounds
<1> QED BY <1>9, <1>10
Left(r, g, k) == g.nodes \ r[k].processed

\* A round takes the nodes whose prerequisites have all been processed.
LEMMA RoundTakes ==
    ASSUME NEW g, WellFormed(g), Counted(g), NEW r, Rounds(r, g), NEW k \in Nat
    PROVE  /\ r[k].processed \subseteq g.nodes
           /\ r[k + 1].batch =
                 {n \in Left(r, g, k) : Prerequisites(g, Left(r, g, k), n) = {}}
           /\ r[k + 1].processed = r[k].processed \cup r[k + 1].batch
           /\ r[k + 1].batch \cap r[k].processed = {}
<1> DEFINE Exact(j) ==
             \A n \in g.nodes :
                r[j].inDegree[n] = Cardinality(Prerequisites(g, Left(r, g, j), n))
           P == {j \in Nat : Exact(j)}
<1>1. ASSUME NEW j \in Nat
      PROVE  /\ r[j] \in Local(g)
             /\ r[j + 1].batch = {n \in Left(r, g, j) : r[j].inDegree[n] = 0}
             /\ r[j + 1].processed = r[j].processed \cup r[j + 1].batch
             /\ \A n \in g.nodes : r[j + 1].inDegree[n] = r[j].inDegree[n]
                   - Cardinality({m \in r[j + 1].batch : n \in g.outEdges[m]})
  <2>1. r[j] \in Local(g) /\ r[j + 1] = Take(g, r[j])
    BY DEF Rounds
  <2> QED BY <2>1 DEF Take, Left
<1>2. ASSUME NEW T \in SUBSET g.nodes, NEW n
      PROVE  IsFiniteSet(Prerequisites(g, T, n))
  <2>1. Prerequisites(g, T, n) \in SUBSET g.nodes
    BY DEF Prerequisites
  <2> QED BY <2>1, FS_Subset DEF WellFormed
<1>3. Exact(0)
  <2>1. r[0].inDegree = g.inDegree /\ Left(r, g, 0) = g.nodes
    BY DEF Rounds, Left
  <2> QED BY <2>1 DEF Counted
<1>4. ASSUME NEW j \in Nat, Exact(j) PROVE Exact(j + 1)
  <2> SUFFICES ASSUME NEW n \in g.nodes
               PROVE  r[j + 1].inDegree[n] =
                         Cardinality(Prerequisites(g, Left(r, g, j + 1), n))
    OBVIOUS
  <2> DEFINE A == Prerequisites(g, Left(r, g, j), n)
             B == {m \in r[j + 1].batch : n \in g.outEdges[m]}
  <2>1. B \subseteq A /\ A \cap B = B
    BY <1>1 DEF Prerequisites, Left
  <2>2. Prerequisites(g, Left(r, g, j + 1), n) = A \ B
    BY <1>1 DEF Prerequisites, Left
  <2>3. IsFiniteSet(A)
    BY <1>2 DEF Left
  <2>4. r[j + 1].inDegree[n] = Cardinality(A) - Cardinality(B)
    BY <1>1, <1>4
  <2> HIDE DEF A, B
  <2>5. Cardinality(A \ B) = Cardinality(A) - Cardinality(B)
    BY <2>1, <2>3, FS_Difference
  <2> QED BY <2>2, <2>4, <2>5
<1> HIDE DEF Exact
<1>5. Nat \subseteq P
  <2>1. 0 \in P /\ \A j \in Nat : j \in P => j + 1 \in P
    BY <1>3, <1>4
  <2> HIDE DEF P
  <2> QED BY <2>1, Induction
<1>6. Exact(k)
  BY <1>5
<1>7. ASSUME NEW n \in Left(r, g, k)
      PROVE  r[k].inDegree[n] = 0 <=> Prerequisites(g, Left(r, g, k), n) = {}
  <2>1. n \in g.nodes
    BY DEF Left
  <2>2. IsFiniteSet(Prerequisites(g, Left(r, g, k), n))
    BY <1>2 DEF Left
  <2>3. r[k].inDegree[n] = Cardinality(Prerequisites(g, Left(r, g, k), n))
    BY <1>6, <2>1 DEF Exact
  <2> QED BY <2>2, <2>3, FS_EmptySet
<1>8. r[k].processed \subseteq g.nodes
  BY <1>1 DEF Local
<1>9. r[k + 1].batch \cap r[k].processed = {}
  BY <1>1 DEF Left
<1> QED BY <1>1, <1>7, <1>8, <1>9

\* The processed nodes are those of the batches so far, which are disjoint.
LEMMA ProcessedIs ==
    ASSUME NEW g, WellFormed(g), Counted(g), NEW r, Rounds(r, g)
    PROVE  /\ r[0].processed = {}
           /\ \A k \in Nat : \A n \in r[k].processed :
                 \E j \in 1 .. k : n \in r[j].batch
           /\ \A k \in Nat : \A j \in 1 .. k : r[j].batch \subseteq r[k].processed
           /\ \A j, k \in Nat \ {0} : j # k => r[j].batch \cap r[k].batch = {}
<1>1. \A k \in Nat : /\ r[k + 1].processed = r[k].processed \cup r[k + 1].batch
                     /\ r[k + 1].batch \cap r[k].processed = {}
  BY RoundTakes
<1>2. r[0].processed = {}
  BY DEF Rounds
<1> DEFINE Good(k) == /\ \A n \in r[k].processed : \E j \in 1 .. k : n \in r[j].batch
                      /\ \A j \in 1 .. k : r[j].batch \subseteq r[k].processed
           P == {k \in Nat : Good(k)}
<1>3. Good(0)
  BY <1>2
<1>4. ASSUME NEW k \in Nat, Good(k) PROVE Good(k + 1)
  <2>1. ASSUME NEW n \in r[k + 1].processed
        PROVE  \E j \in 1 .. k + 1 : n \in r[j].batch
    <3>1. CASE n \in r[k].processed
      <4>1. PICK j \in 1 .. k : n \in r[j].batch
        BY <1>4, <3>1
      <4> QED BY <4>1
    <3>2. CASE n \in r[k + 1].batch
      BY <3>2
    <3> QED BY <1>1, <2>1, <3>1, <3>2
  <2>2. ASSUME NEW j \in 1 .. k + 1
        PROVE  r[j].batch \subseteq r[k + 1].processed
    <3>1. CASE j = k + 1
      BY <1>1, <3>1
    <3>2. CASE j # k + 1
      <4>1. j \in 1 .. k
        BY <3>2
      <4> QED BY <1>1, <1>4, <4>1
    <3> QED BY <3>1, <3>2
  <2> QED BY <2>1, <2>2
<1> HIDE DEF Good
<1>5. \A k \in Nat : Good(k)
  <2>1. 0 \in P /\ \A k \in Nat : k \in P => k + 1 \in P
    BY <1>3, <1>4
  <2>2. Nat \subseteq P
    <3> HIDE DEF P
    <3> QED BY <2>1, Induction
  <2> QED BY <2>2
<1>6. ASSUME NEW j \in Nat \ {0}, NEW k \in Nat \ {0}, j < k
      PROVE  r[j].batch \cap r[k].batch = {}
  <2>1. k - 1 \in Nat /\ (k - 1) + 1 = k /\ j \in 1 .. k - 1
    BY <1>6
  <2>2. r[j].batch \subseteq r[k - 1].processed
    BY <1>5, <2>1 DEF Good
  <2>3. r[k].batch \cap r[k - 1].processed = {}
    BY <1>1, <2>1
  <2> QED BY <2>2, <2>3
<1>7. \A j, k \in Nat \ {0} : j # k => r[j].batch \cap r[k].batch = {}
  <2>1. \A j, k \in Nat \ {0} : j # k => j < k \/ k < j
    OBVIOUS
  <2> QED BY <1>6, <2>1
<1> QED BY <1>2, <1>5, <1>7 DEF Good

\* Within the number of nodes there is a round that finds no batch.
LEMMA LastExists ==
    ASSUME NEW g, WellFormed(g), Counted(g), NEW r, Rounds(r, g)
    PROVE  \E k \in 0 .. Cardinality(g.nodes) : IsLast(r, g, k)
<1> DEFINE N == Cardinality(g.nodes)
           E == {k \in Nat : r[k + 1].batch = {}}
           P == {n \in Nat : (\A j \in 1 .. n : r[j].batch # {})
                                => Cardinality(r[n].processed) >= n}
<1>1. N \in Nat /\ IsFiniteSet(g.nodes)
  BY FS_CardinalityType DEF WellFormed
<1>2. \A n \in Nat : /\ IsFiniteSet(r[n].processed)
                     /\ Cardinality(r[n].processed) \in Nat
                     /\ Cardinality(r[n].processed) <= N
  <2>1. \A n \in Nat : r[n].processed \in SUBSET g.nodes
    BY RoundTakes
  <2> QED BY <1>1, <2>1, FS_Subset, FS_CardinalityType
<1>3. 0 \in P
  BY <1>2
<1>4. ASSUME NEW n \in Nat, n \in P PROVE n + 1 \in P
  <2> SUFFICES ASSUME \A j \in 1 .. n + 1 : r[j].batch # {}
               PROVE  Cardinality(r[n + 1].processed) >= n + 1
    OBVIOUS
  <2>1. Cardinality(r[n].processed) >= n
    BY <1>4
  <2>2. /\ r[n + 1].processed = r[n].processed \cup r[n + 1].batch
        /\ r[n + 1].batch \cap r[n].processed = {}
    BY RoundTakes
  <2>3. r[n + 1].batch # {}
    OBVIOUS
  <2>4. r[n].processed \in SUBSET r[n + 1].processed
        /\ r[n].processed # r[n + 1].processed
    BY <2>2, <2>3
  <2>5. /\ Cardinality(r[n].processed) <= Cardinality(r[n + 1].processed)
        /\ Cardinality(r[n].processed) # Cardinality(r[n + 1].processed)
    BY <1>2, <2>4, FS_Subset
  <2> HIDE DEF N
  <2> QED BY <1>2, <2>1, <2>5
<1>5. Nat \subseteq P
  <2> HIDE DEF P
  <2> QED BY <1>3, <1>4, Induction
<1>6. \E k \in 0 .. N : k \in E
  <2> SUFFICES ASSUME \A k \in 0 .. N : k \notin E PROVE FALSE
    OBVIOUS
  <2>1. N + 1 \in Nat
    BY <1>1
  <2>2. ASSUME NEW j \in 1 .. N + 1 PROVE r[j].batch # {}
    <3>1. j - 1 \in 0 .. N /\ j - 1 \in Nat /\ (j - 1) + 1 = j
      BY <1>1
    <3>2. j - 1 \notin E
      BY <3>1
    <3> QED BY <3>1, <3>2
  <2>3. Cardinality(r[N + 1].processed) >= N + 1
    BY <1>5, <2>1, <2>2
  <2> HIDE DEF N
  <2> QED BY <1>1, <1>2, <2>1, <2>3
<1>7. PICK k \in E : \A j \in E : k <= j
  <2>1. E \in SUBSET Nat /\ E # {}
    BY <1>1, <1>6
  <2> HIDE DEF E
  <2> QED BY <2>1, LeastNumber
<1>8. k \in 0 .. N
  BY <1>1, <1>6, <1>7
<1>9. ASSUME NEW j \in 1 .. k PROVE r[j].batch # {}
  <2>1. j - 1 \in Nat /\ (j - 1) + 1 = j /\ ~(k <= j - 1)
    BY <1>8, <1>1
  <2>2. j - 1 \notin E
    BY <1>7, <2>1
  <2> QED BY <2>1, <2>2
<1> QED BY <1>7, <1>8, <1>9 DEF IsLast
(***************************************************************************)
(* The batches of a graph without a cycle have every node once, a node     *)
(* only after its prerequisites, and none later than it could be.          *)
(***************************************************************************)
LEMMA BatchesOfGraph ==
    ASSUME NEW g, GraphOK(g)
    PROVE  LET b == TopologicalBatches(g).batches
           IN  /\ ~TopologicalBatches(g).err
               /\ \E n \in Nat : DOMAIN b = 1 .. n
               /\ b = [k \in DOMAIN b |-> b[k]]
               /\ UNION {b[k] : k \in DOMAIN b} = g.nodes
               /\ \A j, k \in DOMAIN b : j # k => b[j] \cap b[k] = {}
               /\ \A j, k \in DOMAIN b : \A m \in b[j], n \in b[k] :
                     n \in g.outEdges[m] => j < k
               /\ \A k \in DOMAIN b \ {1} : \A n \in b[k] :
                     \E m \in b[k - 1] : n \in g.outEdges[m]
<1> DEFINE b == TopologicalBatches(g).batches
<1>0. WellFormed(g) /\ NoCycle(g) /\ Counted(g)
  BY DEF GraphOK
<1>1. PICK r : /\ Rounds(r, g)
               /\ LET last == CHOOSE k \in 0 .. Cardinality(g.nodes) :
                                 /\ r[k + 1].batch = {}
                                 /\ \A j \in 1 .. k : r[j].batch # {}
                  IN  TopologicalBatches(g) =
                         [batches |-> [k \in 1 .. last |-> r[k].batch],
                          err     |-> r[last].processed # g.nodes]
  BY <1>0, RoundsExist
<1> DEFINE last == CHOOSE k \in 0 .. Cardinality(g.nodes) :
                      /\ r[k + 1].batch = {}
                      /\ \A j \in 1 .. k : r[j].batch # {}
<1>2. IsLast(r, g, last)
  <2>1. \E k \in 0 .. Cardinality(g.nodes) :
           /\ r[k + 1].batch = {}
           /\ \A j \in 1 .. k : r[j].batch # {}
    BY <1>0, <1>1, LastExists, ZenonT(30) DEF IsLast
  <2> QED BY <2>1 DEF IsLast
<1>3. /\ b = [k \in 1 .. last |-> r[k].batch]
      /\ TopologicalBatches(g).err = (r[last].processed # g.nodes)
  <2> DEFINE l == last
  <2>1. TopologicalBatches(g) = [batches |-> [k \in 1 .. l |-> r[k].batch],
                                 err     |-> r[l].processed # g.nodes]
    BY <1>1
  <2> HIDE DEF l
  <2> QED BY <2>1 DEF l
<1> HIDE DEF last
<1>4. last \in Nat /\ DOMAIN b = 1 .. last /\ \A k \in 1 .. last : b[k] = r[k].batch
  <2>1. Cardinality(g.nodes) \in Nat
    BY <1>0, FS_CardinalityType DEF WellFormed
  <2> QED BY <1>2, <1>3, <2>1 DEF IsLast
<1>5. \A k \in Nat :
         /\ r[k].processed \subseteq g.nodes
         /\ r[k + 1].batch =
               {n \in Left(r, g, k) : Prerequisites(g, Left(r, g, k), n) = {}}
         /\ r[k + 1].processed = r[k].processed \cup r[k + 1].batch
         /\ r[k + 1].batch \cap r[k].processed = {}
  BY <1>0, <1>1, RoundTakes
<1>6. /\ \A k \in Nat : \A n \in r[k].processed : \E j \in 1 .. k : n \in r[j].batch
      /\ \A k \in Nat : \A j \in 1 .. k : r[j].batch \subseteq r[k].processed
      /\ \A j, k \in Nat \ {0} : j # k => r[j].batch \cap r[k].batch = {}
  BY <1>0, <1>1, ProcessedIs
<1>7. r[last].processed = g.nodes
  <2>1. r[last + 1].batch = {}
    BY <1>2 DEF IsLast
  <2>2. Left(r, g, last) \in SUBSET g.nodes
    BY DEF Left
  <2>3. Left(r, g, last) = {}
    BY <1>0, <1>4, <1>5, <2>1, <2>2, ZenonT(30) DEF NoCycle
  <2> QED BY <1>4, <1>5, <2>3 DEF Left
<1> HIDE DEF b
<1>8. UNION {b[k] : k \in DOMAIN b} = g.nodes
  <2>1. ASSUME NEW n \in g.nodes PROVE \E k \in DOMAIN b : n \in b[k]
    BY <1>4, <1>6, <1>7
  <2>2. ASSUME NEW k \in DOMAIN b PROVE b[k] \subseteq g.nodes
    BY <1>4, <1>6, <1>7
  <2> QED BY <2>1, <2>2
<1>9. \A j, k \in DOMAIN b : j # k => b[j] \cap b[k] = {}
  <2>1. \A k \in DOMAIN b : k \in Nat \ {0} /\ b[k] = r[k].batch
    BY <1>4
  <2> QED BY <1>6, <2>1
<1>10. ASSUME NEW j \in DOMAIN b, NEW k \in DOMAIN b, NEW m \in b[j], NEW n \in b[k],
              n \in g.outEdges[m]
       PROVE  j < k
  <2>1. j \in 1 .. last /\ k \in 1 .. last /\ k - 1 \in Nat /\ (k - 1) + 1 = k
        /\ last \in Nat
    BY <1>4
  <2>2. m \in r[j].batch /\ n \in r[k].batch
    BY <1>4, <2>1
  <2>3. Prerequisites(g, Left(r, g, k - 1), n) = {}
    BY <1>5, <2>1, <2>2
  <2>4. m \in g.nodes
    BY <1>8
  <2>5. m \in r[k - 1].processed
    BY <1>10, <2>3, <2>4 DEF Prerequisites, Left
  <2>6. PICK i \in 1 .. k - 1 : m \in r[i].batch
    BY <1>6, <2>1, <2>5
  <2>7. i = j
    BY <1>6, <2>1, <2>2, <2>6
  <2> QED BY <2>1, <2>6, <2>7
<1>11. ASSUME NEW k \in DOMAIN b \ {1}, NEW n \in b[k]
       PROVE  \E m \in b[k - 1] : n \in g.outEdges[m]
  <2>1. /\ k \in 2 .. last /\ last \in Nat
        /\ k - 1 \in Nat /\ (k - 1) + 1 = k /\ k - 2 \in Nat /\ (k - 2) + 1 = k - 1
        /\ k - 1 \in 1 .. last
    BY <1>4
  <2>2. n \in r[k].batch /\ b[k - 1] = r[k - 1].batch
    BY <1>4, <2>1
  <2>3. n \in Left(r, g, k - 1) /\ Prerequisites(g, Left(r, g, k - 1), n) = {}
    BY <1>5, <2>1, <2>2
  <2>4. r[k - 1].processed = r[k - 2].processed \cup r[k - 1].batch
    BY <1>5, <2>1
  <2>5. n \in Left(r, g, k - 2) /\ n \notin r[k - 1].batch
    BY <2>3, <2>4 DEF Left
  <2>6. Prerequisites(g, Left(r, g, k - 2), n) # {}
    BY <1>5, <2>1, <2>5
  <2>7. PICK m \in Left(r, g, k - 2) : n \in g.outEdges[m]
    BY <2>6 DEF Prerequisites
  <2>8. m \notin Left(r, g, k - 1)
    BY <2>3, <2>7 DEF Prerequisites
  <2>9. m \in r[k - 1].batch
    BY <2>4, <2>7, <2>8 DEF Left
  <2> QED BY <2>2, <2>7, <2>9
<1>12. ~TopologicalBatches(g).err
  BY <1>3, <1>7
<1>13. b = [k \in DOMAIN b |-> b[k]]
  <2> HIDE DEF b
  <2> QED BY <1>3
<1> QED BY <1>13, <1>4, <1>8, <1>9, <1>10, <1>11, <1>12 DEF b

-----------------------------------------------------------------------------
(***************************************************************************)
(* BuildUpgradeDAG.                                                        *)
(***************************************************************************)

\* A way back is a cycle once the edge is there: every node on the way waits
\* for another one.
LEMMA WayBackIsCycle ==
    ASSUME NEW g, WellFormed(g), g.nodes \subseteq Names,
           NEW p \in g.nodes, NEW d \in g.nodes, HasPath(g, d, p),
           NEW E, <<p, d>> \in E,
           \A m, n \in g.nodes : n \in g.outEdges[m] => <<m, n>> \in E
    PROVE  HasCycle(E)
<1> DEFINE D == {n \in g.nodes : \A U \in SUBSET g.nodes :
                                     d \in U /\ Closed(g, U) => n \in U}
<1>1. p \in D /\ d \in D
  BY HasPathExact
<1>2. ASSUME NEW n \in D PROVE \E m \in D : <<m, n>> \in E
  <2>1. CASE n = d
    BY <1>1, <2>1
  <2>2. CASE n # d
    <3> SUFFICES ASSUME \A m \in D : <<m, n>> \notin E
                 PROVE  FALSE
      OBVIOUS
    <3> DEFINE U == D \ {n}
    <3>1. U \in SUBSET g.nodes /\ d \in U
      BY <1>1, <2>2
    <3>2. ASSUME NEW m \in U, NEW k \in g.outEdges[m] PROVE k \in U
      <4>1. m \in g.nodes /\ k \in g.nodes
        BY <3>1, <3>2 DEF WellFormed
      <4>2. <<m, k>> \in E
        BY <3>2, <4>1
      <4>3. k # n
        BY <3>2, <4>2
      <4>4. k \in D
        BY <3>2, <4>1 DEF Closed
      <4> QED BY <4>3, <4>4
    <3>3. Closed(g, U)
      BY <3>2 DEF Closed
    <3> QED BY <3>1, <3>3
  <2> QED BY <2>1, <2>2
<1>3. D \in SUBSET Names
  OBVIOUS
<1> HIDE DEF D
<1> QED BY <1>1, <1>2, <1>3 DEF HasCycle

\* What an edge between two components of the graph brings about.
LEMMA AddEdgeIs ==
    ASSUME NEW g, GraphOK(g), NEW p \in g.nodes, NEW d \in g.nodes, p # d
    PROVE  LET r == AddEdge(g, p, d)
           IN  \/ HasPath(g, d, p) /\ r.graph = g /\ r.err = "cycle"
               \/ ~HasPath(g, d, p) /\ r.graph = Linked(g, p, d) /\ r.err = "none"
<1>1. AddNode(AddNode(g, p), d) = g
  BY DEF AddNode
<1> QED BY <1>1 DEF AddEdge

\* The graph is in order, and has the edges that were asked for; the last one
\* is missing if it was refused.
GraphInv ==
    /\ GraphOK(graph) /\ graph.nodes = components
    /\ EdgePairs \subseteq requested
    /\ phase # "failed" => EdgePairs = requested /\ failure = "none"

BuildInv == GraphTypeOK /\ GraphInv /\ RejectedForCause

LEMMA BuildStarts == BuildInit => BuildInv
<1> SUFFICES ASSUME BuildInit PROVE BuildInv
  OBVIOUS
<1>1. graph = [nodes |-> {}, outEdges |-> <<>>, inDegree |-> <<>>]
  BY DEF BuildInit, NewGraph
<1>2. /\ graph.nodes = {} /\ graph.outEdges = [n \in {} |-> {}]
      /\ graph.inDegree = [n \in {} |-> 0]
  BY <1>1
<1>3. WellFormed(graph)
  BY <1>2, FS_EmptySet DEF WellFormed
<1>4. NoCycle(graph) /\ Counted(graph)
  BY <1>2 DEF NoCycle, Counted
<1>5. EdgePairs = {}
  BY DEF EdgePairs, BuildInit
<1>6. GraphTypeOK
  BY <1>2 DEF GraphTypeOK, BuildInit, Failures
<1>7. RejectedForCause
  BY <1>5 DEF RejectedForCause, BuildInit
<1> QED BY <1>2, <1>3, <1>4, <1>5, <1>6, <1>7 DEF BuildInv, GraphInv, GraphOK, BuildInit

\* The types of a graph follow from its order.
LEMMA GraphType ==
    ASSUME NEW g, GraphOK(g)
    PROVE  /\ g.outEdges \in [g.nodes -> SUBSET g.nodes]
           /\ g.inDegree \in [g.nodes -> Nat]
<1>1. \A n \in g.nodes : Cardinality(Prerequisites(g, g.nodes, n)) \in Nat
  BY FS_Subset, FS_CardinalityType DEF GraphOK, WellFormed, Prerequisites
<1> QED BY <1>1 DEF GraphOK, WellFormed, Counted

\* A step that leaves the graph as it is, and may fail.
LEMMA SameGraph ==
    ASSUME BuildInv, UNCHANGED <<components, graph, requested>>,
           \/ /\ phase' \in {"dependencies", "built"}
              /\ phase = "built" => phase' = "built"
              /\ phase # "failed"
              /\ failure' = failure
           \/ /\ phase' = "failed"
              /\ failure' \in Failures \ {"cycle", "invalid", "self-edge"}
           \/ phase' = phase /\ failure' = failure
    PROVE  BuildInv'
<1>1. EdgePairs' = EdgePairs
  BY DEF EdgePairs
<1>2. GraphTypeOK'
  BY DEF BuildInv, GraphTypeOK
<1>3. GraphInv'
  BY <1>1 DEF BuildInv, GraphInv
<1>4. RejectedForCause'
  BY <1>1 DEF BuildInv, GraphInv, RejectedForCause
<1> QED BY <1>2, <1>3, <1>4 DEF BuildInv

LEMMA ListStep ==
    ASSUME BuildInv, NEW n \in Names \cup {NoName}, ListComponent(n)
    PROVE  BuildInv'
<1>1. CASE UNCHANGED <<components, graph>>
  <2>1. phase' = "failed" /\ failure' \in {"empty name", "duplicate"}
        /\ UNCHANGED requested
    <3>1. \/ n = NoName /\ Refuse("empty name")
          \/ n \in components /\ Refuse("duplicate")
      BY <1>1 DEF ListComponent
    <3> QED BY <3>1 DEF Refuse, ListComponent
  <2> QED BY <1>1, <2>1, SameGraph DEF Failures
<1>2. CASE ~UNCHANGED <<components, graph>>
  <2>1. /\ phase = "list" /\ UNCHANGED <<requested, phase, failure>>
        /\ n \in Names \ components
        /\ components' = components \cup {n} /\ graph' = AddNode(graph, n)
    BY <1>2 DEF ListComponent
  <2>2. /\ GraphOK(graph) /\ graph.nodes = components
        /\ EdgePairs = requested /\ failure = "none"
    BY <2>1 DEF BuildInv, GraphInv
  <2>3. /\ graph'.nodes = graph.nodes \cup {n}
        /\ \A m \in graph.nodes : graph'.outEdges[m] = graph.outEdges[m]
        /\ graph'.outEdges[n] = {}
    BY <2>1, <2>2, AddNodeIs DEF GraphOK
  <2>4. GraphOK(graph')
    BY <2>1, <2>2, AddNodeOK
  <2>5. EdgePairs' = EdgePairs
    BY <2>1, <2>2, <2>3 DEF EdgePairs
  <2>6. GraphTypeOK'
    <3>1. /\ graph'.outEdges \in [graph'.nodes -> SUBSET graph'.nodes]
          /\ graph'.inDegree \in [graph'.nodes -> Nat]
      BY <2>4, GraphType
    <3> QED BY <2>1, <2>2, <2>3, <3>1 DEF BuildInv, GraphTypeOK
  <2>7. GraphInv'
    BY <2>1, <2>2, <2>3, <2>4, <2>5 DEF GraphInv
  <2>8. RejectedForCause'
    BY <2>1, <2>2, <2>5 DEF BuildInv, RejectedForCause
  <2> QED BY <2>6, <2>7, <2>8 DEF BuildInv
<1> QED BY <1>1, <1>2

LEMMA DependStep ==
    ASSUME BuildInv, NEW c \in Names, NEW dep \in Names, Depend(c, dep)
    PROVE  BuildInv'
<1>0. phase = "dependencies" /\ c \in components /\ components' = components
  BY DEF Depend
<1>1. CASE dep \notin components \ {c}
  <2>1. UNCHANGED <<components, graph, requested>>
    BY <1>1 DEF Depend
  <2>2. \/ UNCHANGED <<phase, failure>>
        \/ phase' = "failed" /\ failure' = "missing"
    BY <1>1 DEF Depend, Refuse
  <2> QED BY <2>1, <2>2, SameGraph DEF Failures
<1>2. CASE dep \in components \ {c}
  <2> DEFINE r == AddEdge(graph, dep, c)
  <2>1. /\ requested' = requested \cup {<<dep, c>>}
        /\ graph' = r.graph
        /\ IF r.err = "none" THEN UNCHANGED <<phase, failure>> ELSE Refuse(r.err)
    BY <1>0, <1>2 DEF Depend
  <2>2. /\ GraphOK(graph) /\ graph.nodes = components /\ components \subseteq Names
        /\ EdgePairs = requested /\ GraphTypeOK
    BY <1>0 DEF BuildInv, GraphInv, GraphTypeOK
  <2>3. \/ /\ HasPath(graph, c, dep) /\ r.graph = graph /\ r.err = "cycle"
        \/ /\ ~HasPath(graph, c, dep)
           /\ r.graph = Linked(graph, dep, c) /\ r.err = "none"
    BY <1>0, <1>2, <2>2, AddEdgeIs
  <2> HIDE DEF r
  <2>4. requested' \subseteq Names \X Names
    BY <2>1, <2>2 DEF GraphTypeOK
  <2>5. CASE r.err = "cycle"
    <3>1. /\ HasPath(graph, c, dep) /\ graph' = graph
          /\ phase' = "failed" /\ failure' = "cycle"
      BY <2>1, <2>3, <2>5 DEF Refuse
    <3>2. EdgePairs' = EdgePairs
      BY <1>0, <3>1 DEF EdgePairs
    <3>3. HasCycle(requested')
      <4>1. \A m, n \in graph.nodes :
               n \in graph.outEdges[m] => <<m, n>> \in requested'
        BY <2>1, <2>2 DEF EdgePairs
      <4>2. <<dep, c>> \in requested' /\ WellFormed(graph)
        BY <2>1, <2>2 DEF GraphOK
      <4> QED BY <1>0, <1>2, <2>2, <3>1, <4>1, <4>2, WayBackIsCycle
    <3>4. GraphTypeOK'
      BY <1>0, <2>2, <2>4, <3>1 DEF GraphTypeOK, Failures
    <3>5. GraphInv'
      BY <1>0, <2>1, <2>2, <3>1, <3>2 DEF GraphInv
    <3>6. RejectedForCause'
      BY <3>1, <3>3 DEF RejectedForCause
    <3> QED BY <3>4, <3>5, <3>6 DEF BuildInv
  <2>6. CASE r.err = "none"
    <3>1. /\ ~HasPath(graph, c, dep) /\ graph' = Linked(graph, dep, c)
          /\ UNCHANGED <<phase, failure>>
      BY <2>1, <2>3, <2>6
    <3>2. GraphOK(graph')
      BY <1>0, <1>2, <2>2, <3>1, LinkedOK
    <3>3. /\ graph'.nodes = graph.nodes
          /\ \A m \in graph.nodes : graph'.outEdges[m] =
                IF m = dep THEN graph.outEdges[m] \cup {c} ELSE graph.outEdges[m]
      <4> DEFINE h == Linked(graph, dep, c)
      <4>1. /\ h.nodes = graph.nodes
            /\ \A m \in graph.nodes : h.outEdges[m] =
                  IF m = dep THEN graph.outEdges[m] \cup {c} ELSE graph.outEdges[m]
        BY <1>0, <1>2, <2>2, LinkedIs, ZenonT(30) DEF GraphOK
      <4> HIDE DEF h
      <4>2. graph' = h
        BY <3>1 DEF h
      <4> QED BY <4>1, <4>2
    <3>4. EdgePairs' = EdgePairs \cup {<<dep, c>>}
      <4>1. \A e \in Names \X Names :
               /\ e \in EdgePairs' <=>
                     e[1] \in components /\ e[2] \in graph'.outEdges[e[1]]
               /\ e \in EdgePairs <=>
                     e[1] \in components /\ e[2] \in graph.outEdges[e[1]]
        BY <1>0 DEF EdgePairs
      <4>2. \A e \in Names \X Names : e = <<dep, c>> <=> e[1] = dep /\ e[2] = c
        OBVIOUS
      <4>3. ASSUME NEW e \in Names \X Names
            PROVE  e \in EdgePairs' <=> e \in EdgePairs \/ e = <<dep, c>>
        <5>1. CASE e[1] \in components
          <6>1. e[2] \in graph'.outEdges[e[1]] <=>
                   e[2] \in graph.outEdges[e[1]] \/ (e[1] = dep /\ e[2] = c)
            BY <2>2, <3>3, <5>1
          <6> QED BY <4>1, <4>2, <5>1, <6>1
        <5>2. CASE e[1] \notin components
          BY <1>2, <4>1, <4>2, <5>2
        <5> QED BY <5>1, <5>2
      <4>4. EdgePairs \subseteq Names \X Names /\ EdgePairs' \subseteq Names \X Names
        BY DEF EdgePairs
      <4> QED BY <4>3, <4>4
    <3>5. GraphTypeOK'
      <4>1. /\ graph'.outEdges \in [graph'.nodes -> SUBSET graph'.nodes]
            /\ graph'.inDegree \in [graph'.nodes -> Nat]
        BY <3>2, GraphType
      <4> QED BY <1>0, <2>2, <2>4, <3>1, <3>3, <4>1 DEF GraphTypeOK
    <3>6. GraphInv'
      BY <1>0, <2>1, <2>2, <3>1, <3>2, <3>3, <3>4 DEF BuildInv, GraphInv
    <3>7. RejectedForCause'
      <4>1. failure' = "none"
        BY <1>0, <3>1 DEF BuildInv, GraphInv
      <4> QED BY <1>0, <3>1, <4>1 DEF RejectedForCause
    <3> QED BY <3>5, <3>6, <3>7 DEF BuildInv
  <2> QED BY <2>3, <2>5, <2>6
<1> QED BY <1>1, <1>2

\* The final check never fails, since a graph in order has batches.
LEMMA AcceptStep ==
    ASSUME BuildInv, Accept
    PROVE  BuildInv'
<1>1. ~TopologicalBatches(graph).err
  BY BatchesOfGraph DEF BuildInv, GraphInv
<1>2. /\ phase = "dependencies" /\ phase' = "built" /\ failure' = failure
      /\ UNCHANGED <<components, graph, requested>>
  BY <1>1 DEF Accept
<1> QED BY <1>2, SameGraph

LEMMA BuildStep == BuildInv /\ [BuildNext]_buildVars => BuildInv'
<1> SUFFICES ASSUME BuildInv, [BuildNext]_buildVars PROVE BuildInv'
  OBVIOUS
<1>1. CASE EndOfList
  <2>1. /\ phase = "list" /\ UNCHANGED <<components, graph, requested>>
        /\ \/ phase' = "failed" /\ failure' = "empty list"
           \/ phase' = "dependencies" /\ failure' = failure
    BY <1>1 DEF EndOfList, Refuse
  <2> QED BY <2>1, SameGraph DEF Failures
<1>2. CASE ResolveFails
  <2>1. /\ UNCHANGED <<components, graph, requested>>
        /\ phase' = "failed" /\ failure' = "resolver"
    BY <1>2 DEF ResolveFails, Refuse
  <2> QED BY <2>1, SameGraph DEF Failures
<1>3. CASE UNCHANGED buildVars
  BY <1>3, SameGraph DEF buildVars
<1> QED BY <1>1, <1>2, <1>3, ListStep, DependStep, AcceptStep DEF BuildNext

(***************************************************************************)
(* Throughout BuildUpgradeDAG the nodes are the listed components and the  *)
(* maps of the graph are about them.                                       *)
(***************************************************************************)
THEOREM GraphTypeCorrect == BuildSpec => []GraphTypeOK
<1>1. BuildInv => GraphTypeOK
  BY DEF BuildInv
<1> QED BY BuildStarts, BuildStep, <1>1, PTL DEF BuildSpec

(***************************************************************************)
(* A release of any size is refused for a cycle only if the dependencies   *)
(* have one, the final batch check never fails, and an accepted graph has  *)
(* the edges that the release asked for.                                   *)
(***************************************************************************)
THEOREM RefusalsAreJustified == BuildSpec => []RejectedForCause
<1>1. BuildInv => RejectedForCause
  BY DEF BuildInv
<1> QED BY BuildStarts, BuildStep, <1>1, PTL DEF BuildSpec

LEMMA BatchesOfState == BuildInv => BatchesSound
<1> SUFFICES ASSUME BuildInv PROVE BatchesSound
  OBVIOUS
<1> DEFINE b == TopologicalBatches(graph).batches
           BatchOf(n) == CHOOSE k \in DOMAIN b : n \in b[k]
<1>0. /\ GraphOK(graph) /\ graph.nodes = components
      /\ graph.outEdges \in [components -> SUBSET components]
      /\ components \subseteq Names
  BY DEF BuildInv, GraphInv, GraphTypeOK
<1>1. /\ \E n \in Nat : DOMAIN b = 1 .. n
      /\ UNION {b[k] : k \in DOMAIN b} = components
      /\ \A j, k \in DOMAIN b : j # k => b[j] \cap b[k] = {}
      /\ \A j, k \in DOMAIN b : \A m \in b[j], n \in b[k] :
            n \in graph.outEdges[m] => j < k
      /\ \A k \in DOMAIN b \ {1} : \A n \in b[k] :
            \E m \in b[k - 1] : n \in graph.outEdges[m]
  BY <1>0, BatchesOfGraph, Zenon
<1> HIDE DEF b
<1>2. ASSUME NEW e \in EdgePairs PROVE BatchOf(e[1]) < BatchOf(e[2])
  <2>1. /\ e[1] \in components /\ e[2] \in components
        /\ e[2] \in graph.outEdges[e[1]]
    BY <1>0 DEF EdgePairs
  <2>2. /\ BatchOf(e[1]) \in DOMAIN b /\ e[1] \in b[BatchOf(e[1])]
        /\ BatchOf(e[2]) \in DOMAIN b /\ e[2] \in b[BatchOf(e[2])]
    <3>1. (\E k \in DOMAIN b : e[1] \in b[k]) /\ (\E k \in DOMAIN b : e[2] \in b[k])
      BY <1>1, <2>1
    <3> QED BY <3>1
  <2> HIDE DEF BatchOf
  <2> QED BY <1>1, <2>1, <2>2
<1>3. ASSUME NEW k \in DOMAIN b \ {1}, NEW n \in b[k]
      PROVE  \E m \in b[k - 1] : <<m, n>> \in EdgePairs
  <2>1. PICK m \in b[k - 1] : n \in graph.outEdges[m]
    BY <1>1
  <2>2. k - 1 \in DOMAIN b
    BY <1>1
  <2>3. m \in components /\ n \in components
    BY <1>1, <2>2
  <2> QED BY <1>0, <2>1, <2>3 DEF EdgePairs
<1> QED BY <1>1, <1>2, <1>3 DEF BatchesSound, b

(***************************************************************************)
(* TopologicalBatches, on every graph that can be built and of any size:   *)
(* the batches are a partition of the components, in dependency order, and *)
(* no component is in a later batch than it could be.                      *)
(***************************************************************************)
THEOREM BatchesAreSound == BuildSpec => []BatchesSound
BY BuildStarts, BuildStep, BatchesOfState, PTL DEF BuildSpec

\* A release without components is refused before its dependencies are read.
Nonempty == phase \in {"dependencies", "built"} => components # {}

LEMMA NonemptyStep == Nonempty /\ [BuildNext]_buildVars => Nonempty'
<1> SUFFICES ASSUME Nonempty, [BuildNext]_buildVars PROVE Nonempty'
  OBVIOUS
<1>1. ASSUME NEW n \in Names \cup {NoName}, ListComponent(n) PROVE Nonempty'
  BY <1>1 DEF Nonempty, ListComponent, Refuse
<1>2. CASE EndOfList
  BY <1>2 DEF Nonempty, EndOfList, Refuse
<1>3. CASE ResolveFails
  BY <1>3 DEF Nonempty, ResolveFails, Refuse
<1>4. ASSUME NEW c \in Names, NEW dep \in Names, Depend(c, dep) PROVE Nonempty'
  BY <1>4 DEF Nonempty, Depend
<1>5. CASE Accept
  BY <1>5 DEF Nonempty, Accept
<1>6. CASE UNCHANGED buildVars
  BY <1>6 DEF Nonempty, buildVars
<1> QED BY <1>1, <1>2, <1>3, <1>4, <1>5, <1>6 DEF BuildNext

\* What the scheduler is entitled to: the first two assumptions about Batches in
\* DagExec, with the requested dependencies for Prereqs.
SchedulerInput ==
    LET b == TopologicalBatches(graph).batches
    IN  /\ b \in Seq(SUBSET components)
        /\ b # <<>>
        /\ \A c \in components : \E k \in DOMAIN b : c \in b[k]
        /\ \A k \in DOMAIN b : \A c \in b[k] :
               \A p \in {q \in Names : <<q, c>> \in requested} :
                   \E j \in DOMAIN b : j < k /\ p \in b[j]

LEMMA BatchesFit ==
    ASSUME BuildInv, Nonempty, phase = "built"
    PROVE  SchedulerInput
<1> DEFINE b == TopologicalBatches(graph).batches
           BatchOf(n) == CHOOSE k \in DOMAIN b : n \in b[k]
<1>1. /\ UNION {b[k] : k \in DOMAIN b} = components
      /\ \A j, k \in DOMAIN b : j # k => b[j] \cap b[k] = {}
      /\ \A e \in EdgePairs : BatchOf(e[1]) < BatchOf(e[2])
  BY BatchesOfState DEF BatchesSound
<1>2. PICK n \in Nat : DOMAIN b = 1 .. n /\ b = [k \in 1 .. n |-> b[k]]
  <2>1. /\ GraphOK(graph) /\ graph.nodes = components
        /\ graph.outEdges \in [components -> SUBSET components]
        /\ components \subseteq Names
    BY DEF BuildInv, GraphInv, GraphTypeOK
  <2>2. (\E n \in Nat : DOMAIN b = 1 .. n) /\ b = [k \in DOMAIN b |-> b[k]]
    BY <2>1, BatchesOfGraph, Zenon
  <2> QED BY <2>2
<1>3. EdgePairs = requested /\ components # {}
  BY DEF BuildInv, GraphInv, Nonempty
<1> HIDE DEF b
<1>4. \A k \in 1 .. n : b[k] \in SUBSET components
  BY <1>1, <1>2
<1>5. b \in Seq(SUBSET components)
  BY <1>2, <1>4, SMTT(30)
<1>6. \A c \in components : \E k \in DOMAIN b : c \in b[k]
  BY <1>1
<1>7. b # <<>>
  <2>1. DOMAIN b # {}
    BY <1>3, <1>6
  <2> QED BY <2>1
<1>8. ASSUME NEW k \in DOMAIN b, NEW c \in b[k], NEW p \in Names, <<p, c>> \in requested
      PROVE  \E j \in DOMAIN b : j < k /\ p \in b[j]
  <2>1. p \in components /\ c \in components
    <3>1. <<p, c>> \in EdgePairs
      BY <1>3, <1>8
    <3> QED BY <1>1, <3>1, <1>8 DEF EdgePairs
  <2>2. BatchOf(p) \in DOMAIN b /\ p \in b[BatchOf(p)]
    BY <1>6, <2>1
  <2>3. BatchOf(c) \in DOMAIN b /\ c \in b[BatchOf(c)]
    BY <1>6, <2>1
  <2>4. BatchOf(c) = k
    BY <1>1, <1>8, <2>3
  <2>5. BatchOf(p) < BatchOf(c)
    <3>1. <<p, c>> \in EdgePairs
      BY <1>3, <1>8
    <3> QED BY <1>1, <3>1
  <2> QED BY <2>2, <2>4, <2>5
<1> QED BY <1>3, <1>5, <1>6, <1>7, <1>8 DEF SchedulerInput, b

(***************************************************************************)
(* The batches of an accepted release meet what DagExec assumes of them:   *)
(* every component is in one, and its dependencies are in earlier ones.    *)
(***************************************************************************)
THEOREM BatchesFitTheScheduler == BuildSpec => [](phase = "built" => SchedulerInput)
<1>1. BuildInit => Nonempty
  BY DEF BuildInit, Nonempty
<1>2. BuildInv /\ Nonempty => (phase = "built" => SchedulerInput)
  BY BatchesFit
<1> QED BY BuildStarts, BuildStep, NonemptyStep, <1>1, <1>2, PTL DEF BuildSpec

-----------------------------------------------------------------------------
(***************************************************************************)
(* The search for a path of hops.                                          *)
(***************************************************************************)

RulesOK(R) == IsFiniteSet(R) /\ R \subseteq [from: Nat, to: Nat, blocked: BOOLEAN]

Paths(R) == Seq(RuleVersions(R))

Searching(R) == [visited: SUBSET RuleVersions(R), queue: Seq(Paths(R)),
                 found: SUBSET Paths(R)]

LEMMA SmallestIs ==
    ASSUME NEW S \in SUBSET Nat, S # {}
    PROVE  Smallest(S) \in S
<1>1. \E v \in S : \A w \in S : v <= w
  BY LeastNumber
<1> QED BY <1>1 DEF Smallest

LEMMA VersionsOK ==
    ASSUME NEW R, RulesOK(R)
    PROVE  RuleVersions(R) \in SUBSET Nat /\ IsFiniteSet(RuleVersions(R))
<1>1. ASSUME NEW T, NEW f \in [R -> T], \A v \in T : \E r \in R : f[r] = v
      PROVE  IsFiniteSet(T)
  <2>1. f \in Surjection(R, T)
    BY <1>1, Fun_IsSurj
  <2> QED BY <2>1, FS_Surjection DEF RulesOK
<1>2. IsFiniteSet({r.from : r \in R})
  <2> DEFINE T == {r.from : r \in R}
             f == [r \in R |-> r.from]
  <2>1. f \in [R -> T] /\ \A v \in T : \E r \in R : f[r] = v
    OBVIOUS
  <2> HIDE DEF f, T
  <2>2. IsFiniteSet(T)
    BY <1>1, <2>1
  <2> QED BY <2>2 DEF T
<1>3. IsFiniteSet({r.to : r \in R})
  <2> DEFINE T == {r.to : r \in R}
             f == [r \in R |-> r.to]
  <2>1. f \in [R -> T] /\ \A v \in T : \E r \in R : f[r] = v
    OBVIOUS
  <2> HIDE DEF f, T
  <2>2. IsFiniteSet(T)
    BY <1>1, <2>1
  <2> QED BY <2>2 DEF T
<1> QED BY <1>2, <1>3, FS_Union DEF RulesOK, RuleVersions

\* The versions that can be gone on to are versions of open rules.
LEMMA OnwardIs ==
    ASSUME NEW R, RulesOK(R), NEW p, NEW visited
    PROVE  /\ \A w \in Onward(R, p, visited) : w \in RuleVersions(R)
           /\ \A w : w \in Onward(R, p, visited) <=>
                        w \notin visited /\ Rule(Last(p), w, FALSE) \in R
<1>1. \A w \in Onward(R, p, visited) : w \in RuleVersions(R)
  BY DEF Onward, Follows, RuleVersions
<1>2. ASSUME NEW w, w \in Onward(R, p, visited)
      PROVE  w \notin visited /\ Rule(Last(p), w, FALSE) \in R
  <2>1. PICK r \in R : /\ r.from = Last(p) /\ ~r.blocked
                        /\ r.to \notin visited /\ w = r.to
    BY <1>2 DEF Onward, Follows
  <2>2. r = Rule(Last(p), w, FALSE)
    BY <2>1 DEF RulesOK, Rule
  <2> QED BY <2>1, <2>2
<1>3. ASSUME NEW w, w \notin visited, Rule(Last(p), w, FALSE) \in R
      PROVE  w \in Onward(R, p, visited)
  BY <1>3 DEF Onward, Follows, Rule
<1> QED BY <1>1, <1>2, <1>3

\* One turn ends a path or adds one.
LEMMA TurnIs ==
    ASSUME NEW R, RulesOK(R), NEW t \in Searching(R), t.queue # <<>>
    PROVE  \/ /\ Turn(R, t).visited = t.visited /\ Turn(R, t).found = t.found
              /\ Turn(R, t).queue = Tail(t.queue)
              /\ \A w : Rule(Last(Head(t.queue)), w, FALSE) \in R => w \in t.visited
           \/ \E w \in RuleVersions(R) \ t.visited :
                 LET next == Append(Head(t.queue), w)
                 IN  /\ Rule(Last(Head(t.queue)), w, FALSE) \in R
                     /\ Turn(R, t).visited = t.visited \cup {w}
                     /\ Turn(R, t).queue = Append(t.queue, next)
                     /\ Turn(R, t).found = t.found \cup {next}
<1> DEFINE p == Head(t.queue)
           out == Onward(R, p, t.visited)
           w == Smallest(out)
<1>1. out \subseteq RuleVersions(R)
  BY OnwardIs, Zenon
<1>2. \A v : v \in out <=> v \notin t.visited /\ Rule(Last(p), v, FALSE) \in R
  BY OnwardIs, Zenon
<1>3. CASE out = {}
  <2>1. Turn(R, t) = [t EXCEPT !.queue = Tail(@)]
    BY <1>3 DEF Turn
  <2>2. \A v : Rule(Last(p), v, FALSE) \in R => v \in t.visited
    BY <1>2, <1>3
  <2> QED BY <2>1, <2>2 DEF Searching
<1>4. CASE out # {}
  <2>1. Turn(R, t) = [visited |-> t.visited \cup {w},
                      queue   |-> Append(t.queue, Append(p, w)),
                      found   |-> t.found \cup {Append(p, w)}]
    BY <1>4 DEF Turn
  <2>2. out \in SUBSET Nat
    BY <1>1, VersionsOK
  <2>3. w \in out
    <3> HIDE DEF out
    <3> QED BY <1>4, <2>2, SmallestIs
  <2>4. w \in RuleVersions(R) \ t.visited /\ Rule(Last(p), w, FALSE) \in R
    <3> HIDE DEF w, out
    <3> QED BY <1>1, <1>2, <2>3
  <2> HIDE DEF w
  <2> DEFINE vis == t.visited \cup {w}
             que == Append(t.queue, Append(p, w))
             fnd == t.found \cup {Append(p, w)}
  <2>5. Turn(R, t) = [visited |-> vis, queue |-> que, found |-> fnd]
    BY <2>1
  <2>6. Turn(R, t).visited = vis /\ Turn(R, t).queue = que /\ Turn(R, t).found = fnd
    <3> HIDE DEF vis, que, fnd
    <3> QED BY <2>5
  <2> QED BY <2>4, <2>6, Zenon
<1> QED BY <1>3, <1>4

LEMMA HeadTail ==
    ASSUME NEW W, NEW q \in Seq(W), q # <<>>
    PROVE  Head(q) \in W /\ Tail(q) \in Seq(W)
  OBVIOUS

LEMMA TurnType ==
    ASSUME NEW R, RulesOK(R), NEW t \in Searching(R)
    PROVE  Turn(R, t) \in Searching(R)
<1>1. CASE t.queue = <<>>
  BY <1>1 DEF Turn
<1>2. CASE t.queue # <<>>
  <2> DEFINE W == Paths(R)
             p == Head(t.queue)
             out == Onward(R, p, t.visited)
             w == Smallest(out)
  <2>1. /\ t.visited \in SUBSET RuleVersions(R)
        /\ t.queue \in Seq(W) /\ t.found \in SUBSET W
    BY DEF Searching
  <2>2. p \in W /\ Tail(t.queue) \in Seq(W)
    BY <1>2, <2>1, HeadTail, Zenon
  <2>3. CASE out = {}
    <3>1. Turn(R, t) = [t EXCEPT !.queue = Tail(@)]
      BY <1>2, <2>3 DEF Turn
    <3> QED BY <2>2, <3>1 DEF Searching
  <2>4. CASE out # {}
    <3>1. Turn(R, t) = [visited |-> t.visited \cup {w},
                        queue   |-> Append(t.queue, Append(p, w)),
                        found   |-> t.found \cup {Append(p, w)}]
      BY <1>2, <2>4 DEF Turn
    <3>2. out \subseteq RuleVersions(R)
      BY OnwardIs, Zenon
    <3>3. w \in RuleVersions(R)
      <4> HIDE DEF out
      <4> QED BY <2>4, <3>2, VersionsOK, SmallestIs
    <3> HIDE DEF w, p
    <3>4. Append(p, w) \in W
      BY <2>2, <3>3 DEF Paths
    <3>5. Append(t.queue, Append(p, w)) \in Seq(W)
      <4> HIDE DEF W
      <4> QED BY <2>1, <3>4
    <3> DEFINE vis == t.visited \cup {w}
               que == Append(t.queue, Append(p, w))
               fnd == t.found \cup {Append(p, w)}
    <3>6. vis \in SUBSET RuleVersions(R) /\ que \in Seq(W) /\ fnd \in SUBSET W
      BY <2>1, <3>3, <3>4, <3>5
    <3>7. Turn(R, t) = [visited |-> vis, queue |-> que, found |-> fnd]
      BY <3>1
    <3> HIDE DEF vis, que, fnd
    <3> QED BY <3>6, <3>7 DEF Searching
  <2> QED BY <2>3, <2>4
<1> QED BY <1>1, <1>2

Start(from) == [visited |-> {from}, queue |-> << <<from>> >>, found |-> {<<from>>}]

\* s is the search from a version, turn by turn.
Searches(s, R, from) ==
    /\ s \in [Nat -> Searching(R)]
    /\ s[0] = Start(from)
    /\ \A k \in Nat : s[k + 1] = Turn(R, s[k])

\* The paths to a version that are found in the end.
Ways(s, R, to) ==
    {p \in s[2 * Cardinality(RuleVersions(R))].found : Last(p) = to}

LEMMA SearchExists ==
    ASSUME NEW R, RulesOK(R), NEW from \in RuleVersions(R),
           NEW to \in RuleVersions(R), from # to
    PROVE  \E s : /\ Searches(s, R, from)
                  /\ FindPath(R, from, to) = IF Ways(s, R, to) # {}
                                             THEN CHOOSE p \in Ways(s, R, to) : TRUE
                                             ELSE NoPath
<1> DEFINE v == Start(from)
           G == [r \in Searching(R) |-> Turn(R, r)]
           Rec(f) == [k \in Nat |->
                        IF k = 0
                        THEN [visited |-> {from}, queue |-> << <<from>> >>,
                              found |-> {<<from>>}]
                        ELSE Turn(R, f[k - 1])]
           s == CHOOSE f : f = Rec(f)
<1>1. v \in Searching(R)
  <2>1. <<from>> \in Paths(R)
    BY DEF Paths
  <2>2. << <<from>> >> \in Seq(Paths(R))
    BY <2>1
  <2> QED BY <2>1, <2>2 DEF Searching, Start
<1>2. G \in [Searching(R) -> Searching(R)]
  BY TurnType
<1>3. PICK f \in [Nat -> Searching(R)] :
         f[0] = v /\ \A n \in Nat : f[n + 1] = G[f[n]]
  <2> HIDE DEF v, G
  <2> QED BY <1>1, <1>2, Iteration
<1>4. f = Rec(f)
  <2>1. ASSUME NEW k \in Nat PROVE f[k] = Rec(f)[k]
    <3>1. CASE k = 0
      BY <1>3, <3>1 DEF Start
    <3>2. CASE k # 0
      <4>1. k - 1 \in Nat /\ (k - 1) + 1 = k
        BY <3>2
      <4>2. f[k] = G[f[k - 1]] /\ f[k - 1] \in Searching(R)
        BY <1>3, <4>1
      <4> QED BY <3>2, <4>2
    <3> QED BY <3>1, <3>2
  <2> HIDE DEF Rec
  <2>2. Rec(f) = [k \in Nat |-> Rec(f)[k]]
    BY DEF Rec
  <2> QED BY <1>3, <2>1, <2>2
<1>5. s = Rec(s)
  <2> HIDE DEF Rec
  <2> QED BY <1>4
<1>6. s[0] = v
  <2> HIDE DEF s
  <2> QED BY <1>5 DEF Start
<1>7. ASSUME NEW k \in Nat PROVE s[k + 1] = Turn(R, s[k])
  <2>1. k + 1 # 0 /\ k + 1 \in Nat /\ (k + 1) - 1 = k
    OBVIOUS
  <2> HIDE DEF s
  <2>2. s[k + 1] = Rec(s)[k + 1]
    BY <1>5
  <2> QED BY <2>1, <2>2
<1>8. s \in [Nat -> Searching(R)]
  <2> DEFINE P == {n \in Nat : s[n] \in Searching(R)}
  <2>1. 0 \in P
    BY <1>1, <1>6
  <2>2. ASSUME NEW n \in Nat, n \in P PROVE n + 1 \in P
    BY <1>7, <2>2, TurnType
  <2>3. Nat \subseteq P
    <3> HIDE DEF P
    <3> QED BY <2>1, <2>2, Induction
  <2>4. s = [k \in Nat |-> s[k]]
    <3> HIDE DEF s
    <3> QED BY <1>5
  <2> HIDE DEF s
  <2> QED BY <2>3, <2>4
<1>9. FindPath(R, from, to) = IF from # to /\ {from, to} \subseteq RuleVersions(R)
                                 /\ Ways(s, R, to) # {}
                              THEN CHOOSE p \in Ways(s, R, to) : TRUE
                              ELSE NoPath
  BY Zenon DEF FindPath, Ways
<1> HIDE DEF s
<1> QED BY <1>6, <1>7, <1>8, <1>9 DEF Searches

(***************************************************************************)
(* What is so after every turn.                                            *)
(***************************************************************************)

\* p leads from a version along open rules.
Way(R, p, from) ==
    /\ p \in Paths(R) /\ Len(p) >= 1 /\ p[1] = from
    /\ \A i \in 1 .. Len(p) - 1 : Rule(p[i], p[i + 1], FALSE) \in R

\* The paths that are found lead from the start to the visited versions.
WaysOK(R, from, t) ==
    /\ \A p \in t.found : /\ Way(R, p, from)
                          /\ Last(p) \in t.visited
                          /\ Last(p) = from => Len(p) = 1
    /\ \A v \in t.visited : \E p \in t.found : Last(p) = v
    /\ from \in t.visited

\* The queue is in the order of length, and goes over two levels at most.
LevelsOK(t) ==
    /\ \A i \in 1 .. Len(t.queue) : t.queue[i] \in t.found
    /\ \A i \in 1 .. Len(t.queue) : \A j \in i .. Len(t.queue) :
          Len(t.queue[i]) <= Len(t.queue[j])
    /\ \A p \in t.found : \A i \in 1 .. Len(t.queue) :
          Len(p) <= Len(t.queue[i]) + 1

\* All that p leads to is found, and no later than through p.
Finished(R, t, p) ==
    \A w : Rule(Last(p), w, FALSE) \in R =>
              /\ w \in t.visited
              /\ \A q \in t.found : Last(q) = w => Len(q) <= Len(p) + 1

Queued(t, p) == \E i \in 1 .. Len(t.queue) : t.queue[i] = p

DoneOK(R, t) == \A p \in t.found : Queued(t, p) \/ Finished(R, t, p)

\* A version costs two turns, one when it is queued and one when it leaves.
CountOK(k, t) ==
    t.queue = <<>> \/ k + 1 + Len(t.queue) = 2 * Cardinality(t.visited)

SearchInv(R, from, k, t) ==
    WaysOK(R, from, t) /\ LevelsOK(t) /\ DoneOK(R, t) /\ CountOK(k, t)

LEMMA Sums ==
    ASSUME NEW k \in Nat, NEW n \in Nat, NEW l, NEW c \in Nat, NEW d,
           k + 1 + n = 2 * c
    PROVE  /\ l = n - 1 /\ d = c => (k + 1) + 1 + l = 2 * d
           /\ l = n + 1 /\ d = c + 1 => (k + 1) + 1 + l = 2 * d
  OBVIOUS

LEMMA CountStep ==
    ASSUME NEW k \in Nat, NEW t, NEW u, CountOK(k, t), t.queue # <<>>,
           Len(t.queue) \in Nat, Cardinality(t.visited) \in Nat,
           \/ /\ Len(u.queue) = Len(t.queue) - 1
              /\ Cardinality(u.visited) = Cardinality(t.visited)
           \/ /\ Len(u.queue) = Len(t.queue) + 1
              /\ Cardinality(u.visited) = Cardinality(t.visited) + 1
    PROVE  CountOK(k + 1, u)
<1> DEFINE n == Len(t.queue)
           l == Len(u.queue)
           c == Cardinality(t.visited)
           d == Cardinality(u.visited)
<1>1. n \in Nat /\ c \in Nat /\ k + 1 + n = 2 * c
  BY Zenon DEF CountOK
<1>2. (l = n - 1 /\ d = c) \/ (l = n + 1 /\ d = c + 1)
  BY Zenon
<1>3. (k + 1) + 1 + l = 2 * d
  <2> HIDE DEF n, l, c, d
  <2> QED BY <1>1, <1>2, Sums
<1> QED BY <1>3, Zenon DEF CountOK

LEMMA OneMore ==
    ASSUME NEW i \in Nat, NEW j \in Nat, NEW m \in Nat, i <= m + 1, m <= j
    PROVE  i <= j + 1
  OBVIOUS

LEMMA TailIs ==
    ASSUME NEW W, NEW q \in Seq(W), q # <<>>
    PROVE  /\ Len(q) \in Nat /\ Len(q) >= 1
           /\ Head(q) = q[1] /\ Len(Tail(q)) = Len(q) - 1
           /\ \A i \in 1 .. Len(q) - 1 : Tail(q)[i] = q[i + 1]
  OBVIOUS

LEMMA AppendIs ==
    ASSUME NEW W, NEW q \in Seq(W), NEW e \in W
    PROVE  /\ Append(q, e) \in Seq(W) /\ Append(q, e) # <<>>
           /\ Len(q) \in Nat /\ Len(Append(q, e)) = Len(q) + 1
           /\ \A i \in 1 .. Len(q) : Append(q, e)[i] = q[i]
           /\ Append(q, e)[Len(q) + 1] = e
  OBVIOUS

LEMMA StartInv ==
    ASSUME NEW R, RulesOK(R), NEW from \in RuleVersions(R)
    PROVE  SearchInv(R, from, 0, Start(from))
<1> DEFINE t == Start(from)
           p == <<from>>
<1>1. /\ t.visited = {from} /\ t.found = {p} /\ t.queue = <<p>>
      /\ Len(t.queue) = 1 /\ t.queue[1] = p
  BY DEF Start
<1>2. p \in Paths(R) /\ Len(p) = 1 /\ p[1] = from
  BY DEF Paths
<1> HIDE DEF t, p
<1>3. WaysOK(R, from, t)
  <2>1. Way(R, p, from)
    BY <1>2 DEF Way
  <2>2. Last(p) = from
    BY <1>2 DEF Last
  <2> QED BY <1>1, <1>2, <2>1, <2>2 DEF WaysOK
<1>4. LevelsOK(t)
  BY <1>1, <1>2 DEF LevelsOK
<1>5. DoneOK(R, t)
  <2>1. 1 \in 1 .. Len(t.queue) /\ t.queue[1] = p
    BY <1>1
  <2>2. Queued(t, p)
    BY <2>1 DEF Queued
  <2> QED BY <1>1, <2>2 DEF DoneOK
<1>6. CountOK(0, t)
  <2>1. Cardinality(t.visited) = 1
    BY <1>1, FS_Singleton, Zenon
  <2>2. Len(t.queue) = 1
    BY <1>1
  <2>3. 0 + 1 + Len(t.queue) = 2 * Cardinality(t.visited)
    BY <2>1, <2>2
  <2> QED BY <2>3, Zenon DEF CountOK
<1> QED BY <1>3, <1>4, <1>5, <1>6 DEF SearchInv, t

\* The first path is done: all it leads to has been visited.
LEMMA DropInv ==
    ASSUME NEW R, RulesOK(R), NEW from \in RuleVersions(R), NEW k \in Nat,
           NEW t \in Searching(R), t.queue # <<>>, SearchInv(R, from, k, t),
           NEW u \in Searching(R),
           u.visited = t.visited, u.found = t.found, u.queue = Tail(t.queue),
           \A w : Rule(Last(Head(t.queue)), w, FALSE) \in R => w \in t.visited
    PROVE  SearchInv(R, from, k + 1, u)
<1> DEFINE n == Len(t.queue)
           p == t.queue[1]
<1>1. t.queue \in Seq(Paths(R)) /\ t.found \subseteq Seq(RuleVersions(R))
  BY DEF Searching, Paths
<1>2. /\ n \in Nat /\ n >= 1 /\ Head(t.queue) = p /\ Len(u.queue) = n - 1
      /\ \A i \in 1 .. n - 1 : u.queue[i] = t.queue[i + 1]
  BY <1>1, TailIs
<1>3. \A q \in t.found : Len(q) \in Nat
  BY <1>1
<1> HIDE DEF n, p
<1>4. WaysOK(R, from, u)
  BY DEF SearchInv, WaysOK
<1>5. LevelsOK(u)
  <2>1. /\ \A i \in 1 .. n : t.queue[i] \in t.found
        /\ \A i \in 1 .. n : \A j \in i .. n : Len(t.queue[i]) <= Len(t.queue[j])
        /\ \A q \in t.found : \A i \in 1 .. n : Len(q) <= Len(t.queue[i]) + 1
    BY DEF SearchInv, LevelsOK, n
  <2>2. \A i \in 1 .. n - 1 : u.queue[i] \in u.found
    BY <1>2, <2>1
  <2>3. \A i \in 1 .. n - 1 : \A j \in i .. n - 1 : Len(u.queue[i]) <= Len(u.queue[j])
    BY <1>2, <2>1
  <2>4. \A q \in u.found : \A i \in 1 .. n - 1 : Len(q) <= Len(u.queue[i]) + 1
    BY <1>2, <2>1
  <2> QED BY <1>2, <2>2, <2>3, <2>4 DEF LevelsOK
<1>6. DoneOK(R, u)
  <2>1. Finished(R, t, p)
    <3>1. \A q \in t.found : Len(q) <= Len(p) + 1
      BY <1>2 DEF SearchInv, LevelsOK, n, p
    <3> QED BY <1>2, <3>1 DEF Finished
  <2>2. ASSUME NEW q \in t.found PROVE Queued(u, q) \/ Finished(R, t, q)
    <3>1. CASE Finished(R, t, q)
      BY <3>1
    <3>2. CASE Queued(t, q)
      <4>1. PICK i \in 1 .. n : t.queue[i] = q
        BY <3>2 DEF Queued, n
      <4>2. CASE i = 1
        BY <2>1, <4>1, <4>2 DEF p
      <4>3. CASE i # 1
        <5>1. i - 1 \in 1 .. n - 1 /\ u.queue[i - 1] = q
          BY <1>2, <4>1, <4>3
        <5> QED BY <1>2, <5>1 DEF Queued
      <4> QED BY <4>2, <4>3
    <3> QED BY <3>1, <3>2 DEF SearchInv, DoneOK
  <2> QED BY <2>2 DEF DoneOK, Finished
<1>7. CountOK(k + 1, u)
  <2>1. CountOK(k, t) /\ Len(t.queue) \in Nat /\ Len(u.queue) = Len(t.queue) - 1
    BY <1>2 DEF SearchInv, n
  <2>2. Cardinality(t.visited) \in Nat
    BY VersionsOK, FS_Subset, FS_CardinalityType DEF Searching
  <2> QED BY <2>1, <2>2, CountStep, Zenon
<1> QED BY <1>4, <1>5, <1>6, <1>7 DEF SearchInv

\* The first path is extended to a version that was not visited.
LEMMA ExtendInv ==
    ASSUME NEW R, RulesOK(R), NEW from \in RuleVersions(R), NEW k \in Nat,
           NEW t \in Searching(R), t.queue # <<>>, SearchInv(R, from, k, t),
           NEW u \in Searching(R), NEW w \in RuleVersions(R) \ t.visited,
           NEW next, next = Append(Head(t.queue), w),
           Rule(Last(Head(t.queue)), w, FALSE) \in R,
           u.visited = t.visited \cup {w},
           u.queue = Append(t.queue, next), u.found = t.found \cup {next}
    PROVE  SearchInv(R, from, k + 1, u)
<1> DEFINE n == Len(t.queue)
           p == t.queue[1]
<1>1. t.queue \in Seq(Paths(R)) /\ t.found \subseteq Paths(R)
  BY DEF Searching
<1>2. n \in Nat /\ n >= 1 /\ Head(t.queue) = p /\ p \in t.found
  <2>1. n \in Nat /\ n >= 1 /\ Head(t.queue) = p
    BY <1>1, TailIs
  <2>2. p \in t.found
    BY <2>1 DEF SearchInv, LevelsOK
  <2> QED BY <2>1, <2>2
<1>3. \A q \in t.found : Len(q) \in Nat
  BY <1>1 DEF Paths
<1>4. /\ next \in Paths(R) /\ Len(next) = Len(p) + 1
      /\ \A i \in 1 .. Len(p) : next[i] = p[i]
      /\ next[Len(p) + 1] = w
  <2>1. p \in Seq(RuleVersions(R)) /\ w \in RuleVersions(R)
    BY <1>1, <1>2 DEF Paths
  <2> HIDE DEF p
  <2> QED BY <1>2, <2>1, AppendIs DEF Paths
<1>5. /\ Len(u.queue) = n + 1
      /\ \A i \in 1 .. n : u.queue[i] = t.queue[i]
      /\ u.queue[n + 1] = next
  BY <1>1, <1>4, AppendIs
<1>6. Way(R, p, from) /\ Len(p) \in Nat /\ Len(p) >= 1
  BY <1>2, <1>3 DEF SearchInv, WaysOK, Way
<1> HIDE DEF n, p
<1>7. Last(next) = w /\ w # from
  <2>1. w # from
    BY DEF SearchInv, WaysOK
  <2> QED BY <1>4, <2>1 DEF Last
<1>8. WaysOK(R, from, u)
  <2>1. Way(R, next, from)
    <3>1. next[1] = from
      BY <1>4, <1>6 DEF Way
    <3>2. ASSUME NEW i \in 1 .. Len(next) - 1
          PROVE  Rule(next[i], next[i + 1], FALSE) \in R
      <4>1. i \in 1 .. Len(p) /\ next[i] = p[i]
        BY <1>4, <1>6, <3>2
      <4>2. CASE i = Len(p)
        BY <1>2, <1>4, <4>1, <4>2 DEF Last
      <4>3. CASE i # Len(p)
        <5>1. i \in 1 .. Len(p) - 1 /\ i + 1 \in 1 .. Len(p)
          BY <1>6, <4>1, <4>3
        <5> QED BY <1>4, <1>6, <4>1, <5>1 DEF Way
      <4> QED BY <4>2, <4>3
    <3>3. next \in Paths(R) /\ Len(next) >= 1
      BY <1>4, <1>6
    <3> QED BY <3>1, <3>2, <3>3 DEF Way
  <2>2. ASSUME NEW q \in u.found
        PROVE  /\ Way(R, q, from) /\ Last(q) \in u.visited
               /\ Last(q) = from => Len(q) = 1
    <3>1. CASE q = next
      BY <1>7, <2>1, <3>1
    <3>2. CASE q \in t.found
      BY <3>2 DEF SearchInv, WaysOK
    <3> QED BY <2>2, <3>1, <3>2
  <2>3. ASSUME NEW v \in u.visited PROVE \E q \in u.found : Last(q) = v
    <3>1. CASE v = w
      BY <1>7, <3>1
    <3>2. CASE v \in t.visited
      <4>1. PICK q \in t.found : Last(q) = v
        BY <3>2, Zenon DEF SearchInv, WaysOK
      <4> QED BY <4>1
    <3> QED BY <2>3, <3>1, <3>2
  <2>4. from \in u.visited
    BY DEF SearchInv, WaysOK
  <2> QED BY <2>2, <2>3, <2>4 DEF WaysOK
<1>9. /\ \A i \in 1 .. n : t.queue[i] \in t.found
      /\ \A i \in 1 .. n : \A j \in i .. n : Len(t.queue[i]) <= Len(t.queue[j])
      /\ \A q \in t.found : \A i \in 1 .. n : Len(q) <= Len(t.queue[i]) + 1
      /\ \A i \in 1 .. n : Len(p) <= Len(t.queue[i])
  <2>1. /\ \A i \in 1 .. n : t.queue[i] \in t.found
        /\ \A i \in 1 .. n : \A j \in i .. n : Len(t.queue[i]) <= Len(t.queue[j])
        /\ \A q \in t.found : \A i \in 1 .. n : Len(q) <= Len(t.queue[i]) + 1
    BY DEF SearchInv, LevelsOK, n
  <2>2. 1 \in 1 .. n /\ \A i \in 1 .. n : i \in 1 .. n
    BY <1>2
  <2>3. \A i \in 1 .. n : Len(t.queue[1]) <= Len(t.queue[i])
    BY <2>1, <2>2
  <2> QED BY <2>1, <2>3 DEF p
<1>10. LevelsOK(u)
  <2>1. ASSUME NEW i \in 1 .. n + 1
        PROVE  /\ u.queue[i] \in u.found
               /\ Len(p) <= Len(u.queue[i]) /\ Len(u.queue[i]) <= Len(p) + 1
    <3>1. CASE i = n + 1
      BY <1>4, <1>5, <1>6, <3>1
    <3>2. CASE i # n + 1
      <4>1. i \in 1 .. n /\ 1 \in 1 .. n
        BY <1>2, <2>1, <3>2
      <4>2. u.queue[i] = t.queue[i] /\ t.queue[i] \in t.found
        BY <1>5, <1>9, <4>1
      <4>3. Len(t.queue[i]) <= Len(p) + 1
        BY <1>9, <4>1, <4>2 DEF p
      <4> QED BY <1>9, <4>1, <4>2, <4>3
    <3> QED BY <3>1, <3>2
  <2>2. ASSUME NEW i \in 1 .. n + 1, NEW j \in i .. n + 1
        PROVE  Len(u.queue[i]) <= Len(u.queue[j])
    <3>1. CASE j = n + 1
      BY <1>2, <1>4, <1>5, <2>1, <3>1
    <3>2. CASE j # n + 1
      <4>1. i \in 1 .. n /\ j \in i .. n /\ j \in 1 .. n
        BY <1>2, <2>2, <3>2
      <4> QED BY <1>5, <1>9, <4>1
    <3> QED BY <3>1, <3>2
  <2>3. ASSUME NEW q \in u.found, NEW i \in 1 .. n + 1
        PROVE  Len(q) <= Len(u.queue[i]) + 1
    <3>1. Len(u.queue[i]) \in Nat /\ Len(p) <= Len(u.queue[i])
      <4>1. u.queue[i] \in Paths(R)
        BY <1>1, <1>4, <2>1
      <4>2. Len(u.queue[i]) \in Nat
        BY <4>1 DEF Paths
      <4> QED BY <2>1, <4>2
    <3>2. Len(q) <= Len(p) + 1 /\ Len(q) \in Nat
      <4>1. 1 \in 1 .. n
        BY <1>2
      <4>2. CASE q = next
        BY <1>4, <1>6, <4>2
      <4>3. CASE q \in t.found
        BY <1>3, <1>9, <4>1, <4>3 DEF p
      <4> QED BY <2>3, <4>2, <4>3
    <3> QED BY <1>6, <3>1, <3>2, OneMore, Zenon
  <2> QED BY <1>5, <2>1, <2>2, <2>3 DEF LevelsOK
<1>11. DoneOK(R, u)
  <2>1. ASSUME NEW q \in t.found PROVE Queued(u, q) \/ Finished(R, u, q)
    <3>1. CASE Queued(t, q)
      <4>1. PICK i \in 1 .. n : t.queue[i] = q
        BY <3>1 DEF Queued, n
      <4>2. i \in 1 .. Len(u.queue) /\ u.queue[i] = q
        BY <1>2, <1>5, <4>1
      <4> QED BY <4>2 DEF Queued
    <3>2. CASE Finished(R, t, q)
      BY <1>7, <3>2 DEF Finished
    <3> QED BY <3>1, <3>2 DEF SearchInv, DoneOK
  <2>2. Queued(u, next)
    <3>1. n + 1 \in 1 .. Len(u.queue)
      BY <1>2, <1>5
    <3> QED BY <1>5, <3>1 DEF Queued
  <2> QED BY <2>1, <2>2 DEF DoneOK
<1>12. CountOK(k + 1, u)
  <2>1. CountOK(k, t) /\ Len(t.queue) \in Nat /\ Len(u.queue) = Len(t.queue) + 1
    BY <1>2, <1>5 DEF SearchInv, n
  <2>2. IsFiniteSet(t.visited)
    BY VersionsOK, FS_Subset DEF Searching
  <2>3. Cardinality(u.visited) = Cardinality(t.visited) + 1 /\ Cardinality(t.visited) \in Nat
    BY <2>2, FS_AddElement, FS_CardinalityType
  <2> QED BY <2>1, <2>3, CountStep, Zenon
<1> QED BY <1>8, <1>10, <1>11, <1>12 DEF SearchInv

LEMMA SearchKeeps ==
    ASSUME NEW R, RulesOK(R), NEW from \in RuleVersions(R), NEW s,
           Searches(s, R, from), NEW k \in Nat
    PROVE  SearchInv(R, from, k, s[k])
<1> DEFINE P == {n \in Nat : SearchInv(R, from, n, s[n])}
<1>1. 0 \in P
  BY StartInv DEF Searches
<1>2. ASSUME NEW n \in Nat, n \in P PROVE n + 1 \in P
  <2> DEFINE t == s[n]
             u == s[n + 1]
  <2>1. t \in Searching(R) /\ u \in Searching(R) /\ u = Turn(R, t)
    BY DEF Searches
  <2>2. SearchInv(R, from, n, t)
    BY <1>2
  <2> HIDE DEF t, u
  <2>3. CASE t.queue = <<>>
    <3>1. u = t
      BY <2>1, <2>3 DEF Turn
    <3>2. SearchInv(R, from, n + 1, u)
      BY <2>2, <2>3, <3>1 DEF SearchInv, CountOK
    <3> QED BY <3>2 DEF u
  <2>4. CASE t.queue # <<>>
    <3>1. SearchInv(R, from, n + 1, u)
      <4>1. CASE /\ u.visited = t.visited /\ u.found = t.found
                 /\ u.queue = Tail(t.queue)
                 /\ \A w : Rule(Last(Head(t.queue)), w, FALSE) \in R => w \in t.visited
        BY <2>1, <2>2, <2>4, <4>1, DropInv
      <4>2. ASSUME NEW w \in RuleVersions(R) \ t.visited,
                   Rule(Last(Head(t.queue)), w, FALSE) \in R,
                   u.visited = t.visited \cup {w},
                   u.queue = Append(t.queue, Append(Head(t.queue), w)),
                   u.found = t.found \cup {Append(Head(t.queue), w)}
            PROVE  SearchInv(R, from, n + 1, u)
        BY <2>1, <2>2, <2>4, <4>2, ExtendInv
      <4> QED BY <2>1, <2>4, <4>1, <4>2, TurnIs, Zenon
    <3> QED BY <3>1 DEF u
  <2> QED BY <2>3, <2>4
<1>3. Nat \subseteq P
  <2> HIDE DEF P
  <2> QED BY <1>1, <1>2, Induction
<1> QED BY <1>3

\* In the end every path is finished.
LEMMA SearchEnds ==
    ASSUME NEW R, RulesOK(R), NEW from \in RuleVersions(R), NEW s,
           Searches(s, R, from)
    PROVE  LET t == s[2 * Cardinality(RuleVersions(R))]
           IN  /\ t \in Searching(R) /\ WaysOK(R, from, t)
               /\ \A p \in t.found : Finished(R, t, p)
<1> DEFINE k == 2 * Cardinality(RuleVersions(R))
           t == s[k]
<1>1. IsFiniteSet(RuleVersions(R)) /\ Cardinality(RuleVersions(R)) \in Nat
  BY VersionsOK, FS_CardinalityType
<1>2. k \in Nat
  BY <1>1
<1>3. t \in Searching(R) /\ SearchInv(R, from, k, t)
  BY <1>2, SearchKeeps DEF Searches
<1>4. Cardinality(t.visited) \in Nat
      /\ Cardinality(t.visited) <= Cardinality(RuleVersions(R))
  BY <1>1, <1>3, FS_Subset, FS_CardinalityType DEF Searching
<1>5. t.queue = <<>>
  <2>1. Len(t.queue) \in Nat
    BY <1>3 DEF Searching
  <2>2. k + 1 + Len(t.queue) # 2 * Cardinality(t.visited)
    BY <1>1, <1>4, <2>1
  <2> HIDE DEF t, k
  <2> QED BY <1>3, <2>2 DEF SearchInv, CountOK
<1>6. \A p \in t.found : ~Queued(t, p)
  BY <1>5 DEF Queued
<1> HIDE DEF t, k
<1> QED BY <1>3, <1>6 DEF SearchInv, DoneOK, t, k

\* No way to a version is shorter than the path that is found.
LEMMA FoundIsShortest ==
    ASSUME NEW R, RulesOK(R), NEW from \in RuleVersions(R), NEW to, NEW t,
           WaysOK(R, from, t), \A p \in t.found : Finished(R, t, p),
           \A p \in t.found : Len(p) \in Nat,
           NEW n \in Nat, n >= 2, NEW q \in [1 .. n -> RuleVersions(R)],
           IsPath(R, q, from, to)
    PROVE  /\ \E p \in t.found : Last(p) = to
           /\ \A p \in t.found : Last(p) = to => Len(p) <= n
<1>1. /\ Len(q) = n /\ q[1] = from /\ q[n] = to
      /\ \A i \in 1 .. n - 1 : Rule(q[i], q[i + 1], FALSE) \in R
  <2>1. q \in Seq(RuleVersions(R)) /\ Len(q) = n
    OBVIOUS
  <2> QED BY <2>1 DEF IsPath, Last
<1> DEFINE Reached(i) == /\ q[i] \in t.visited
                         /\ \A p \in t.found : Last(p) = q[i] => Len(p) <= i
           P == {i \in Nat : i < n => Reached(i + 1)}
<1>2. 0 \in P
  <2>1. 0 + 1 = 1 /\ q[1] = from
    BY <1>1
  <2>2. from \in t.visited /\ \A p \in t.found : Last(p) = from => Len(p) <= 1
    <3>1. ASSUME NEW p \in t.found, Last(p) = from PROVE Len(p) <= 1
      <4>1. Len(p) = 1
        BY <3>1 DEF WaysOK
      <4> QED BY <4>1
    <3> QED BY <3>1 DEF WaysOK
  <2>3. Reached(1)
    BY <2>1, <2>2, Zenon
  <2> HIDE DEF Reached
  <2> QED BY <2>1, <2>3
<1>3. ASSUME NEW i \in Nat, i \in P PROVE i + 1 \in P
  <2>1. SUFFICES ASSUME i + 1 < n PROVE Reached((i + 1) + 1)
    OBVIOUS
  <2>2. Reached(i + 1) /\ i + 1 \in 1 .. n - 1 /\ i + 1 \in Nat
    BY <1>3, <2>1
  <2>3. PICK p \in t.found : Last(p) = q[i + 1] /\ Len(p) <= i + 1
    BY <2>2 DEF WaysOK
  <2>4. Rule(Last(p), q[(i + 1) + 1], FALSE) \in R
    BY <1>1, <2>2, <2>3
  <2>5. /\ q[(i + 1) + 1] \in t.visited
        /\ \A r \in t.found : Last(r) = q[(i + 1) + 1] => Len(r) <= Len(p) + 1
    BY <2>4 DEF Finished
  <2>6. ASSUME NEW r \in t.found, Last(r) = q[(i + 1) + 1] PROVE Len(r) <= (i + 1) + 1
    <3>1. Len(r) <= Len(p) + 1 /\ Len(r) \in Nat /\ Len(p) \in Nat
      BY <2>5, <2>6
    <3> QED BY <2>3, <3>1
  <2> QED BY <2>5, <2>6
<1>4. Nat \subseteq P
  <2> HIDE DEF P
  <2> QED BY <1>2, <1>3, Induction
<1>5. Reached(n)
  <2>1. n - 1 \in Nat /\ n - 1 < n /\ (n - 1) + 1 = n
    OBVIOUS
  <2>2. n - 1 \in P
    BY <1>4, <2>1
  <2> HIDE DEF Reached
  <2> QED BY <2>1, <2>2
<1> QED BY <1>1, <1>5 DEF WaysOK

(***************************************************************************)
(* FindPath returns a shortest path if there is one.                       *)
(***************************************************************************)
LEMMA FindPathExact ==
    ASSUME NEW R, RulesOK(R), NEW from, NEW to, from # to
    PROVE  IF FindPath(R, from, to) = NoPath
           THEN ~Reachable(R, from, to)
           ELSE /\ FindPath(R, from, to) \in Paths(R)
                /\ IsShortest(R, FindPath(R, from, to), from, to)
<1>1. CASE ~({from, to} \subseteq RuleVersions(R))
  <2>1. FindPath(R, from, to) = NoPath
    BY <1>1, Zenon DEF FindPath
  <2>2. ASSUME NEW n \in 2 .. Cardinality(RuleVersions(R)),
               NEW p \in [1 .. n -> RuleVersions(R)], IsPath(R, p, from, to)
        PROVE  FALSE
    <3>1. n \in Nat /\ n >= 2 /\ p \in Seq(RuleVersions(R)) /\ Len(p) = n
      BY VersionsOK, FS_CardinalityType
    <3>2. p[1] = from /\ p[n] = to
      BY <2>2, <3>1 DEF IsPath, Last
    <3> QED BY <1>1, <3>1, <3>2
  <2> QED BY <2>1, <2>2, Zenon DEF Reachable
<1>2. CASE {from, to} \subseteq RuleVersions(R)
  <2>1. from \in RuleVersions(R) /\ to \in RuleVersions(R)
    BY <1>2
  <2>2. PICK s : /\ Searches(s, R, from)
                 /\ FindPath(R, from, to) = IF Ways(s, R, to) # {}
                                            THEN CHOOSE p \in Ways(s, R, to) : TRUE
                                            ELSE NoPath
    BY <2>1, SearchExists
  <2> DEFINE t == s[2 * Cardinality(RuleVersions(R))]
  <2>3. /\ t \in Searching(R) /\ WaysOK(R, from, t)
        /\ \A p \in t.found : Finished(R, t, p)
    BY <2>1, <2>2, SearchEnds, Zenon
  <2>4. Ways(s, R, to) = {p \in t.found : Last(p) = to}
    BY Zenon DEF Ways
  <2> HIDE DEF t
  <2>5. \A p \in t.found : p \in Paths(R) /\ Len(p) \in Nat
    BY <2>3 DEF Searching, Paths
  <2>6. ASSUME NEW n \in Nat, n >= 2, NEW q \in [1 .. n -> RuleVersions(R)],
               IsPath(R, q, from, to)
        PROVE  /\ Ways(s, R, to) # {}
               /\ \A p \in Ways(s, R, to) : Len(p) <= n
    BY <2>1, <2>3, <2>4, <2>5, <2>6, FoundIsShortest
  <2>7. CASE Ways(s, R, to) = {}
    <3>1. FindPath(R, from, to) = NoPath
      BY <2>2, <2>7
    <3>2. ~Reachable(R, from, to)
      <4>1. ASSUME NEW n \in 2 .. Cardinality(RuleVersions(R)),
                   NEW q \in [1 .. n -> RuleVersions(R)], IsPath(R, q, from, to)
            PROVE  FALSE
        <5>1. n \in Nat /\ n >= 2
          BY VersionsOK, FS_CardinalityType
        <5> QED BY <2>6, <2>7, <4>1, <5>1
      <4> QED BY <4>1, Zenon DEF Reachable
    <3> QED BY <3>1, <3>2
  <2>8. CASE Ways(s, R, to) # {}
    <3> DEFINE p == FindPath(R, from, to)
    <3>1. p \in Ways(s, R, to)
      BY <2>2, <2>8
    <3> HIDE DEF p
    <3>2. /\ p \in Seq(RuleVersions(R)) /\ Len(p) \in Nat /\ Len(p) >= 1
          /\ Last(p) = to /\ p[1] = from
          /\ \A i \in 1 .. Len(p) - 1 : Rule(p[i], p[i + 1], FALSE) \in R
      <4>1. p \in t.found /\ Last(p) = to
        BY <2>4, <3>1
      <4>2. Way(R, p, from) /\ Len(p) \in Nat
        BY <2>3, <2>5, <4>1 DEF WaysOK
      <4> QED BY <4>1, <4>2 DEF Way, Paths
    <3>3. Len(p) > 1
      BY <3>2 DEF Last
    <3>4. IsPath(R, p, from, to)
      BY <3>2, <3>3 DEF IsPath
    <3>5. ASSUME NEW n \in 2 .. Len(p) - 1, NEW q \in [1 .. n -> RuleVersions(R)],
                 IsPath(R, q, from, to)
          PROVE  FALSE
      <4>1. n \in Nat /\ n >= 2 /\ n < Len(p)
        BY <3>2
      <4>2. Len(p) <= n
        BY <2>6, <3>1, <3>5, <4>1
      <4> QED BY <3>2, <4>1, <4>2
    <3>6. p # NoPath
      BY <3>3 DEF NoPath
    <3>7. p \in Paths(R)
      BY <3>2 DEF Paths
    <3> QED BY <3>4, <3>5, <3>6, <3>7, Zenon DEF IsShortest, p
  <2> QED BY <2>7, <2>8
<1> QED BY <1>1, <1>2

-----------------------------------------------------------------------------
(***************************************************************************)
(* The inductive invariant.                                                *)
(***************************************************************************)

States == {"Deploying", "Upgrading", "UpgradeFailed", "Ready"}

\* The points of a reconcile that goes on with the hop of the annotation.
HopPoints == {"resolve", "spec", "status", "progress", "dag", "finish", "unmark"}

Records == [failed: States \cup {Blank}, normal: States \cup {Blank},
            count: Nat, requeue: BOOLEAN]

\* Once the Upgrading of a hop is recorded, a failure is hidden behind a status.
RecordOK ==
    rec \in Records /\ (brec.pc \in {"progress", "dag"} => rec.normal # Blank)

RoutesOK ==
    /\ rules \in RuleSets
    /\ route = [p \in Versions \X Versions |->
                   IF Loads(rules) THEN FindPath(rules, p[1], p[2]) ELSE NoPath]

CvOK ==
    /\ cv \in [exists: BOOLEAN, desired: MaybeVersion, current: MaybeVersion,
               phase: Phases]
    /\ cv.exists => cv.desired \in Versions

BcOK ==
    bc \in [spec: Versions, ver: MaybeVersion, ann: MaybeVersion, st: States,
            target: MaybeVersion, done: SUBSET Comps]

CrecOK ==
    /\ crec \in [pc: CPoints, cur: MaybeVersion, des: MaybeVersion, phase: Phases,
                 ann: MaybeVersion, hop: MaybeVersion, inst: BOOLEAN]
    /\ crec.pc \in {"ensure", "mark"} => crec.hop \in Versions
    /\ crec.pc # "idle" => crec.cur \in Versions /\ crec.des \in Versions

BrecOK ==
    /\ brec \in [pc: BPoints, hop: MaybeVersion, ann: MaybeVersion,
                 st: States \cup {Blank}]
    /\ brec.pc \in HopPoints \cup {"hop"} => brec.hop \in Versions

RestOK ==
    /\ ri \in [Versions -> Images] /\ comps \in [Comps -> Versions]
    /\ cq \in BOOLEAN /\ bq \in BOOLEAN
    /\ edits \in 0..MaxEdits /\ fails \in 0..MaxFails /\ faults \in 0..MaxFaults

TypeInv == CvOK /\ BcOK /\ CrecOK /\ BrecOK /\ RestOK /\ RecordOK /\ RoutesOK

\* h is the next version on the way from the current version to the desired.
OnTheWay(h) ==
    /\ cv.current # None /\ cv.current # cv.desired
    /\ PathTo(cv.current, cv.desired) # NoPath
    /\ h = HopTarget(PathTo(cv.current, cv.desired))

\* Until the installation is on record nothing is marked.
InstallInv ==
    /\ ~cv.exists => cv.desired = None /\ cv.current = None
    /\ cv.current = None =>
          /\ cv.exists => cv.desired = InstalledVersion(bc)
          /\ bc.ann = None
          /\ \A c \in Comps : comps[c] = InstalledVersion(bc)
    /\ cv.current # None \/ bc.st = "Ready" => bc.ver # None

\* What the ClusterVersion controller has read is still so, and the hop it
\* marks or is going to mark is the next on the way.
MarkInv ==
    /\ crec.pc # "idle" =>
          cv.exists /\ crec.cur = CurrentVersion /\ crec.des = cv.desired
    /\ crec.pc \in {"ensure", "mark"} /\ ~crec.inst => OnTheWay(crec.hop)
    /\ crec.pc = "mark" => ~crec.inst
    /\ bc.ann # None => OnTheWay(bc.ann)

\* The hop that the BKECluster controller carries out is the one that is
\* marked, and what it counts as done is done for this hop.
HopInv ==
    /\ brec.pc \in HopPoints =>
          bc.ann # None /\ brec.hop = bc.ann /\ brec.ann = bc.ann
    /\ brec.pc = "hop" => bc.ann = None /\ OnTheWay(brec.hop)
    /\ brec.pc \in {"unmark", "hop"} => ~cq /\ crec.pc = "idle"
    /\ brec.pc \in {"dag", "finish", "unmark", "hop"} => bc.target = brec.hop
    /\ brec.pc \in {"finish", "unmark", "hop"} => bc.done = Comps
    /\ \A c \in bc.done : comps[c] = bc.target

IInv == TypeInv /\ InstallInv /\ MarkInv /\ HopInv

-----------------------------------------------------------------------------
(***************************************************************************)
(* The routes, and the type invariant.                                     *)
(***************************************************************************)

LEMMA RulesOfState ==
    ASSUME rules \in RuleSets
    PROVE  /\ RulesOK(rules)
           /\ rules \subseteq [from: Versions, to: Versions, blocked: BOOLEAN]
<1>1. /\ IsFiniteSet(rules)
      /\ rules \subseteq [from: Versions, to: Versions, blocked: BOOLEAN]
      /\ Versions \subseteq Nat
  BY UpgradeHopAssumption
<1>2. [from: Versions, to: Versions, blocked: BOOLEAN]
         \subseteq [from: Nat, to: Nat, blocked: BOOLEAN]
  BY <1>1
<1> QED BY <1>1, <1>2 DEF RulesOK

\* The hop of a route is a version, and a rule that is not blocked leads there.
LEMMA RouteIs ==
    ASSUME RoutesOK, NEW a \in Versions, NEW b \in Versions, a # b
    PROVE  /\ PathTo(a, b) # NoPath =>
                 /\ Loads(rules) /\ IsShortest(rules, PathTo(a, b), a, b)
                 /\ HopTarget(PathTo(a, b)) \in Versions
                 /\ Rule(a, HopTarget(PathTo(a, b)), FALSE) \in rules
           /\ Loads(rules) /\ PathTo(a, b) = NoPath => ~Reachable(rules, a, b)
<1>1. PathTo(a, b) = IF Loads(rules) THEN FindPath(rules, a, b) ELSE NoPath
  BY DEF RoutesOK, PathTo
<1>2. RulesOK(rules)
      /\ rules \subseteq [from: Versions, to: Versions, blocked: BOOLEAN]
  BY RulesOfState DEF RoutesOK
<1>3. IF FindPath(rules, a, b) = NoPath
      THEN ~Reachable(rules, a, b)
      ELSE /\ FindPath(rules, a, b) \in Paths(rules)
           /\ IsShortest(rules, FindPath(rules, a, b), a, b)
  BY <1>2, FindPathExact
<1>4. ASSUME PathTo(a, b) # NoPath
      PROVE  /\ Loads(rules) /\ IsShortest(rules, PathTo(a, b), a, b)
             /\ HopTarget(PathTo(a, b)) \in Versions
             /\ Rule(a, HopTarget(PathTo(a, b)), FALSE) \in rules
  <2> DEFINE p == PathTo(a, b)
  <2>1. Loads(rules) /\ p = FindPath(rules, a, b)
    BY <1>1, <1>4
  <2>2. p \in Paths(rules) /\ IsShortest(rules, p, a, b)
    BY <1>3, <1>4, <2>1
  <2> HIDE DEF p
  <2>3. Rule(p[1], p[2], FALSE) \in rules /\ p[1] = a
    <3>1. /\ Len(p) > 1 /\ p[1] = a
          /\ \A i \in 1 .. (Len(p) - 1) : Rule(p[i], p[i + 1], FALSE) \in rules
      BY <2>2, Zenon DEF IsShortest, IsPath
    <3>2. Len(p) \in Nat
      BY <2>2 DEF Paths
    <3>3. 1 \in 1 .. (Len(p) - 1) /\ 1 + 1 = 2
      BY <3>1, <3>2
    <3> QED BY <3>1, <3>3
  <2>4. HopTarget(p) = p[2] /\ p[2] \in Versions
    BY <1>2, <2>3 DEF HopTarget, Rule
  <2> QED BY <2>1, <2>2, <2>3, <2>4 DEF p
<1> QED BY <1>1, <1>3, <1>4


\* What recordBKEClusterStatus keeps and writes, for a cluster that is not paused.
LEMMA RecordNormal ==
    ASSUME NEW r \in Records, NEW s \in States
    PROVE  LET o == RecordCluster(r, s, FALSE, FALSE)
           IN  o.rec \in Records /\ o.status = s /\ o.rec.normal = s
<1> DEFINE o == RecordCluster(r, s, FALSE, FALSE)
           q == [r EXCEPT !.normal = s, !.requeue = FALSE]
<1>1. s # Blank
  BY DEF States, Blank
<1>2. o = [rec |-> q, status |-> s, spent |-> FALSE]
  BY <1>1 DEF RecordCluster
<1>3. q \in Records /\ q.normal = s
  BY DEF Records
<1> HIDE DEF o, q
<1>4. o.rec = q /\ o.status = s
  BY <1>2
<1> QED BY <1>3, <1>4 DEF o

LEMMA RecordFailure ==
    ASSUME NEW r \in Records, NEW s \in States
    PROVE  LET o == RecordCluster(r, s, TRUE, FALSE)
           IN  /\ o.rec \in Records /\ o.rec.normal = r.normal
               /\ o.status \in {s, r.normal}
<1> DEFINE o == RecordCluster(r, s, TRUE, FALSE)
           n == IF r.failed = s THEN r.count + 1 ELSE 1
           c == CountFailure(r, s)
           q == [c EXCEPT !.requeue = TRUE]
<1>1. s # Blank
  BY DEF States, Blank
<1>2. n \in Nat /\ c = [r EXCEPT !.failed = s, !.count = n]
  BY DEF Records, CountFailure
<1>3. c \in Records /\ c.normal = r.normal
  <2> HIDE DEF n, c
  <2> QED BY <1>2 DEF Records
<1>4. CASE AllowFailed(c)
  <2>1. o = [rec |-> q, status |-> r.normal, spent |-> FALSE]
    BY <1>1, <1>4 DEF RecordCluster
  <2>2. q \in Records /\ q.normal = r.normal
    <3> HIDE DEF c
    <3> QED BY <1>3 DEF Records
  <2> HIDE DEF o, q
  <2>3. o.rec = q /\ o.status = r.normal
    BY <2>1
  <2> QED BY <2>2, <2>3 DEF o
<1>5. CASE ~AllowFailed(c)
  <2>1. o = [rec |-> Spend(c), status |-> s, spent |-> TRUE]
    BY <1>1, <1>5 DEF RecordCluster
  <2>2. Spend(c) \in Records /\ Spend(c).normal = r.normal
    <3> HIDE DEF c
    <3> QED BY <1>3 DEF Records, Spend
  <2> HIDE DEF o
  <2>3. o.rec = Spend(c) /\ o.status = s
    BY <2>1
  <2> QED BY <2>2, <2>3 DEF o
<1> QED BY <1>4, <1>5

LEMMA TypeInit == Init => TypeInv
<1> SUFFICES ASSUME Init PROVE TypeInv
  OBVIOUS
<1>1. 0 \in 0 .. MaxEdits /\ 0 \in 0 .. MaxFails /\ 0 \in 0 .. MaxFaults
  BY UpgradeHopAssumption
<1>2. CvOK /\ BcOK /\ CrecOK /\ BrecOK /\ RestOK
  <2>1. PICK v \in Versions :
          /\ bc = [spec |-> v, ver |-> None, ann |-> None, st |-> "Deploying",
                   target |-> None, done |-> {}]
          /\ comps = [c \in Comps |-> v]
    BY DEF Init
  <2>2. /\ cq = FALSE /\ bq = TRUE
        /\ cv = [exists |-> FALSE, desired |-> None, current |-> None, phase |-> Blank]
        /\ ri = [w \in Versions |-> "absent"]
        /\ crec = [pc |-> "idle", cur |-> None, des |-> None, phase |-> Blank,
                   ann |-> None, hop |-> None, inst |-> FALSE]
        /\ brec = [pc |-> "idle", hop |-> None, ann |-> None, st |-> Blank]
        /\ edits = 0 /\ fails = 0 /\ faults = 0
    BY DEF Init
  <2>3. CvOK
    BY <2>2 DEF CvOK, MaybeVersion, Phases
  <2>4. BcOK
    BY <2>1 DEF BcOK, MaybeVersion, States
  <2>5. CrecOK /\ BrecOK
    BY <2>2 DEF CrecOK, BrecOK, MaybeVersion, Phases, CPoints, BPoints, HopPoints
  <2>6. RestOK
    BY <1>1, <2>1, <2>2 DEF RestOK, Images
  <2> QED BY <2>3, <2>4, <2>5, <2>6
<1>3. RecordOK /\ RoutesOK
  BY DEF Init, RecordOK, Records, EmptyRecord, RoutesOK
<1> QED BY <1>2, <1>3 DEF TypeInv

LEMMA TypeInvIsType == TypeInv => TypeOK
<1>1. {Blank, "Deploying", "Upgrading", "UpgradeFailed", "Ready"} = States \cup {Blank}
  BY DEF States
<1> QED BY <1>1, Zenon DEF TypeInv, TypeOK, CvOK, BcOK, CrecOK, BrecOK, RestOK,
   RoutesOK, States

LEMMA CVTypes ==
    ASSUME TypeInv, CVNext \/ CVError
    PROVE  TypeInv'
<1>1. CvOK /\ BcOK /\ CrecOK /\ BrecOK /\ RestOK /\ RecordOK /\ RoutesOK
  BY DEF TypeInv
<1>2. Versions \subseteq MaybeVersion /\ None \in MaybeVersion /\ None \notin Versions
  BY UpgradeHopAssumption DEF MaybeVersion
<1>3. CASE CVRead
  <2>1. CrecOK'
    <3>1. CurrentVersion \in Versions
      BY <1>1, <1>2 DEF CurrentVersion, InstalledVersion, CvOK, BcOK, MaybeVersion
    <3> QED BY <1>1, <1>2, <1>3, <3>1 DEF CVRead, CrecOK, CvOK, BcOK, CPoints
  <2> QED BY <1>1, <1>3, <2>1 DEF TypeInv, CVRead, objects, bounds, CvOK, BcOK,
     BrecOK, RestOK, RecordOK, RoutesOK
<1>4. CASE CVDecide
  <2>1. CvOK'
    BY <1>1, <1>4 DEF CVDecide, DecideInstall, DecideThere, DecideFailed,
       DecideBlocked, DecideHop, SetPhase, CvOK, Phases
  <2>2. BcOK'
    BY <1>1, <1>2, <1>4 DEF CVDecide, DecideInstall, DecideThere, DecideFailed,
       DecideBlocked, DecideHop, BcOK
  <2>3. CrecOK'
    <3>1. CASE DecideHop
      <4>1. HopTarget(PathTo(crec.cur, crec.des)) \in Versions
        BY <1>1, <1>4, <3>1, RouteIs DEF CVDecide, DecideHop, CrecOK
      <4>2. PICK h \in Versions : crec' = [crec EXCEPT !.pc = "ensure", !.hop = h]
        BY <3>1, <4>1 DEF DecideHop
      <4>3. crec.cur \in Versions /\ crec.des \in Versions
        BY <1>1, <1>4 DEF CVDecide, CrecOK
      <4> QED BY <1>1, <1>2, <4>2, <4>3 DEF CrecOK, CPoints
    <3>2. CASE DecideInstall
      BY <1>1, <1>2, <1>4, <3>2 DEF CVDecide, DecideInstall, CrecOK, CPoints, Phases
    <3>3. CASE crec' = CIdle
      BY <1>1, <3>3 DEF CIdle, CrecOK, CPoints
    <3> QED BY <1>4, <3>1, <3>2, <3>3 DEF CVDecide, DecideThere, DecideFailed,
       DecideBlocked
  <2>4. RestOK'
    BY <1>1, <1>4 DEF CVDecide, DecideInstall, DecideThere, DecideFailed,
       DecideBlocked, DecideHop, bounds, RestOK
  <2>5. BrecOK' /\ RecordOK' /\ RoutesOK'
    BY <1>1, <1>4 DEF CVDecide, BrecOK, RecordOK, RoutesOK
  <2> QED BY <2>1, <2>2, <2>3, <2>4, <2>5 DEF TypeInv
<1>5. CASE CVEnsure
  <2>1. CvOK'
    BY <1>1, <1>5 DEF CVEnsure, EnsureCreates, EnsureWaits, EnsureFails,
       EnsureDone, EnsureAndMark, SetPhase, CvOK, Phases
  <2>2. CrecOK'
    BY <1>1, <1>5 DEF CVEnsure, EnsureCreates, EnsureWaits, EnsureFails,
       EnsureDone, EnsureAndMark, CIdle, CrecOK, CPoints
  <2>3. RestOK'
    <3>1. ri' \in [Versions -> Images] /\ fails' \in 0 .. MaxFails /\ cq' \in BOOLEAN
      <4>1. CASE EnsureCreates
        BY <1>1, <1>5, <4>1 DEF CVEnsure, EnsureCreates, CrecOK, RestOK, Images
      <4>2. CASE EnsureWaits
        BY <1>1, <4>2 DEF EnsureWaits, RestOK
      <4>3. CASE EnsureFails
        BY <1>1, <4>3, UpgradeHopAssumption DEF EnsureFails, Fail, RestOK
      <4>4. CASE EnsureDone
        BY <1>1, <4>4 DEF EnsureDone, RestOK
      <4>5. CASE EnsureAndMark
        BY <1>1, <4>5 DEF EnsureAndMark, RestOK
      <4> QED BY <1>5, <4>1, <4>2, <4>3, <4>4, <4>5 DEF CVEnsure
    <3> QED BY <1>1, <1>5, <3>1 DEF CVEnsure, RestOK
  <2>4. BcOK' /\ BrecOK' /\ RecordOK' /\ RoutesOK'
    BY <1>1, <1>5 DEF CVEnsure, BcOK, BrecOK, RecordOK, RoutesOK
  <2> QED BY <2>1, <2>2, <2>3, <2>4 DEF TypeInv
<1>6. CASE CVMark
  <2>1. BcOK' /\ CrecOK'
    BY <1>1, <1>2, <1>6 DEF CVMark, CIdle, BcOK, CrecOK, CPoints
  <2>2. CvOK' /\ BrecOK' /\ RestOK' /\ RecordOK' /\ RoutesOK'
    BY <1>1, <1>6 DEF CVMark, bounds, CvOK, BrecOK, RestOK, RecordOK, RoutesOK
  <2> QED BY <2>1, <2>2 DEF TypeInv
<1>7. CASE CVError
  <2>1. CrecOK' /\ RestOK'
    BY <1>1, <1>7, UpgradeHopAssumption DEF CVError, Fault, CIdle, CrecOK, CPoints,
       objects, RestOK
  <2>2. CvOK' /\ BcOK' /\ BrecOK' /\ RecordOK' /\ RoutesOK'
    BY <1>1, <1>7 DEF CVError, objects, CvOK, BcOK, BrecOK, RecordOK, RoutesOK
  <2> QED BY <2>1, <2>2 DEF TypeInv
<1> QED BY <1>3, <1>4, <1>5, <1>6, <1>7 DEF CVNext


\* The steps of the BKECluster controller.
LEMMA BTypes ==
    ASSUME TypeInv, BNext \/ HandleDAGFailure \/ BError
    PROVE  TypeInv'
<1>1. CvOK /\ BcOK /\ CrecOK /\ BrecOK /\ RestOK /\ RecordOK /\ RoutesOK
  BY DEF TypeInv
<1>2. /\ Versions \subseteq MaybeVersion /\ None \in MaybeVersion
      /\ None \notin Versions /\ MaybeVersion = Versions \cup {None}
      /\ InstalledVersion(bc) \in Versions
  BY <1>1, UpgradeHopAssumption DEF MaybeVersion, InstalledVersion, BcOK
<1>3. CASE BRead
  <2>1. CvOK'
    BY <1>1, <1>2, <1>3 DEF BRead, CvOK
  <2>2. BrecOK'
    BY <1>1, <1>2, <1>3 DEF BRead, BcOK, BrecOK, BPoints, HopPoints
  <2>3. BcOK' /\ CrecOK' /\ RestOK' /\ RecordOK' /\ RoutesOK'
    BY <1>1, <1>3 DEF BRead, BcOK, CrecOK, RestOK, RecordOK, RoutesOK, CvOK, bounds
  <2> QED BY <2>1, <2>2, <2>3 DEF TypeInv
<1>4. CASE BResolve
  <2>1. BrecOK' /\ bq' \in BOOLEAN /\ brec'.pc \in {"spec", "idle"}
    BY <1>1, <1>4 DEF BResolve, EndsWithError, BIdle, BrecOK, BPoints, HopPoints,
       RestOK
  <2>2. RestOK' /\ RecordOK'
    BY <1>1, <1>4, <2>1 DEF BResolve, objects, bounds, RestOK, RecordOK
  <2>3. CvOK' /\ BcOK' /\ CrecOK' /\ RoutesOK'
    BY <1>1, <1>4 DEF BResolve, objects, CvOK, BcOK, CrecOK, RoutesOK
  <2> QED BY <2>1, <2>2, <2>3 DEF TypeInv
<1>5. ASSUME NEW pc \in BPoints, NEW b, Sync(pc, b), bc' = b => BcOK',
             pc \in HopPoints \cup {"hop"} => brec.hop \in Versions,
             bq' \in BOOLEAN, fails' \in 0 .. MaxFails
      PROVE  CvOK' /\ BcOK' /\ CrecOK' /\ BrecOK' /\ RestOK' /\ RoutesOK'
  <2>1. BcOK'
    BY <1>5 DEF Sync
  <2>2. b.st \in States
    BY <1>5, <2>1 DEF Sync, BcOK
  <2>3. BrecOK'
    BY <1>1, <1>5, <2>2 DEF Sync, BrecOK, BcOK
  <2>4. CvOK' /\ CrecOK' /\ RestOK' /\ RoutesOK'
    BY <1>1, <1>5 DEF Sync, CvOK, CrecOK, RestOK, RoutesOK
  <2> QED BY <2>1, <2>3, <2>4
<1>6. CASE SyncSpec
  <2>1. /\ brec.pc = "spec" /\ brec.hop \in Versions
        /\ Sync("status", [bc EXCEPT !.spec = brec.hop])
        /\ bq' \in BOOLEAN /\ fails' \in 0 .. MaxFails /\ rec' = rec
    BY <1>1, <1>6 DEF SyncSpec, BrecOK, HopPoints, RestOK
  <2>2. bc' = [bc EXCEPT !.spec = brec.hop] => BcOK'
    BY <1>1, <2>1 DEF BcOK
  <2>3. CvOK' /\ BcOK' /\ CrecOK' /\ BrecOK' /\ RestOK' /\ RoutesOK'
    BY <1>5, <2>1, <2>2 DEF BPoints
  <2>4. RecordOK'
    BY <1>1, <2>1 DEF Sync, RecordOK, BrecOK
  <2> QED BY <2>3, <2>4 DEF TypeInv
<1>7. CASE PatchClusterStatus
  <2> DEFINE r == RecordCluster(rec, "Upgrading", FALSE, FALSE)
  <2>1. r.rec \in Records /\ r.status = "Upgrading" /\ r.rec.normal = "Upgrading"
    BY <1>1, RecordNormal DEF RecordOK, States
  <2> HIDE DEF r
  <2>2. /\ brec.pc = "status" /\ brec.hop \in Versions
        /\ Sync("progress", [bc EXCEPT !.st = r.status])
        /\ bq' \in BOOLEAN /\ fails' \in 0 .. MaxFails /\ rec' = r.rec
    BY <1>1, <1>7 DEF PatchClusterStatus, BrecOK, HopPoints, RestOK, r
  <2>3. bc' = [bc EXCEPT !.st = r.status] => BcOK'
    BY <1>1, <2>1, <2>2 DEF BcOK, States
  <2>4. CvOK' /\ BcOK' /\ CrecOK' /\ BrecOK' /\ RestOK' /\ RoutesOK'
    BY <1>5, <2>2, <2>3 DEF BPoints
  <2>5. RecordOK'
    BY <2>1, <2>2 DEF RecordOK, Blank
  <2> QED BY <2>4, <2>5 DEF TypeInv
<1>8. CASE EnsureProgress
  <2>1. /\ brec.pc = "progress" /\ brec.hop \in Versions
        /\ Sync("dag", Progress(bc, brec.hop))
        /\ bq' \in BOOLEAN /\ fails' \in 0 .. MaxFails /\ rec' = rec
    BY <1>1, <1>8 DEF EnsureProgress, BrecOK, HopPoints, RestOK
  <2>2. bc' = Progress(bc, brec.hop) => BcOK'
    BY <1>1, <1>2, <2>1 DEF BcOK, Progress
  <2>3. CvOK' /\ BcOK' /\ CrecOK' /\ BrecOK' /\ RestOK' /\ RoutesOK'
    BY <1>5, <2>1, <2>2 DEF BPoints
  <2>4. RecordOK'
    BY <1>1, <2>1 DEF RecordOK
  <2> QED BY <2>3, <2>4 DEF TypeInv
<1>9. CASE HandleDAGFailure
  <2> DEFINE r == RecordCluster(rec, "UpgradeFailed", TRUE, FALSE)
             pc == IF r.rec.requeue THEN "idle" ELSE "abort"
  <2>1. /\ r.rec \in Records /\ r.rec.normal = rec.normal
        /\ r.status \in {"UpgradeFailed", rec.normal}
    BY <1>1, RecordFailure DEF RecordOK, States
  <2> HIDE DEF r
  <2>2. /\ brec.pc = "dag" /\ Sync(pc, [bc EXCEPT !.st = r.status])
        /\ bq' = (bq \/ r.rec.requeue)
        /\ fails' \in 0 .. MaxFails /\ rec' = r.rec
    <3>1. rec' = r.rec /\ Sync(pc, [bc EXCEPT !.st = r.status])
          /\ bq' = (bq \/ r.rec.requeue)
      BY <1>9, Zenon DEF HandleDAGFailure, r
    <3>2. brec.pc = "dag" /\ fails < MaxFails /\ fails' = fails + 1
      BY <1>9, Zenon DEF HandleDAGFailure, Fail
    <3>3. fails' \in 0 .. MaxFails
      BY <1>1, <3>2, UpgradeHopAssumption DEF RestOK
    <3> QED BY <3>1, <3>2, <3>3
  <2>3. bq' \in BOOLEAN
    BY <1>1, <2>1, <2>2 DEF RestOK, Records
  <2>4. r.status \in States
    BY <1>1, <2>1, <2>2 DEF RecordOK, States, Records
  <2>5. bc' = [bc EXCEPT !.st = r.status] => BcOK'
    BY <1>1, <2>4 DEF BcOK
  <2>6. pc \in {"idle", "abort"}
    OBVIOUS
  <2> HIDE DEF pc
  <2>7. CvOK' /\ BcOK' /\ CrecOK' /\ BrecOK' /\ RestOK' /\ RoutesOK'
    BY <1>5, <2>2, <2>3, <2>5, <2>6 DEF BPoints, HopPoints
  <2>8. RecordOK'
    BY <1>1, <2>1, <2>2, <2>6 DEF RecordOK, Sync, BrecOK
  <2> QED BY <2>7, <2>8 DEF TypeInv
<1>10. CASE \E c \in Comps : BComponent(c)
  <2>1. PICK c \in Comps : BComponent(c)
    BY <1>10
  <2>2. BcOK' /\ RestOK'
    BY <1>1, <2>1 DEF BComponent, BcOK, RestOK, BrecOK, HopPoints, bounds
  <2>3. CvOK' /\ CrecOK' /\ BrecOK' /\ RecordOK' /\ RoutesOK'
    BY <1>1, <2>1 DEF BComponent, CvOK, CrecOK, BrecOK, RecordOK, RoutesOK
  <2> QED BY <2>2, <2>3 DEF TypeInv
<1>11. CASE BDagDone
  <2>1. BrecOK' /\ RecordOK'
    BY <1>1, <1>11 DEF BDagDone, BrecOK, RecordOK, BPoints, HopPoints
  <2>2. CvOK' /\ BcOK' /\ CrecOK' /\ RestOK' /\ RoutesOK'
    BY <1>1, <1>11 DEF BDagDone, objects, bounds, CvOK, BcOK, CrecOK, RestOK,
       RoutesOK
  <2> QED BY <2>1, <2>2 DEF TypeInv
<1>12. CASE Abort
  <2>1. BcOK' /\ BrecOK' /\ RecordOK'
    BY <1>1, <1>12 DEF Abort, BcOK, BrecOK, RecordOK, BPoints, HopPoints, States
  <2>2. CvOK' /\ CrecOK' /\ RestOK' /\ RoutesOK'
    BY <1>1, <1>12 DEF Abort, bounds, CvOK, CrecOK, RestOK, RoutesOK
  <2> QED BY <2>1, <2>2 DEF TypeInv
<1>13. ASSUME NEW pc \in {"abortHop", "hop"}, Unmark(pc),
              pc = "hop" => brec.hop \in Versions
       PROVE  TypeInv'
  <2>1. BcOK' /\ BrecOK' /\ RecordOK'
    BY <1>1, <1>2, <1>13 DEF Unmark, BcOK, BrecOK, RecordOK, BPoints, HopPoints
  <2>2. CvOK' /\ CrecOK' /\ RestOK' /\ RoutesOK'
    BY <1>1, <1>13 DEF Unmark, bounds, CvOK, CrecOK, RestOK, RoutesOK
  <2> QED BY <2>1, <2>2 DEF TypeInv
<1>14. CASE AbortMark \/ RemoveMark
  BY <1>1, <1>13, <1>14 DEF AbortMark, RemoveMark, BrecOK, HopPoints
<1>15. CASE FailUpgradeHop \/ CompleteUpgradeHop
  <2>1. brec' = [brec EXCEPT !.pc = brec'.pc] /\ brec'.pc \in {"install", "flow"}
    BY <1>1, <1>15 DEF FailUpgradeHop, CompleteUpgradeHop, BrecOK
  <2>2. /\ UNCHANGED <<rules, route, bc, ri, comps, crec, rec, bq, bounds>>
        /\ cq' \in BOOLEAN
    BY <1>1, <1>15, Zenon DEF FailUpgradeHop, CompleteUpgradeHop, RestOK
  <2>3. BrecOK'
    BY <1>1, <2>1 DEF BrecOK, BPoints, HopPoints
  <2>4. RecordOK'
    BY <1>1, <2>1, <2>2 DEF RecordOK
  <2>5. ASSUME FailUpgradeHop PROVE CvOK'
    BY <1>1, <2>5 DEF FailUpgradeHop, CvOK, Phases
  <2>6. ASSUME CompleteUpgradeHop PROVE CvOK'
    <3>1. brec.hop \in Versions
      BY <1>1, <2>6 DEF CompleteUpgradeHop, BrecOK, HopPoints
    <3> QED BY <1>1, <1>2, <2>6, <3>1 DEF CompleteUpgradeHop, CvOK, Phases
  <2>7. BcOK' /\ CrecOK' /\ RestOK' /\ RoutesOK'
    BY <1>1, <2>2 DEF bounds, BcOK, CrecOK, RestOK, RoutesOK
  <2> QED BY <1>15, <2>3, <2>4, <2>5, <2>6, <2>7 DEF TypeInv
<1>16. CASE PersistFinished
  <2>1. BcOK' /\ BrecOK' /\ bq' \in BOOLEAN /\ brec'.pc \in {"unmark", "idle"}
    BY <1>1, <1>2, <1>16 DEF PersistFinished, EndsWithError, BIdle, BcOK, BrecOK,
       RestOK, BPoints, HopPoints
  <2>2. RestOK' /\ RecordOK'
    BY <1>1, <1>16, <2>1 DEF PersistFinished, bounds, RestOK, RecordOK
  <2>3. CvOK' /\ CrecOK' /\ RoutesOK'
    BY <1>1, <1>16 DEF PersistFinished, CvOK, CrecOK, RoutesOK
  <2> QED BY <2>1, <2>2, <2>3 DEF TypeInv
<1>17. ASSUME NEW v \in Versions
       PROVE  /\ InstallStatus(v) \in [exists: BOOLEAN, desired: MaybeVersion,
                                       current: MaybeVersion, phase: Phases]
              /\ InstallStatus(v).exists = cv.exists
              /\ InstallStatus(v).desired = cv.desired
  BY <1>1, <1>2 DEF InstallStatus, CvOK, Phases
<1>18. CASE PhaseFlow
  <2>1. RoutesOK' /\ CrecOK'
    BY <1>1, <1>18 DEF PhaseFlow, RoutesOK, CrecOK
  <2>2. CASE Fail /\ EndsWithError /\ UNCHANGED <<bc, cv, cq, rec>>
    <3>1. BrecOK' /\ brec'.pc = "idle" /\ RestOK'
      BY <1>1, <1>18, <2>2, UpgradeHopAssumption DEF PhaseFlow, Fail,
         EndsWithError, BIdle, BrecOK, RestOK, BPoints, HopPoints
    <3>2. CvOK' /\ BcOK' /\ RecordOK'
      BY <1>1, <2>2, <3>1 DEF CvOK, BcOK, RecordOK
    <3> QED BY <2>1, <3>1, <3>2 DEF TypeInv
  <2>3. CASE /\ brec' = [brec EXCEPT !.pc = "install"]
             /\ UNCHANGED <<bc, cv, cq, bq, rec, fails>>
    <3>1. BrecOK' /\ brec'.pc = "install" /\ RestOK'
      BY <1>1, <1>18, <2>3 DEF PhaseFlow, BrecOK, RestOK, BPoints, HopPoints
    <3>2. CvOK' /\ BcOK' /\ RecordOK'
      BY <1>1, <2>3, <3>1 DEF CvOK, BcOK, RecordOK
    <3> QED BY <2>1, <3>1, <3>2 DEF TypeInv
  <2>4. CASE /\ bc' = [bc EXCEPT !.ver = InstalledVersion(bc), !.st = "Ready"]
             /\ cv' = IF bc.ann = None THEN InstallStatus(InstalledVersion(bc))
                      ELSE cv
             /\ cq' = (cq \/ cv' # cv)
             /\ rec' = RecordCluster(rec, "Ready", FALSE, FALSE).rec
             /\ brec' = [brec EXCEPT !.pc = "install"]
             /\ UNCHANGED <<bq, fails>>
    <3>1. BrecOK' /\ brec'.pc = "install" /\ RestOK'
      BY <1>1, <1>18, <2>4 DEF PhaseFlow, BrecOK, RestOK, BPoints, HopPoints
    <3>2. BcOK'
      BY <1>1, <1>2, <2>4 DEF BcOK, States
    <3>3. CvOK'
      BY <1>1, <1>2, <1>17, <2>4 DEF CvOK
    <3>4. RecordOK'
      <4>1. RecordCluster(rec, "Ready", FALSE, FALSE).rec \in Records
        BY <1>1, RecordNormal DEF RecordOK, States
      <4> QED BY <2>4, <3>1, <4>1 DEF RecordOK
    <3> QED BY <2>1, <3>1, <3>2, <3>3, <3>4 DEF TypeInv
  <2> QED BY <1>18, <2>2, <2>3, <2>4 DEF PhaseFlow
<1>19. CASE CompleteInstall
  <2>1. CvOK'
    BY <1>1, <1>2, <1>17, <1>19 DEF CompleteInstall, CvOK
  <2>2. BrecOK' /\ RecordOK'
    BY <1>1, <1>19 DEF CompleteInstall, BIdle, BrecOK, RecordOK, BPoints, HopPoints
  <2>3. RestOK'
    BY <1>1, <1>19 DEF CompleteInstall, bounds, RestOK, RecordOK, Records
  <2>4. BcOK' /\ CrecOK' /\ RoutesOK'
    BY <1>1, <1>19 DEF CompleteInstall, BcOK, CrecOK, RoutesOK
  <2> QED BY <2>1, <2>2, <2>3, <2>4 DEF TypeInv
<1>20. CASE BError
  <2>1. BrecOK' /\ RecordOK'
    BY <1>1, <1>20 DEF BError, EndsWithError, BIdle, BrecOK, RecordOK, BPoints,
       HopPoints
  <2>2. RestOK'
    BY <1>1, <1>20, UpgradeHopAssumption DEF BError, EndsWithError, Fault, objects,
       RestOK
  <2>3. CvOK' /\ BcOK' /\ CrecOK' /\ RoutesOK'
    BY <1>1, <1>20 DEF BError, objects, CvOK, BcOK, CrecOK, RoutesOK
  <2> QED BY <2>1, <2>2, <2>3 DEF TypeInv
<1> QED BY <1>3, <1>4, <1>6, <1>7, <1>8, <1>9, <1>10, <1>11, <1>12, <1>14, <1>15,
           <1>16, <1>18, <1>19, <1>20 DEF BNext

\* The steps of the releases, the user and the process.
LEMMA OtherTypes ==
    ASSUME TypeInv,
           \/ \E v \in Versions : RIPasses(v) \/ RIFails(v) \/ Edit(v)
           \/ Resync \/ Crash \/ UNCHANGED vars
    PROVE  TypeInv'
<1>1. CvOK /\ BcOK /\ CrecOK /\ BrecOK /\ RestOK /\ RecordOK /\ RoutesOK
  BY DEF TypeInv
<1>2. CASE \E v \in Versions : RIPasses(v) \/ RIFails(v)
  <2>1. PICK v \in Versions : RIPasses(v) \/ RIFails(v)
    BY <1>2
  <2>2. RestOK'
    BY <1>1, <2>1, UpgradeHopAssumption DEF RIPasses, RIFails, Fail, bounds,
       RestOK, Images
  <2>3. CvOK' /\ BcOK' /\ CrecOK' /\ BrecOK' /\ RecordOK' /\ RoutesOK'
    BY <1>1, <2>1 DEF RIPasses, RIFails, CvOK, BcOK, CrecOK, BrecOK, RecordOK,
       RoutesOK
  <2> QED BY <2>2, <2>3 DEF TypeInv
<1>3. CASE \E v \in Versions : Edit(v)
  <2>1. PICK v \in Versions : Edit(v)
    BY <1>3
  <2>2. CvOK' /\ RestOK'
    BY <1>1, <2>1, UpgradeHopAssumption DEF Edit, CvOK, RestOK, MaybeVersion
  <2>3. BcOK' /\ CrecOK' /\ BrecOK' /\ RecordOK' /\ RoutesOK'
    BY <1>1, <2>1 DEF Edit, BcOK, CrecOK, BrecOK, RecordOK, RoutesOK
  <2> QED BY <2>2, <2>3 DEF TypeInv
<1>4. CASE Resync
  BY <1>1, <1>4 DEF Resync, objects, bounds, TypeInv, CvOK, BcOK, CrecOK, BrecOK,
     RestOK, RecordOK, RoutesOK
<1>5. CASE Crash
  <2>1. CrecOK' /\ BrecOK'
    BY <1>1, <1>5 DEF Crash, CIdle, BIdle, CrecOK, BrecOK, CPoints, BPoints,
       HopPoints
  <2>2. RestOK' /\ RecordOK'
    <3>1. brec'.pc = "idle" /\ rec' = EmptyRecord
      BY <1>1, <1>5 DEF Crash, BIdle, BrecOK
    <3>2. RestOK'
      BY <1>1, <1>5, UpgradeHopAssumption DEF Crash, Fault, objects, RestOK, CvOK
    <3> QED BY <3>1, <3>2 DEF RecordOK, Records, EmptyRecord
  <2>3. CvOK' /\ BcOK' /\ RoutesOK'
    BY <1>1, <1>5 DEF Crash, objects, CvOK, BcOK, RoutesOK
  <2> QED BY <2>1, <2>2, <2>3 DEF TypeInv
<1>6. CASE UNCHANGED vars
  BY <1>1, <1>6 DEF vars, objects, bounds, TypeInv, CvOK, BcOK, CrecOK, BrecOK,
     RestOK, RecordOK, RoutesOK
<1> QED BY <1>2, <1>3, <1>4, <1>5, <1>6

LEMMA TypeStep == TypeInv /\ [Next]_vars => TypeInv'
  BY CVTypes, BTypes, OtherTypes, Zenon DEF Next

(***************************************************************************)
(* Every variable keeps its type, also with late reconciles and changes.   *)
(***************************************************************************)
THEOREM TypeCorrect == Spec => []TypeOK
<1> QED BY TypeInit, TypeStep, TypeInvIsType, PTL DEF Spec

(***************************************************************************)
(* The path that the controller follows is a shortest open one, and it     *)
(* gives up for want of a path only if there is none: for rules and        *)
(* versions of any number, also with late reconciles and changes.          *)
(***************************************************************************)
LEMMA ShortestOfState == TypeInv => ShortestPath
<1> SUFFICES ASSUME TypeInv, crec.pc = "decide", Loads(rules), crec.cur # crec.des
             PROVE  IF PathTo(crec.cur, crec.des) = NoPath
                    THEN ~Reachable(rules, crec.cur, crec.des)
                    ELSE IsShortest(rules, PathTo(crec.cur, crec.des), crec.cur, crec.des)
  BY Zenon DEF ShortestPath
<1>1. crec.cur \in Versions /\ crec.des \in Versions /\ RoutesOK
  BY DEF TypeInv, CrecOK
<1> QED BY <1>1, RouteIs

THEOREM PathsAreShortest == Spec => []ShortestPath
<1> QED BY TypeInit, TypeStep, ShortestOfState, PTL DEF Spec

-----------------------------------------------------------------------------
(***************************************************************************)
(* The other invariants.  They hold when the ClusterVersion controller and *)
(* the user leave a hop alone until it is over (Late = FALSE).             *)
(***************************************************************************)

LEMMA InvInit == Init => InstallInv /\ MarkInv /\ HopInv
<1> SUFFICES ASSUME Init PROVE InstallInv /\ MarkInv /\ HopInv
  OBVIOUS
<1>1. /\ cv.exists = FALSE /\ cv.desired = None /\ cv.current = None
      /\ bc.ann = None /\ bc.ver = None /\ bc.st = "Deploying" /\ bc.done = {}
      /\ \A c \in Comps : comps[c] = bc.spec
      /\ crec.pc = "idle" /\ brec.pc = "idle"
  BY DEF Init
<1> QED BY <1>1 DEF InstallInv, MarkInv, HopInv, InstalledVersion, HopPoints

\* What the other invariants say of a state in which a hop is marked, and of
\* one in which the ClusterVersion controller is at work.
LEMMA InvFacts ==
    ASSUME IInv
    PROVE  /\ InstalledVersion(bc) \in Versions
           /\ bc.ann # None => cv.current # None
           /\ cv.current # None => cv.exists /\ CurrentVersion = cv.current
           /\ cv.current = None => CurrentVersion = InstalledVersion(bc)
           /\ brec.pc \in HopPoints \cup {"hop"} => cv.current # None
           /\ crec.pc # "idle" /\ crec.cur # crec.des =>
                 cv.current # None /\ crec.cur = cv.current
           /\ crec.pc # "idle" /\ crec.cur = crec.des => bc.ann = None
<1>1. CvOK /\ BcOK /\ CrecOK /\ BrecOK /\ InstallInv /\ MarkInv /\ HopInv
  BY DEF IInv, TypeInv
<1>2. /\ InstalledVersion(bc) \in Versions
      /\ cv.current # None => cv.exists /\ CurrentVersion = cv.current
      /\ cv.current = None => CurrentVersion = InstalledVersion(bc)
  BY <1>1, UpgradeHopAssumption DEF InstalledVersion, CurrentVersion, BcOK, CvOK,
     MaybeVersion, InstallInv
<1>3. /\ bc.ann # None => cv.current # None /\ cv.current # cv.desired
      /\ brec.pc \in HopPoints \cup {"hop"} => cv.current # None
  BY <1>1 DEF MarkInv, HopInv, OnTheWay
<1>4. crec.pc # "idle" =>
        cv.exists /\ crec.cur = CurrentVersion /\ crec.des = cv.desired
  BY <1>1 DEF MarkInv
<1>5. cv.current = None /\ cv.exists => cv.desired = InstalledVersion(bc)
  BY <1>1 DEF InstallInv
<1> QED BY <1>2, <1>3, <1>4, <1>5

(***************************************************************************)
(* A step that leaves alone the versions of the ClusterVersion, the record *)
(* of the installation, and the mark, the controllers and their queue.     *)
(***************************************************************************)
SameVersions ==
    /\ cv'.exists = cv.exists /\ cv'.current = cv.current
    /\ cv'.desired = cv.desired

LEMMA SameInstall ==
    ASSUME IInv, SameVersions, UNCHANGED <<bc, comps>>
    PROVE  InstallInv'
<1> QED BY DEF IInv, InstallInv, SameVersions, InstalledVersion

LEMMA SameMark ==
    ASSUME IInv, SameVersions, UNCHANGED <<bc, crec, route>>
    PROVE  MarkInv'
<1> QED BY DEF IInv, MarkInv, SameVersions, InstalledVersion, CurrentVersion,
   OnTheWay, PathTo

LEMMA SameHop ==
    ASSUME IInv, SameVersions, UNCHANGED <<bc, comps, brec, route>>,
           brec.pc \in {"unmark", "hop"} => ~cq' /\ crec'.pc = "idle"
    PROVE  HopInv'
<1> QED BY DEF IInv, HopInv, SameVersions, OnTheWay, PathTo

(***************************************************************************)
(* The steps of the ClusterVersion controller.                             *)
(***************************************************************************)
LEMMA CVInvs ==
    ASSUME Late = FALSE, IInv, CVNext \/ CVError
    PROVE  InstallInv' /\ MarkInv' /\ HopInv'
<1>1. CvOK /\ BcOK /\ CrecOK /\ BrecOK /\ InstallInv /\ MarkInv /\ HopInv
  BY DEF IInv, TypeInv
<1>2. cq \/ crec.pc # "idle"
  BY DEF CVNext, CVRead, CVDecide, CVEnsure, CVMark, CVError
<1>3. brec.pc \notin {"unmark", "hop"}
  BY <1>1, <1>2 DEF HopInv
<1>4. ASSUME NEW p PROVE cv' = SetPhase(p) => SameVersions
  BY <1>1 DEF SetPhase, SameVersions, CvOK
<1>5. CASE CVRead
  <2>1. SameVersions /\ UNCHANGED <<bc, comps, brec, route>>
    BY <1>5 DEF CVRead, SameVersions, objects
  <2>2. MarkInv'
    BY <1>1, <1>5 DEF CVRead, MarkInv, objects, CurrentVersion, InstalledVersion,
       OnTheWay, PathTo
  <2> QED BY <1>3, <2>1, <2>2, SameInstall, SameHop
<1>6. CASE CVDecide
  <2>1. CASE DecideInstall
    <3>1. SameVersions /\ UNCHANGED <<bc, comps, brec, route>>
      BY <1>4, <1>6, <2>1 DEF CVDecide, DecideInstall
    <3>2. MarkInv'
      BY <1>1, <1>6, <2>1, <3>1 DEF CVDecide, DecideInstall, MarkInv,
         CurrentVersion,
         InstalledVersion, OnTheWay, PathTo, SameVersions, CrecOK
    <3> QED BY <1>3, <3>1, <3>2, SameInstall, SameHop
  <2>2. CASE DecideThere
    <3>1. bc.ann = None
      BY <1>6, <2>2, InvFacts DEF CVDecide, DecideThere
    <3>2. bc' = bc
      BY <1>1, <2>2, <3>1 DEF DecideThere, BcOK
    <3>3. SameVersions /\ UNCHANGED <<bc, comps, brec, route>>
      BY <1>6, <2>2, <3>2 DEF CVDecide, DecideThere, SameVersions
    <3>4. MarkInv'
      BY <1>1, <2>2, <3>1, <3>2 DEF DecideThere, CIdle, MarkInv, CrecOK
    <3> QED BY <1>3, <3>3, <3>4, SameInstall, SameHop
  <2>3. CASE DecideFailed \/ DecideBlocked
    <3>1. SameVersions /\ UNCHANGED <<bc, comps, brec, route>> /\ crec' = CIdle
      BY <1>4, <1>6, <2>3 DEF CVDecide, DecideFailed, DecideBlocked, SameVersions
    <3>2. MarkInv'
      BY <1>1, <3>1 DEF CIdle, MarkInv, OnTheWay, PathTo, SameVersions, CrecOK
    <3> QED BY <1>3, <3>1, <3>2, SameInstall, SameHop
  <2>4. CASE DecideHop
    <3>1. SameVersions /\ UNCHANGED <<bc, comps, brec, route>>
      BY <1>6, <2>4 DEF CVDecide, DecideHop, SameVersions
    <3>2. /\ crec.pc = "decide" /\ crec.cur # crec.des
          /\ PathTo(crec.cur, crec.des) # NoPath
          /\ crec'.pc = "ensure" /\ crec'.hop = HopTarget(PathTo(crec.cur, crec.des))
          /\ crec'.cur = crec.cur /\ crec'.des = crec.des
      BY <1>1, <1>6, <2>4 DEF CVDecide, DecideHop, CrecOK
    <3>3. cv.current # None /\ crec.cur = cv.current
      BY <3>2, InvFacts
    <3>4. MarkInv'
      BY <1>1, <3>1, <3>2, <3>3 DEF MarkInv, CurrentVersion,
         InstalledVersion, OnTheWay, PathTo, SameVersions
    <3> QED BY <1>3, <3>1, <3>4, SameInstall, SameHop
  <2> QED BY <1>6, <2>1, <2>2, <2>3, <2>4 DEF CVDecide
<1>7. CASE CVEnsure
  <2>1. SameVersions /\ UNCHANGED <<bc, comps, brec, route>>
    BY <1>4, <1>7 DEF CVEnsure, EnsureCreates, EnsureWaits, EnsureFails,
       EnsureDone, EnsureAndMark, SameVersions
  <2>2. \/ crec' = CIdle
        \/ ~crec.inst /\ crec.pc = "ensure" /\ crec' = [crec EXCEPT !.pc = "mark"]
    BY <1>7 DEF CVEnsure, EnsureCreates, EnsureWaits, EnsureFails, EnsureDone,
       EnsureAndMark
  <2>3. MarkInv'
    BY <1>1, <2>1, <2>2 DEF CIdle, MarkInv, CurrentVersion, InstalledVersion,
       OnTheWay,
       PathTo, SameVersions, CrecOK
  <2> QED BY <1>3, <2>1, <2>3, SameInstall, SameHop
<1>8. CASE CVMark
  <2>1. /\ SameVersions /\ UNCHANGED <<cv, comps, brec, route>>
        /\ crec.pc = "mark" /\ crec' = CIdle /\ bc' = [bc EXCEPT !.ann = crec.hop]
    BY <1>8 DEF CVMark, SameVersions
  <2>2. OnTheWay(crec.hop) /\ cv.current # None
    BY <1>1, <2>1 DEF MarkInv, OnTheWay
  <2>3. bc.ann # None => crec.hop = bc.ann
    BY <1>1, <2>2 DEF MarkInv, OnTheWay
  <2>4. crec.hop # None
    BY <1>1, <2>1, UpgradeHopAssumption DEF CrecOK
  <2>5. /\ bc'.ann = crec.hop /\ bc'.ver = bc.ver /\ bc'.spec = bc.spec
        /\ bc'.st = bc.st /\ bc'.target = bc.target /\ bc'.done = bc.done
        /\ crec'.pc = "idle"
    BY <1>1, <2>1 DEF BcOK, CIdle, CrecOK
  <2>6. InstallInv'
    BY <1>1, <2>1, <2>2, <2>5 DEF InstallInv, InstalledVersion
  <2>7. MarkInv'
    BY <1>1, <2>1, <2>2, <2>5 DEF MarkInv, OnTheWay, PathTo
  <2>8. HopInv'
    BY <1>1, <1>3, <2>1, <2>3, <2>4, <2>5 DEF HopInv, OnTheWay, PathTo
  <2> QED BY <2>6, <2>7, <2>8
<1>9. CASE CVError
  <2>1. SameVersions /\ UNCHANGED <<bc, comps, brec, route>> /\ crec' = CIdle
    BY <1>9 DEF CVError, objects, SameVersions
  <2>2. MarkInv'
    BY <1>1, <2>1 DEF CIdle, MarkInv, OnTheWay, PathTo, SameVersions, CrecOK
  <2> QED BY <1>3, <2>1, <2>2, SameInstall, SameHop
<1> QED BY <1>5, <1>6, <1>7, <1>8, <1>9 DEF CVNext


\* The BKECluster controller is done with the hop, or never was at one.
LEMMA LeftHop ==
    ASSUME IInv, brec'.pc \notin HopPoints \cup {"hop"}, UNCHANGED comps,
           bc'.done = bc.done, bc'.target = bc.target
    PROVE  HopInv'
<1> QED BY DEF IInv, HopInv, HopPoints

(***************************************************************************)
(* A step within a hop, with the mark and the record of the installation   *)
(* unchanged.  The status is of no importance: the version is on record.   *)
(***************************************************************************)
LEMMA WithinHop ==
    ASSUME IInv, brec.pc \in HopPoints, UNCHANGED <<cv, crec, route, comps>>,
           bc'.ann = bc.ann, bc'.ver # None
    PROVE  InstallInv' /\ MarkInv'
<1>1. cv.current # None /\ bc.ann # None
  BY InvFacts DEF IInv, HopInv
<1>2. InstallInv'
  BY <1>1 DEF IInv, InstallInv
<1>3. MarkInv'
  BY <1>1 DEF IInv, MarkInv, CurrentVersion, OnTheWay, PathTo
<1> QED BY <1>2, <1>3

LEMMA Recorded == ASSUME IInv, brec.pc \in HopPoints PROVE bc.ver # None
<1> QED BY InvFacts DEF IInv, InstallInv

\* A hop that is begun, and goes on until its components are done.
LEMMA HopStep ==
    ASSUME Late = FALSE, IInv,
           \/ BResolve \/ SyncSpec \/ PatchClusterStatus \/ EnsureProgress
           \/ \E c \in Comps : BComponent(c)
           \/ BDagDone \/ HandleDAGFailure \/ Abort
    PROVE  InstallInv' /\ MarkInv' /\ HopInv'
<1>1. CvOK /\ BcOK /\ CrecOK /\ BrecOK /\ InstallInv /\ MarkInv /\ HopInv
  BY DEF IInv, TypeInv
<1>2. ASSUME NEW pc, NEW b, Sync(pc, b), brec.pc \in HopPoints,
             pc \in {"status", "progress", "idle", "abort"},
             b.ann = bc.ann, b.ver = bc.ver, b.done = bc.done, b.target = bc.target
      PROVE  InstallInv' /\ MarkInv' /\ HopInv'
  <2>1. /\ UNCHANGED <<cv, crec, route, comps>> /\ bc'.ann = bc.ann
        /\ bc'.ver = bc.ver /\ bc'.done = bc.done /\ bc'.target = bc.target
    BY <1>2 DEF Sync
  <2>2. bc'.ver # None
    BY <1>2, <2>1, Recorded
  <2>3. brec'.pc = pc /\ brec'.hop = brec.hop /\ brec'.ann = bc.ann
    BY <1>1, <1>2 DEF Sync, BrecOK
  <2>4. HopInv'
    BY <1>1, <1>2, <2>1, <2>3 DEF HopInv, HopPoints
  <2> QED BY <1>2, <2>1, <2>2, <2>4, WithinHop
<1>3. CASE BResolve
  <2>1. /\ brec.pc = "resolve" /\ UNCHANGED <<cv, bc, comps, crec, route>>
        /\ brec'.hop = brec.hop /\ brec'.ann = brec.ann /\ brec'.pc \in {"spec", "idle"}
    BY <1>1, <1>3 DEF BResolve, EndsWithError, BIdle, objects, BrecOK
  <2>2. HopInv'
    BY <1>1, <2>1 DEF HopInv, HopPoints
  <2>3. bc'.ver # None /\ brec.pc \in HopPoints
    BY <2>1, Recorded DEF HopPoints
  <2> QED BY <2>1, <2>2, <2>3, WithinHop
<1>4. CASE SyncSpec
  <2> DEFINE b == [bc EXCEPT !.spec = brec.hop]
  <2>1. Sync("status", b) /\ brec.pc \in HopPoints
    BY <1>4 DEF SyncSpec, HopPoints
  <2>2. b.ann = bc.ann /\ b.ver = bc.ver /\ b.done = bc.done /\ b.target = bc.target
    BY <1>1 DEF BcOK
  <2> QED BY <1>2, <2>1, <2>2
<1>5. CASE PatchClusterStatus
  <2> DEFINE s == RecordCluster(rec, "Upgrading", FALSE, FALSE).status
             b == [bc EXCEPT !.st = s]
  <2>1. Sync("progress", b) /\ brec.pc = "status"
    BY <1>5, Zenon DEF PatchClusterStatus
  <2>2. b.ann = bc.ann /\ b.ver = bc.ver /\ b.done = bc.done /\ b.target = bc.target
    BY <1>1 DEF BcOK
  <2> QED BY <1>2, <2>1, <2>2 DEF HopPoints
<1>6. CASE HandleDAGFailure
  <2> DEFINE r == RecordCluster(rec, "UpgradeFailed", TRUE, FALSE)
             b == [bc EXCEPT !.st = r.status]
             pc == IF r.rec.requeue THEN "idle" ELSE "abort"
  <2>1. Sync(pc, b) /\ brec.pc = "dag"
    BY <1>6, Zenon DEF HandleDAGFailure
  <2>2. b.ann = bc.ann /\ b.ver = bc.ver /\ b.done = bc.done /\ b.target = bc.target
    BY <1>1 DEF BcOK
  <2>3. pc \in {"idle", "abort"}
    OBVIOUS
  <2> HIDE DEF pc, b
  <2> QED BY <1>2, <2>1, <2>2, <2>3 DEF HopPoints
<1>7. CASE EnsureProgress
  <2>1. /\ brec.pc = "progress" /\ bc' = Progress(bc, brec.hop)
        /\ UNCHANGED <<cv, crec, route, comps>>
        /\ brec' = [brec EXCEPT !.pc = "dag", !.ann = bc.ann, !.st = bc'.st]
    BY <1>7 DEF EnsureProgress, Sync
  <2>2. /\ bc'.ann = bc.ann /\ bc'.ver = bc.ver /\ bc'.target = brec.hop
        /\ bc'.done = {} \/ (bc'.done = bc.done /\ bc.target = brec.hop)
    BY <1>1, <2>1 DEF BcOK, Progress
  <2>3. brec'.pc = "dag" /\ brec'.hop = brec.hop /\ brec'.ann = bc.ann
    BY <1>1, <2>1 DEF BrecOK
  <2>4. HopInv'
    BY <1>1, <2>1, <2>2, <2>3 DEF HopInv, HopPoints
  <2>5. bc'.ver # None /\ brec.pc \in HopPoints
    BY <2>1, <2>2, Recorded DEF HopPoints
  <2> QED BY <2>1, <2>2, <2>4, <2>5, WithinHop
<1>8. CASE \E c \in Comps : BComponent(c)
  <2>1. PICK c \in Comps : BComponent(c)
    BY <1>8
  <2>2. /\ brec.pc = "dag" /\ UNCHANGED <<cv, crec, brec, route>>
        /\ bc' = [bc EXCEPT !.done = @ \cup {c}]
        /\ comps' = [comps EXCEPT ![c] = brec.hop]
    BY <2>1 DEF BComponent
  <2>3. /\ bc'.ann = bc.ann /\ bc'.ver = bc.ver /\ bc'.target = bc.target
        /\ bc'.done = bc.done \cup {c} /\ bc'.st = bc.st /\ bc.done \subseteq Comps
    BY <1>1, <2>2 DEF BcOK
  <2>4. \A d \in Comps : comps'[d] = IF d = c THEN brec.hop ELSE comps[d]
    BY <2>2 DEF IInv, TypeInv, RestOK
  <2>5. HopInv'
    BY <1>1, <2>2, <2>3, <2>4 DEF HopInv, HopPoints
  <2>6. cv.current # None
    BY <2>2, InvFacts DEF HopPoints
  <2>7. InstallInv'
    BY <1>1, <2>2, <2>3, <2>6 DEF InstallInv
  <2>8. MarkInv'
    BY <1>1, <2>2, <2>3, <2>6 DEF MarkInv, CurrentVersion, OnTheWay, PathTo
  <2> QED BY <2>5, <2>7, <2>8
<1>9. CASE BDagDone
  <2>1. /\ brec.pc = "dag" /\ bc.done = Comps
        /\ UNCHANGED <<cv, bc, comps, crec, route>>
        /\ brec'.pc = "finish" /\ brec'.hop = brec.hop /\ brec'.ann = brec.ann
    BY <1>1, <1>9 DEF BDagDone, objects, BrecOK
  <2>2. HopInv'
    BY <1>1, <2>1 DEF HopInv, HopPoints
  <2>3. bc'.ver # None /\ brec.pc \in HopPoints
    BY <2>1, Recorded DEF HopPoints
  <2> QED BY <2>1, <2>2, <2>3, WithinHop
<1>10. CASE Abort
  <2>1. /\ UNCHANGED <<cv, comps, crec, route>> /\ brec'.pc = "abortMark"
        /\ bc'.ann = bc.ann /\ bc'.ver = bc.ver /\ bc'.done = bc.done
        /\ bc'.target = bc.target /\ bc'.spec = bc.spec /\ bc'.st = "UpgradeFailed"
    BY <1>1, <1>10 DEF Abort, BrecOK, BcOK
  <2>2. InstallInv'
    BY <1>1, <2>1 DEF InstallInv, InstalledVersion
  <2>3. MarkInv'
    BY <1>1, <2>1 DEF MarkInv, CurrentVersion, InstalledVersion, OnTheWay, PathTo
  <2>4. HopInv'
    BY <2>1, LeftHop DEF HopPoints
  <2> QED BY <2>2, <2>3, <2>4
<1> QED BY <1>3, <1>4, <1>5, <1>6, <1>7, <1>8, <1>9, <1>10


\* The end of a hop: the version, the mark, the ClusterVersion.
LEMMA EndStep ==
    ASSUME Late = FALSE, IInv, PersistFinished \/ RemoveMark \/ CompleteUpgradeHop
    PROVE  InstallInv' /\ MarkInv' /\ HopInv'
<1>1. CvOK /\ BcOK /\ CrecOK /\ BrecOK /\ InstallInv /\ MarkInv /\ HopInv
  BY DEF IInv, TypeInv
<1>2. CASE PersistFinished
  <2>1. /\ brec.pc = "finish" /\ UNCHANGED <<cv, comps, crec, route>>
        /\ ~cq' /\ crec'.pc = "idle"
        /\ brec.ann = bc.ann /\ brec.hop = bc.ann /\ bc.ann # None
    BY <1>1, <1>2 DEF PersistFinished, InTime, HopInv, HopPoints
  <2>2. /\ bc' = [bc EXCEPT !.ver = brec.ann]
        /\ brec' = [brec EXCEPT !.pc = "unmark", !.hop = brec.ann]
    BY <1>2, <2>1 DEF PersistFinished
  <2>3. /\ bc'.ann = bc.ann /\ bc'.ver = bc.ann /\ bc'.done = bc.done
        /\ bc'.target = bc.target
        /\ brec'.pc = "unmark" /\ brec'.hop = bc.ann /\ brec'.ann = bc.ann
    BY <1>1, <2>1, <2>2 DEF BcOK, BrecOK
  <2>4. HopInv'
    BY <1>1, <2>1, <2>3 DEF HopInv, HopPoints
  <2>5. bc'.ver # None /\ brec.pc \in HopPoints
    BY <2>1, <2>3 DEF HopPoints
  <2> QED BY <2>1, <2>3, <2>4, <2>5, WithinHop
<1>3. CASE RemoveMark
  <2>1. /\ brec.pc = "unmark" /\ UNCHANGED <<cv, comps, crec, route, cq>>
        /\ brec.ann = bc.ann /\ brec.hop = bc.ann /\ bc.ann # None
        /\ brec.pc \in HopPoints
    BY <1>1, <1>3 DEF RemoveMark, Unmark, HopInv, HopPoints
  <2>2. /\ bc'.ann = None /\ bc'.ver = bc.ver /\ bc'.done = bc.done
        /\ bc'.target = bc.target /\ brec'.pc = "hop" /\ brec'.hop = brec.hop
    BY <1>1, <1>3, <2>1 DEF RemoveMark, Unmark, BcOK, BrecOK
  <2>3. OnTheWay(brec.hop) /\ cv.current # None
    BY <1>1, <2>1 DEF MarkInv, OnTheWay
  <2>4. HopInv'
    BY <1>1, <2>1, <2>2, <2>3 DEF HopInv, OnTheWay, PathTo, HopPoints
  <2>5. InstallInv'
    BY <1>1, <2>1, <2>2, <2>3 DEF InstallInv
  <2>6. MarkInv'
    BY <1>1, <2>1, <2>2, <2>3 DEF MarkInv, CurrentVersion, OnTheWay, PathTo
  <2> QED BY <2>4, <2>5, <2>6
<1>4. CASE CompleteUpgradeHop
  <2>1. /\ brec.pc = "hop" /\ UNCHANGED <<bc, comps, crec, route>>
        /\ cv'.current = brec.hop /\ cv'.exists = cv.exists
        /\ cv'.desired = cv.desired /\ brec'.pc = "flow"
    BY <1>1, <1>4 DEF CompleteUpgradeHop, CvOK, BrecOK
  <2>2. /\ bc.ann = None /\ cv.current # None /\ crec.pc = "idle"
        /\ brec.hop # None
    BY <1>1, <2>1, UpgradeHopAssumption DEF HopInv, OnTheWay, BrecOK
  <2>3. HopInv'
    BY <2>1, LeftHop DEF HopPoints
  <2>4. InstallInv'
    BY <1>1, <2>1, <2>2 DEF InstallInv
  <2>5. MarkInv'
    BY <1>1, <2>1, <2>2 DEF MarkInv
  <2> QED BY <2>3, <2>4, <2>5
<1> QED BY <1>2, <1>3, <1>4

\* What the installation puts on record: a first version, if there is none.
LEMMA InstallStatusIs ==
    ASSUME IInv, cv' = InstallStatus(InstalledVersion(bc)) \/ UNCHANGED cv
    PROVE  /\ cv'.exists = cv.exists /\ cv'.desired = cv.desired
           /\ cv'.current # cv.current =>
                 cv.current = None /\ cv'.current = InstalledVersion(bc)
<1> QED BY DEF IInv, TypeInv, CvOK, InstallStatus, NeedsInstallCompletion

LEMMA InstallStep ==
    ASSUME IInv, cv' = InstallStatus(InstalledVersion(bc)) \/ UNCHANGED cv,
           UNCHANGED <<crec, comps, route>>, bc'.ann = bc.ann,
           InstalledVersion(bc') = InstalledVersion(bc), bc'.ver = InstalledVersion(bc)
    PROVE  InstallInv' /\ MarkInv'
<1>1. /\ InstallInv /\ MarkInv /\ InstalledVersion(bc) # None
      /\ cv'.exists = cv.exists /\ cv'.desired = cv.desired
      /\ cv'.current # cv.current =>
            cv.current = None /\ cv'.current = InstalledVersion(bc)
  BY InstallStatusIs, InvFacts, UpgradeHopAssumption DEF IInv
<1>2. cv'.current = None => cv.current = None
  BY <1>1
<1>3. cv'.current # None => cv'.exists
  <2>1. CASE cv.current # None
    BY <1>1, <2>1 DEF InstallInv
  <2>2. CASE cv.current = None /\ cv'.current # None
    <3>1. cv' = InstallStatus(InstalledVersion(bc)) /\ cv.desired = InstalledVersion(bc)
      BY <2>2 DEF InstallStatus, NeedsInstallCompletion
    <3> QED BY <1>1, <3>1 DEF InstallInv
  <2> QED BY <1>2, <2>1, <2>2
<1>4. InstallInv'
  BY <1>1, <1>2, <1>3 DEF InstallInv
<1>5. ASSUME cv'.current = cv.current PROVE MarkInv'
  <2>1. CurrentVersion' = CurrentVersion
    BY <1>1, <1>5 DEF CurrentVersion, InstalledVersion
  <2> QED BY <1>1, <1>5, <2>1 DEF MarkInv, OnTheWay, PathTo
<1>6. ASSUME cv'.current # cv.current PROVE MarkInv'
  <2>1. /\ cv.current = None /\ cv'.current = InstalledVersion(bc) /\ bc.ann = None
        /\ \A h : ~OnTheWay(h)
    BY <1>1, <1>6 DEF InstallInv, OnTheWay
  <2>2. CurrentVersion' = CurrentVersion
    BY <1>1, <2>1 DEF CurrentVersion
  <2>3. crec.pc \in {"ensure", "mark"} => crec.inst
    BY <1>1, <2>1 DEF MarkInv
  <2> QED BY <1>1, <2>1, <2>2, <2>3 DEF MarkInv
<1> QED BY <1>4, <1>5, <1>6

\* The other steps of the BKECluster controller.
LEMMA FlowStep ==
    ASSUME Late = FALSE, IInv,
           \/ BRead \/ AbortMark \/ FailUpgradeHop \/ PhaseFlow \/ CompleteInstall
           \/ BError
    PROVE  InstallInv' /\ MarkInv' /\ HopInv'
<1>1. CvOK /\ BcOK /\ CrecOK /\ BrecOK /\ InstallInv /\ MarkInv /\ HopInv
  BY DEF IInv, TypeInv
<1>2. CASE BRead
  <2>1. /\ UNCHANGED <<bc, comps, crec, route>>
        /\ brec'.hop = bc.ann /\ brec'.ann = bc.ann
        /\ brec'.pc = IF bc.ann # None THEN "resolve" ELSE "flow"
    BY <1>2 DEF BRead
  <2>2. HopInv'
    BY <1>1, <2>1 DEF HopInv, HopPoints
  <2>3. CASE cv.exists
    <3>1. SameVersions
      BY <1>2, <2>3 DEF BRead, SameVersions
    <3> QED BY <2>1, <2>2, <3>1, SameInstall, SameMark
  <2>4. CASE ~cv.exists
    <3>1. /\ cv'.exists /\ cv'.current = cv.current /\ cv.current = None
          /\ cv'.desired = InstalledVersion(bc) /\ crec.pc = "idle" /\ bc.ann = None
      BY <1>1, <1>2, <2>4 DEF BRead, CvOK, InstallInv, MarkInv
    <3>2. InstallInv' /\ MarkInv'
      BY <1>1, <2>1, <3>1 DEF InstallInv, MarkInv, InstalledVersion
    <3> QED BY <2>2, <3>2
  <2> QED BY <2>3, <2>4
<1>3. CASE AbortMark
  <2>1. /\ UNCHANGED <<cv, comps, crec, route>> /\ brec'.pc = "abortHop"
        /\ bc'.ann \in {None, bc.ann} /\ bc'.ver = bc.ver /\ bc'.done = bc.done
        /\ bc'.target = bc.target /\ bc'.spec = bc.spec /\ bc'.st = bc.st
    BY <1>1, <1>3 DEF AbortMark, Unmark, BrecOK, BcOK
  <2>2. InstallInv'
    BY <1>1, <2>1 DEF InstallInv, InstalledVersion
  <2>3. MarkInv'
    BY <1>1, <2>1 DEF MarkInv, CurrentVersion, InstalledVersion, OnTheWay, PathTo
  <2>4. HopInv'
    BY <2>1, LeftHop DEF HopPoints
  <2> QED BY <2>2, <2>3, <2>4
<1>4. CASE FailUpgradeHop
  <2>1. /\ SameVersions /\ UNCHANGED <<bc, comps, crec, route>> /\ brec'.pc = "install"
    BY <1>1, <1>4 DEF FailUpgradeHop, SameVersions, CvOK, BrecOK
  <2>2. HopInv'
    BY <2>1, LeftHop DEF HopPoints
  <2> QED BY <2>1, <2>2, SameInstall, SameMark
<1>5. CASE PhaseFlow
  <2>1. /\ UNCHANGED <<comps, crec, route>> /\ brec'.pc \in {"install", "idle"}
        /\ bc'.done = bc.done /\ bc'.target = bc.target
    BY <1>1, <1>5 DEF PhaseFlow, EndsWithError, BIdle, BrecOK, BcOK
  <2>2. HopInv'
    BY <2>1, LeftHop DEF HopPoints
  <2>3. CASE bc' = bc /\ cv' = cv
    <3>1. SameVersions
      BY <2>3 DEF SameVersions
    <3> QED BY <2>1, <2>2, <2>3, <3>1, SameInstall, SameMark
  <2>4. CASE /\ bc' = [bc EXCEPT !.ver = InstalledVersion(bc), !.st = "Ready"]
             /\ cv' = InstallStatus(InstalledVersion(bc)) \/ cv' = cv
    <3>1. bc'.ann = bc.ann /\ bc'.ver = InstalledVersion(bc)
      BY <1>1, <2>4 DEF BcOK
    <3>2. InstalledVersion(bc') = InstalledVersion(bc)
      BY <3>1, InvFacts, UpgradeHopAssumption DEF InstalledVersion
    <3> QED BY <2>1, <2>2, <2>4, <3>1, <3>2, InstallStep
  <2> QED BY <1>5, <2>3, <2>4 DEF PhaseFlow
<1>6. CASE CompleteInstall
  <2>1. /\ UNCHANGED <<bc, comps, crec, route>> /\ brec'.pc = "idle"
        /\ cv' = IF bc.st = "Ready" /\ bc.ann = None
                 THEN InstallStatus(InstalledVersion(bc)) ELSE cv
    BY <1>1, <1>6 DEF CompleteInstall, BIdle, BrecOK
  <2>2. HopInv'
    BY <2>1, LeftHop DEF HopPoints
  <2>3. CASE bc.st = "Ready"
    <3>1. bc.ver = InstalledVersion(bc)
      BY <1>1, <2>3 DEF InstallInv, InstalledVersion
    <3> QED BY <2>1, <2>2, <3>1, InstallStep
  <2>4. CASE bc.st # "Ready"
    <3>1. SameVersions
      BY <2>1, <2>4 DEF SameVersions
    <3> QED BY <2>1, <2>2, <3>1, SameInstall, SameMark
  <2> QED BY <2>3, <2>4
<1>7. CASE BError
  <2>1. /\ SameVersions /\ UNCHANGED <<bc, comps, crec, route>> /\ brec'.pc = "idle"
    BY <1>1, <1>7 DEF BError, EndsWithError, BIdle, objects, SameVersions, BrecOK
  <2>2. HopInv'
    BY <2>1, LeftHop DEF HopPoints
  <2> QED BY <2>1, <2>2, SameInstall, SameMark
<1> QED BY <1>2, <1>3, <1>4, <1>5, <1>6, <1>7

\* The ReleaseImage controller, the user, the clock and the process.
LEMMA OtherStep ==
    ASSUME Late = FALSE, IInv,
           \/ \E v \in Versions : RIPasses(v) \/ RIFails(v) \/ Edit(v)
           \/ Resync \/ Crash \/ UNCHANGED vars
    PROVE  InstallInv' /\ MarkInv' /\ HopInv'
<1>1. CvOK /\ BcOK /\ CrecOK /\ BrecOK /\ InstallInv /\ MarkInv /\ HopInv
  BY DEF IInv, TypeInv
<1>2. CASE (\E v \in Versions : RIPasses(v) \/ RIFails(v)) \/ UNCHANGED vars
  <2>1. /\ SameVersions /\ UNCHANGED <<bc, comps, crec, brec, cq, route>>
    BY <1>2 DEF RIPasses, RIFails, SameVersions, vars, objects
  <2>2. HopInv'
    BY <1>1, <2>1, SameHop DEF HopInv
  <2> QED BY <2>1, <2>2, SameInstall, SameMark
<1>3. ASSUME NEW v \in Versions, Edit(v)
      PROVE  InstallInv' /\ MarkInv' /\ HopInv'
  <2>1. /\ bc.ann = None /\ cv.current # None /\ brec.pc = "idle" /\ crec.pc = "idle"
        /\ cv'.exists = cv.exists /\ cv'.current = cv.current
        /\ UNCHANGED <<bc, comps, crec, brec, route>>
    BY <1>1, <1>3 DEF Edit, CvOK
  <2>2. InstallInv'
    BY <1>1, <2>1 DEF InstallInv
  <2>3. MarkInv'
    BY <2>1 DEF MarkInv
  <2>4. HopInv'
    BY <2>1, LeftHop DEF HopPoints
  <2> QED BY <2>2, <2>3, <2>4
<1>4. CASE Resync
  <2>1. /\ SameVersions /\ UNCHANGED <<bc, comps, crec, brec, route>>
        /\ brec.pc = "idle"
    BY <1>4 DEF Resync, SameVersions, objects
  <2>2. HopInv'
    BY <2>1, LeftHop DEF HopPoints
  <2> QED BY <2>1, <2>2, SameInstall, SameMark
<1>5. CASE Crash
  <2>1. /\ SameVersions /\ UNCHANGED <<bc, comps, route>>
        /\ brec'.pc = "idle" /\ crec'.pc = "idle"
    BY <1>1, <1>5 DEF Crash, CIdle, BIdle, SameVersions, objects, CrecOK, BrecOK
  <2>2. HopInv'
    BY <2>1, LeftHop DEF HopPoints
  <2>3. MarkInv'
    BY <1>1, <2>1 DEF MarkInv, SameVersions, OnTheWay, PathTo
  <2> QED BY <2>1, <2>2, <2>3, SameInstall
<1> QED BY <1>2, <1>3, <1>4, <1>5

LEMMA InvStep ==
    ASSUME Late = FALSE
    PROVE  IInv /\ [Next]_vars => IInv'
<1> SUFFICES ASSUME IInv, [Next]_vars PROVE IInv'
  OBVIOUS
<1>1. TypeInv'
  BY TypeStep DEF IInv
<1>2. InstallInv' /\ MarkInv' /\ HopInv'
  BY CVInvs, HopStep, EndStep, FlowStep, OtherStep, Zenon DEF Next, BNext
<1> QED BY <1>1, <1>2 DEF IInv


\* What a step puts on record, and along which rule.
LEMMA RecordStep ==
    ASSUME IInv, [Next]_vars
    PROVE  /\ cv'.current # cv.current => \A c \in Comps : comps'[c] = cv'.current
           /\ bc'.ver # bc.ver => \A c \in Comps : comps'[c] = bc'.ver
           /\ cv.current # None /\ cv'.current # cv.current =>
                 Rule(cv.current, cv'.current, FALSE) \in rules
<1> DEFINE Goal == /\ cv'.current # cv.current =>
                         \A c \in Comps : comps'[c] = cv'.current
                   /\ bc'.ver # bc.ver => \A c \in Comps : comps'[c] = bc'.ver
                   /\ cv.current # None /\ cv'.current # cv.current =>
                         Rule(cv.current, cv'.current, FALSE) \in rules
<1>1. CvOK /\ BcOK /\ CrecOK /\ BrecOK /\ RoutesOK /\ InstallInv /\ MarkInv /\ HopInv
  BY DEF IInv, TypeInv
<1>2. ASSUME bc'.ver = bc.ver, cv'.current = cv.current PROVE Goal
  BY <1>2
<1>3. CASE PersistFinished
  <2>1. /\ brec.pc = "finish" /\ UNCHANGED <<cv, comps>>
        /\ brec.ann = brec.hop /\ bc.target = brec.hop /\ bc.done = Comps
        /\ bc'.ver \in {bc.ver, brec.ann}
    BY <1>1, <1>3 DEF PersistFinished, HopInv, HopPoints, BcOK
  <2> QED BY <1>1, <2>1 DEF HopInv
<1>4. CASE CompleteUpgradeHop
  <2>1. /\ brec.pc = "hop" /\ UNCHANGED <<bc, comps>> /\ cv'.current = brec.hop
        /\ bc.target = brec.hop /\ bc.done = Comps /\ OnTheWay(brec.hop)
    BY <1>1, <1>4 DEF CompleteUpgradeHop, HopInv, CvOK
  <2>2. \A c \in Comps : comps'[c] = cv'.current
    BY <1>1, <2>1 DEF HopInv
  <2>3. /\ cv.current \in Versions /\ cv.desired \in Versions
        /\ cv.current # cv.desired /\ PathTo(cv.current, cv.desired) # NoPath
        /\ cv'.current = HopTarget(PathTo(cv.current, cv.desired))
    BY <1>1, <2>1 DEF OnTheWay, CvOK, InstallInv, MaybeVersion
  <2>4. Rule(cv.current, cv'.current, FALSE) \in rules
    BY <1>1, <2>3, RouteIs
  <2> QED BY <2>1, <2>2, <2>4
<1>5. CASE PhaseFlow \/ CompleteInstall
  <2>1. /\ UNCHANGED comps
        /\ cv' = InstallStatus(InstalledVersion(bc)) \/ UNCHANGED cv
        /\ bc'.ver \in {bc.ver, InstalledVersion(bc)}
    BY <1>1, <1>5 DEF PhaseFlow, CompleteInstall, BcOK
  <2>2. cv'.current # cv.current =>
           cv.current = None /\ cv'.current = InstalledVersion(bc)
    BY <2>1, InstallStatusIs
  <2>3. bc'.ver # bc.ver => cv.current = None /\ bc'.ver = InstalledVersion(bc)
    BY <1>1, <2>1 DEF InstalledVersion, InstallInv
  <2>4. cv.current = None => \A c \in Comps : comps[c] = InstalledVersion(bc)
    BY <1>1 DEF InstallInv
  <2> QED BY <2>1, <2>2, <2>3, <2>4
<1>6. CASE CVNext \/ CVError
  <2>1. ASSUME NEW p PROVE cv' = SetPhase(p) => cv'.current = cv.current
    BY <1>1 DEF SetPhase, CvOK
  <2>2. cv'.current = cv.current
    BY <1>6, <2>1 DEF CVNext, CVError, CVRead, CVDecide, DecideInstall, DecideThere,
       DecideFailed, DecideBlocked, DecideHop, CVEnsure, EnsureCreates, EnsureWaits,
       EnsureFails, EnsureDone, EnsureAndMark, CVMark, objects
  <2>3. bc'.ver = bc.ver
    BY <1>1, <1>6 DEF CVNext, CVError, CVRead, CVDecide, DecideInstall, DecideThere,
       DecideFailed, DecideBlocked, DecideHop, CVEnsure, CVMark, objects, BcOK
  <2> QED BY <1>2, <2>2, <2>3
<1>7. CASE SyncSpec \/ PatchClusterStatus \/ EnsureProgress \/ HandleDAGFailure
  <2>1. ASSUME NEW pc, NEW b, Sync(pc, b) PROVE bc' = b /\ cv' = cv
    BY <2>1 DEF Sync
  <2>2. cv' = cv
    BY <1>7, <2>1, Zenon DEF SyncSpec, PatchClusterStatus, EnsureProgress,
       HandleDAGFailure
  <2>3. ASSUME SyncSpec PROVE bc'.ver = bc.ver
    BY <1>1, <2>1, <2>3 DEF SyncSpec, BcOK
  <2>4. ASSUME NEW s, bc' = [bc EXCEPT !.st = s] PROVE bc'.ver = bc.ver
    BY <1>1, <2>4 DEF BcOK
  <2>5. ASSUME PatchClusterStatus PROVE bc'.ver = bc.ver
    <3>1. \E pc, s : Sync(pc, [bc EXCEPT !.st = s])
      BY <2>5, Zenon DEF PatchClusterStatus
    <3> QED BY <2>1, <2>4, <3>1
  <2>6. ASSUME HandleDAGFailure PROVE bc'.ver = bc.ver
    <3>1. \E pc, s : Sync(pc, [bc EXCEPT !.st = s])
      BY <2>6, Zenon DEF HandleDAGFailure
    <3> QED BY <2>1, <2>4, <3>1
  <2>7. ASSUME EnsureProgress PROVE bc'.ver = bc.ver
    <3>1. bc' = Progress(bc, brec.hop)
      BY <2>7, <2>1, Zenon DEF EnsureProgress
    <3> QED BY <1>1, <3>1 DEF Progress, BcOK
  <2> QED BY <1>2, <1>7, <2>2, <2>3, <2>5, <2>6, <2>7
<1>8. CASE \/ BRead \/ BResolve \/ BDagDone \/ BError \/ FailUpgradeHop
  <2>1. bc'.ver = bc.ver
    BY <1>8 DEF BRead, BResolve, BDagDone, FailUpgradeHop, BError, objects
  <2>2. cv'.current = cv.current
    BY <1>1, <1>8 DEF BRead, BResolve, BDagDone, FailUpgradeHop, BError, objects,
       CvOK
  <2> QED BY <1>2, <2>1, <2>2
<1>9. CASE \/ \E c \in Comps : BComponent(c)
           \/ Abort \/ AbortMark \/ RemoveMark
  <2>1. cv' = cv /\ bc'.ver = bc.ver
    BY <1>1, <1>9 DEF BComponent, Abort, AbortMark, RemoveMark, Unmark, BcOK
  <2> QED BY <1>2, <2>1
<1>10. CASE \/ \E v \in Versions : RIPasses(v) \/ RIFails(v) \/ Edit(v)
            \/ Resync \/ Crash \/ UNCHANGED vars
  <2>1. bc'.ver = bc.ver /\ cv'.current = cv.current
    BY <1>1, <1>10 DEF RIPasses, RIFails, Edit, Resync, Crash, vars, objects, CvOK
  <2> QED BY <1>2, <2>1
<1>11. Goal
  BY <1>3, <1>4, <1>5, <1>6, <1>7, <1>8, <1>9, <1>10, Zenon DEF Next, BNext
<1> QED BY <1>11

\* The invariant of the two theorems below.
LEMMA Inductive == ASSUME Late = FALSE PROVE Spec => []IInv
<1>1. Init => IInv
  BY TypeInit, InvInit DEF IInv
<1>2. IInv /\ [Next]_vars => IInv'
  BY InvStep
<1> QED BY <1>1, <1>2, PTL DEF Spec

(***************************************************************************)
(* A version is recorded, in the ClusterVersion and in the BKECluster,     *)
(* only when every component of the cluster has it: across retries, aborts,*)
(* crashes and refused calls.  The hypothesis leaves out the reconciles    *)
(* and changes of the desired version that come while a hop is going on.   *)
(***************************************************************************)
THEOREM VersionsAreInstalled ==
    ASSUME Late = FALSE
    PROVE  Spec => RecordedMeansInstalled
<1>1. IInv /\ [Next]_vars =>
        [/\ cv'.current # cv.current => \A c \in Comps : comps'[c] = cv'.current
         /\ bc'.ver # bc.ver => \A c \in Comps : comps'[c] = bc'.ver]_vars
  BY RecordStep
<1> QED BY <1>1, Inductive, PTL DEF Spec, RecordedMeansInstalled

(***************************************************************************)
(* The current version moves along a rule that is not blocked, one rule at *)
(* a time, under the same hypothesis.                                      *)
(***************************************************************************)
THEOREM HopsAlongRules ==
    ASSUME Late = FALSE
    PROVE  Spec => HopsFollowRules
<1>1. IInv /\ [Next]_vars =>
        [cv.current # None /\ cv'.current # cv.current =>
             Rule(cv.current, cv'.current, FALSE) \in rules]_vars
  BY RecordStep
<1> QED BY <1>1, Inductive, PTL DEF Spec, HopsFollowRules
=============================================================================
