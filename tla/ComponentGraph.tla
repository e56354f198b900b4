--------------------------- MODULE ComponentGraph ---------------------------
(***************************************************************************)
(* The dependency graph of pkg/topology/graph.go: the operations of Graph  *)
(* as operators on a record                                                *)
(*    nodes      the registered components,                                *)
(*    outEdges   for a prerequisite, the components that depend on it,     *)
(*    inDegree   for a component, how many prerequisites it is waiting on. *)
(* A Go map is a function on nodes; the loops are recursive functions      *)
(* indexed by the number of the iteration.                                 *)
(***************************************************************************)
EXTENDS Integers, FiniteSets, Sequences, TLC

NewGraph == [nodes |-> {}, outEdges |-> <<>>, inDegree |-> <<>>]

\* The map f with the entry v for n.
With(f, n, v) == [m \in DOMAIN f \cup {n} |-> IF m = n THEN v ELSE f[m]]

\* Graph.AddNode is idempotent.
AddNode(g, n) ==
    IF n \in g.nodes
    THEN g
    ELSE [nodes    |-> g.nodes \cup {n},
          outEdges |-> With(g.outEdges, n, {}),
          inDegree |-> With(g.inDegree, n, 0)]

Successors(g, S) == UNION {g.outEdges[n] : n \in S}

(***************************************************************************)
(* Graph.hasPath: the two-queue breadth-first search.  Search[k] is what   *)
(* the search knows after k rounds: what it has visited, and the current   *)
(* queue.  At most |nodes| rounds find something new.                      *)
(***************************************************************************)
HasPath(g, from, to) ==
    LET Search[k \in Nat] ==
            IF k = 0
            THEN [visited |-> {from}, current |-> {from}]
            ELSE LET next == Successors(g, Search[k - 1].current)
                                 \ Search[k - 1].visited
                 IN  [visited |-> Search[k - 1].visited \cup next,
                      current |-> next]
    IN  \/ from = to
        \/ \E k \in 0 .. Cardinality(g.nodes) : to \in Search[k].current

\* Mutant of Linked: an edge that is already there is counted again.
CountsAgain(g, p, d) == [g EXCEPT !.outEdges[p] = @ \cup {d},
                                  !.inDegree[d] = @ + 1]

\* The last two statements of Graph.AddEdge: an edge is recorded, and counted
\* in the dependent's inDegree, once.
Linked(g, p, d) ==
    IF d \in g.outEdges[p]
    THEN g
    ELSE [g EXCEPT !.outEdges[p] = @ \cup {d}, !.inDegree[d] = @ + 1]

\* Mutant of AddEdge: the search runs from the prerequisite to the dependent,
\* which refuses a shortcut and accepts a cycle.
SearchesForward(g, p, d) ==
    LET h == AddNode(AddNode(g, p), d)
    IN  IF p = d              THEN [graph |-> g, err |-> "self-edge"]
        ELSE IF HasPath(h, p, d) THEN [graph |-> h, err |-> "cycle"]
        ELSE [graph |-> Linked(h, p, d), err |-> "none"]

(***************************************************************************)
(* Graph.AddEdge(prerequisite, dependent): the nodes are registered even   *)
(* when the edge is then refused because it would close a cycle.           *)
(***************************************************************************)
AddEdge(g, p, d) ==
    LET h == AddNode(AddNode(g, p), d)
    IN  IF p = d              THEN [graph |-> g, err |-> "self-edge"]
        ELSE IF HasPath(h, d, p) THEN [graph |-> h, err |-> "cycle"]
        ELSE [graph |-> Linked(h, p, d), err |-> "none"]

(***************************************************************************)
(* Graph.TopologicalBatches: rounds of Kahn's algorithm.  Round[k] is the  *)
(* local state after k batches; a round that finds no node while some      *)
(* remain is the "graph has cycles" error.  The order of names inside a    *)
(* batch (they are sorted) is left to the reader of the batch.             *)
(***************************************************************************)
TopologicalBatches(g) ==
    LET Round[k \in Nat] ==
            IF k = 0
            THEN [inDegree |-> g.inDegree, processed |-> {}, batch |-> {}]
            ELSE LET r     == Round[k - 1]
                     batch == {n \in g.nodes \ r.processed : r.inDegree[n] = 0}
                 IN  [inDegree  |-> [n \in g.nodes |->
                          r.inDegree[n]
                            - Cardinality({m \in batch : n \in g.outEdges[m]})],
                      processed |-> r.processed \cup batch,
                      batch     |-> batch]
        last == CHOOSE k \in 0 .. Cardinality(g.nodes) :
                    /\ Round[k + 1].batch = {}
                    /\ \A j \in 1 .. k : Round[j].batch # {}
    IN  [batches |-> [k \in 1 .. last |-> Round[k].batch],
         err     |-> Round[last].processed # g.nodes]
=============================================================================
