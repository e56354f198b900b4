----------------------------- MODULE MCDagExec ------------------------------
(***************************************************************************)
(* Model-checking instances of DagExec: two graphs, with the batches that  *)
(* the operations of ComponentGraph give for them.                         *)
(***************************************************************************)
EXTENDS DagExec, FiniteSetsExt

G == INSTANCE ComponentGraph

\* The batches of the graph built from a set of <<prerequisite, dependent>>
\* pairs on the components 1 .. n.
BatchesOf(n, E) ==
    LET empty == FoldSet(LAMBDA c, g : G!AddNode(g, c), G!NewGraph, 1 .. n)
        graph == FoldSet(LAMBDA e, g : G!AddEdge(g, e[1], e[2]).graph, empty, E)
    IN  G!TopologicalBatches(graph).batches

PrereqsOf(n, E) == [c \in 1 .. n |-> {p \in 1 .. n : <<p, c>> \in E}]

\* 1 and 2, then 3 on both.
JoinEdges   == {<<1, 3>>, <<2, 3>>}
JoinPrereqs == PrereqsOf(3, JoinEdges)
JoinBatches == <<{1, 2}, {3}>>

\* 1, then 2 and 3 on it, then 4 on both.
DiamondEdges   == {<<1, 2>>, <<1, 3>>, <<2, 4>>, <<3, 4>>}
DiamondPrereqs == PrereqsOf(4, DiamondEdges)
DiamondBatches == <<{1}, {2, 3}, {4}>>

ASSUME BatchesComputed ==
    /\ JoinBatches = BatchesOf(3, JoinEdges)
    /\ DiamondBatches = BatchesOf(4, DiamondEdges)
=============================================================================
