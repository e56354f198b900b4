------------------------------ MODULE Topology ------------------------------
(***************************************************************************)
(* BuildUpgradeDAG of pkg/topology/build.go: the components listed in a    *)
(* ReleaseImage become the nodes of an UpgradeDAG, the dependencies that   *)
(* their ComponentVersions declare become its edges, and the graph is      *)
(* accepted if it can be cut into batches.                                 *)
(*                                                                         *)
(* The release image is the input.  It is not fixed in advance: each step  *)
(* takes the next entry of the list, or the next declared dependency, from *)
(* all the entries a release could hold, so that the behaviours are the    *)
(* runs of BuildUpgradeDAG on every release.  Go walks the components in   *)
(* list order and each one's dependencies in order; the graphs it can hold *)
(* on the way are those of the arbitrary order used here.                  *)
(***************************************************************************)
EXTENDS ComponentGraph

CONSTANTS Names,     \* the component names a release may use
          NoName     \* the empty string

ASSUME NoNameAssumption == NoName \notin Names

VARIABLES
    phase,        \* "list", "dependencies", "built" or "failed"
    components,   \* UpgradeDAG.nodes: the components GetNode finds
    graph,        \* UpgradeDAG.graph
    requested,    \* the <<prerequisite, dependent>> pairs asked for so far
    failure       \* the error returned, "none" until there is one

buildVars == <<phase, components, graph, requested, failure>>

Failures == {"none", "empty list", "empty name", "duplicate", "resolver",
             "missing", "self-edge", "cycle", "invalid"}

BuildInit ==
    /\ phase = "list"
    /\ components = {}
    /\ graph = NewGraph
    /\ requested = {}
    /\ failure = "none"

Refuse(reason) == phase' = "failed" /\ failure' = reason

(***************************************************************************)
(* The next entry of the component list: UpgradeDAG.AddNode.               *)
(***************************************************************************)
ListComponent(n) ==
    /\ phase = "list"
    /\ UNCHANGED requested
    /\ \/ /\ n = NoName
          /\ Refuse("empty name")
          /\ UNCHANGED <<components, graph>>
       \/ /\ n \in components
          /\ Refuse("duplicate")
          /\ UNCHANGED <<components, graph>>
       \/ /\ n \in Names \ components
          /\ components' = components \cup {n}
          /\ graph' = AddNode(graph, n)
          /\ UNCHANGED <<phase, failure>>

\* The list is exhausted; an empty one is refused.
EndOfList ==
    /\ phase = "list"
    /\ \/ components = {} /\ Refuse("empty list")
       \/ components # {} /\ phase' = "dependencies" /\ UNCHANGED failure
    /\ UNCHANGED <<components, graph, requested>>

\* A component's dependencies cannot be read.
ResolveFails ==
    /\ phase = "dependencies"
    /\ Refuse("resolver")
    /\ UNCHANGED <<components, graph, requested>>

(***************************************************************************)
(* Component c declares that it depends on dep: the loop body of           *)
(* BuildUpgradeDAG and UpgradeDAG.AddDependency.  A component that names   *)
(* itself is ignored; a name that is not listed is an error.               *)
(***************************************************************************)
Depend(c, dep) ==
    /\ phase = "dependencies"
    /\ c \in components
    /\ UNCHANGED components
    /\ \/ /\ dep = c
          /\ UNCHANGED <<phase, graph, requested, failure>>
       \/ /\ dep \in Names \ (components \cup {c})
          /\ Refuse("missing")
          /\ UNCHANGED <<graph, requested>>
       \/ /\ dep \in components \ {c}
          /\ requested' = requested \cup {<<dep, c>>}
          /\ LET r == AddEdge(graph, dep, c)
             IN  /\ graph' = r.graph
                 /\ IF r.err = "none"
                    THEN UNCHANGED <<phase, failure>>
                    ELSE Refuse(r.err)

\* Every dependency has been added: the graph must have batches.
Accept ==
    /\ phase = "dependencies"
    /\ IF TopologicalBatches(graph).err
       THEN Refuse("invalid")
       ELSE phase' = "built" /\ UNCHANGED failure
    /\ UNCHANGED <<components, graph, requested>>

BuildNext ==
    \/ \E n \in Names \cup {NoName} : ListComponent(n)
    \/ EndOfList
    \/ ResolveFails
    \/ \E c, dep \in Names : Depend(c, dep)
    \/ Accept

BuildSpec == BuildInit /\ [][BuildNext]_buildVars

-----------------------------------------------------------------------------
GraphTypeOK ==
    /\ phase \in {"list", "dependencies", "built", "failed"}
    /\ components \subseteq Names
    /\ graph.nodes = components
    /\ graph.outEdges \in [components -> SUBSET components]
    /\ graph.inDegree \in [components -> Nat]
    /\ requested \subseteq Names \X Names
    /\ failure \in Failures

\* Reference definitions, without a search: there is a cycle iff there are
\* components that all wait for one of them.
EdgePairs == {e \in Names \X Names : e[1] \in components
                                        /\ e[2] \in graph.outEdges[e[1]]}

HasCycle(E) ==
    \E T \in SUBSET Names :
        T # {} /\ \A n \in T : \E m \in T : <<m, n>> \in E

(***************************************************************************)
(* BuildUpgradeDAG refuses a release for a cycle only if the dependencies  *)
(* it asked for really have one, never fails the final batch check, and a  *)
(* graph it returns has exactly the edges that the release asked for.      *)
(***************************************************************************)
RejectedForCause ==
    /\ failure = "cycle" => HasCycle(requested)
    /\ failure \notin {"invalid", "self-edge"}
    /\ phase = "built" => EdgePairs = requested

(***************************************************************************)
(* Graph.TopologicalBatches, on every graph that can be built: the batches *)
(* are a partition of the nodes, a prerequisite is in an earlier batch     *)
(* than its dependents (graph.go:85, "execution batches in dependency      *)
(* order"; graph.go:86, "Nodes in the same batch have no dependency on     *)
(* each other"), and every component after the first batch has a           *)
(* prerequisite in the batch just before, so none is held back.            *)
(***************************************************************************)
BatchesSound ==
    LET b          == TopologicalBatches(graph).batches
        BatchOf(n) == CHOOSE k \in DOMAIN b : n \in b[k]
    IN  /\ UNION {b[k] : k \in DOMAIN b} = components
        /\ \A j, k \in DOMAIN b : j # k => b[j] \cap b[k] = {}
        /\ \A e \in EdgePairs : BatchOf(e[1]) < BatchOf(e[2])
        /\ \A k \in DOMAIN b \ {1} : \A n \in b[k] :
               \E m \in b[k - 1] : <<m, n>> \in EdgePairs
=============================================================================
