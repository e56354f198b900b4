--------------------------- MODULE OrderedUpgrade ---------------------------
(***************************************************************************)
(* What the declarative upgrade promises of one hop, with no scheduler in  *)
(* sight: a component is worked on only when everything it depends on has  *)
(* been dealt with, and the hop is reported as finished only when every    *)
(* component has.  A component may be worked on again, and work may end    *)
(* without having dealt with it.                                           *)
(***************************************************************************)
CONSTANTS Components,   \* the nodes of the upgrade DAG
          Prereqs,      \* for a component, the components it depends on
          Unneeded      \* components that are at their target version already

VARIABLES running,      \* the components being worked on
          passed,       \* the components that have been dealt with
          finished      \* the hop is reported as finished

vars == <<running, passed, finished>>

Settled == passed \cup Unneeded

Init == running = {} /\ passed = {} /\ finished = FALSE

Start(c) ==
    /\ c \notin running
    /\ Prereqs[c] \subseteq Settled
    /\ running' = running \cup {c}
    /\ UNCHANGED <<passed, finished>>

\* Work on the components of S ends; those of T have been dealt with.
Settle(S, T) ==
    /\ running' = running \ S
    /\ passed' = passed \cup T
    /\ UNCHANGED finished

Finish ==
    /\ Components \subseteq Settled
    /\ finished' = TRUE
    /\ UNCHANGED <<running, passed>>

Reopen == finished' = FALSE /\ UNCHANGED <<running, passed>>

Next ==
    \/ \E c \in Components : Start(c)
    \/ \E S \in SUBSET running : \E T \in SUBSET S : Settle(S, T)
    \/ Finish
    \/ Reopen

Spec == Init /\ [][Next]_vars
=============================================================================
