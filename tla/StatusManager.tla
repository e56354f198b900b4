---------------------------- MODULE StatusManager ---------------------------
(***************************************************************************)
(* The retry budget of pkg/statusmanage: one StatusRecord per BKECluster   *)
(* and per node, in the memory of the manager.  A failed state is hidden   *)
(* behind the latest normal state until it has been recorded Limit times   *)
(* (ReconcileAllowedFailedCount); then it is left to be seen.              *)
(***************************************************************************)
EXTENDS Naturals

CONSTANT Limit   \* ReconcileAllowedFailedCount

ASSUME LimitAssumption == Limit \in Nat \ {0}

\* The empty string.
Blank == "blank"

\* A record that does not exist reads like an empty one.
EmptyRecord == [failed |-> Blank, normal |-> Blank, count |-> 0, requeue |-> FALSE]

\* mutant: the last attempt is not made
AllowFailedEarly(r) == r.count + 1 < Limit

AllowFailed(r) == r.count < Limit

\* Equal and Inc, or Reset, SetLatestFailedState and Inc.
CountFailure(r, state) ==
    [r EXCEPT !.failed = state,
              !.count = IF r.failed = state THEN r.count + 1 ELSE 1]

\* Reset, and no requeue: the budget is spent.
Spend(r) == [r EXCEPT !.failed = Blank, !.count = 0, !.requeue = FALSE]

(***************************************************************************)
(* recordBKEClusterStatus for a cluster in the given state: the record     *)
(* that is kept, the status that is written instead, and whether the       *)
(* budget is spent.                                                        *)
(***************************************************************************)
RecordCluster(r, state, isFailed, isPaused) ==
    LET c == CountFailure(r, state)
    IN  CASE state = Blank ->
                 [rec |-> r, status |-> state, spent |-> FALSE]
          [] state # Blank /\ isPaused ->
                 [rec |-> [r EXCEPT !.requeue = FALSE], status |-> state,
                  spent |-> FALSE]
          [] state # Blank /\ ~isPaused /\ ~isFailed ->
                 [rec |-> [r EXCEPT !.normal = state, !.requeue = FALSE],
                  status |-> state, spent |-> FALSE]
          [] state # Blank /\ ~isPaused /\ isFailed /\ AllowFailed(c) ->
                 [rec |-> [c EXCEPT !.requeue = TRUE], status |-> r.normal,
                  spent |-> FALSE]
          [] OTHER ->
                 [rec |-> Spend(c), status |-> state, spent |-> TRUE]

(***************************************************************************)
(* recordSingleNodeState: a normal state leaves NeedRequeue alone, and a   *)
(* node whose budget is spent is marked with NodeFailedFlag.               *)
(***************************************************************************)
RecordNode(r, state, isFailed) ==
    LET c == CountFailure(r, state)
    IN  CASE state = Blank ->
                 [rec |-> r, state |-> state, spent |-> FALSE]
          [] state # Blank /\ ~isFailed ->
                 [rec |-> [r EXCEPT !.normal = state], state |-> state,
                  spent |-> FALSE]
          [] state # Blank /\ isFailed /\ AllowFailed(c) ->
                 [rec |-> [c EXCEPT !.requeue = TRUE], state |-> r.normal,
                  spent |-> FALSE]
          [] OTHER ->
                 [rec |-> Spend(c), state |-> state, spent |-> TRUE]
=============================================================================
