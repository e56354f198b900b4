--------------------------- MODULE RollingUpgrade ---------------------------
(***************************************************************************)
(* The rolling upgrade of the nodes by the legacy phase flow: the manager  *)
(* runs EnsureEtcdUpgrade, EnsureWorkerUpgrade and EnsureMasterUpgrade in  *)
(* this order, each of them one node at a time, by a Command that the      *)
(* agent of the node executes while the manager waits and then checks the  *)
(* node's health.  The wait and the check may time out while the agent     *)
(* still works, the manager may restart, and every failed reconcile is     *)
(* paid from the retry budget of the cluster.                              *)
(*                                                                         *)
(* Versions are "old" and "new": the target is the version of the spec and *)
(* does not change during the upgrade.  Masters carry etcd.                *)
(***************************************************************************)
EXTENDS StatusManager, Integers, FiniteSets

CONSTANTS Masters, Workers,
          Unready,        \* the sets of nodes whose agents may not be ready at first
          MaxRestarts     \* bound: restarts of the manager

Nodes == Masters \cup Workers

ASSUME NodesAssumption == /\ IsFiniteSet(Nodes)
                          /\ Masters # {}
                          /\ Masters \cap Workers = {}
                          /\ Unready \subseteq SUBSET Nodes

ASSUME MaxRestartsAssumption == MaxRestarts \in Nat

Versions == {"old", "new"}
Tasks == {"etcd", "node"}        \* UpgradeEtcd; UpgradeControlPlane or UpgradeWorker
Phases == {"Etcd", "Worker", "Master"}

\* The order of PostDeployPhases.
Place == [p \in Phases |-> CASE p = "Etcd" -> 1 [] p = "Worker" -> 2
                             [] p = "Master" -> 3]

\* The phases that follow p.
After(p) == {q \in Phases : Place[q] > Place[p]}

VARIABLES
    agentReady,  \* nodes with NodeAgentReadyFlag
    etcd,        \* image of the etcd static pod of each master
    kubelet,     \* KubeletVersion in the Node of the target cluster
    down,        \* nodes that are not ready, or a static pod of which is not
    cmd,         \* the upgrade Command of each node: task, backUpEtcd, result;
                 \* the agent works on it while the result is "running"
    orphans,     \* runs whose Command was deleted or replaced
    reported,    \* nodes whose BKENode.Status.State is (Etcd)UpgradeFailed
    mgr,         \* the reconcile in progress
    status,      \* BKECluster.Status: EtcdVersion, KubernetesVersion
    saved,       \* a snapshot of etcd has been taken
    rec,         \* StatusRecord of the cluster, in memory
    failed,      \* the cluster is UpgradeFailed for good
    lost,        \* runs the manager stopped watching before they had ended
    restarts

cluster == <<agentReady, etcd, kubelet, down>>
vars == <<agentReady, etcd, kubelet, down, cmd, orphans, reported, mgr,
          status, saved, rec, failed, lost, restarts>>

NoCmd == [task |-> "none", backup |-> FALSE, result |-> "none"]
Idle == [pc |-> "idle", phase |-> "none", todo |-> {}, node |-> "none",
         backup |-> "none", errs |-> {}]

TypeOK ==
    /\ agentReady \subseteq Nodes
    /\ etcd \in [Masters -> Versions]
    /\ kubelet \in [Nodes -> Versions]
    /\ down \subseteq Nodes
    /\ cmd \in [Nodes -> [task : Tasks \cup {"none"}, backup : BOOLEAN,
                          result : {"none", "running", "ok", "failed"}]]
    /\ orphans \subseteq Nodes \X Tasks
    /\ reported \subseteq Nodes
    /\ mgr \in [pc : {"idle", "select", "pick", "wait", "health", "record"},
                phase : Phases \cup {"none"}, todo : SUBSET Nodes,
                node : Nodes \cup {"none"}, backup : Masters \cup {"none"},
                errs : SUBSET Nodes]
    /\ status \in [etcd : Versions, k8s : Versions]
    /\ saved \in BOOLEAN
    /\ rec \in [failed : {Blank, "UpgradeFailed"}, normal : {Blank, "Upgrading"},
               count : 0 .. (Limit - 1), requeue : BOOLEAN]
    /\ failed \in BOOLEAN
    /\ lost \in Nat
    /\ restarts \in 0..MaxRestarts

Init ==
    /\ \E s \in Unready : agentReady = Nodes \ s
    /\ etcd = [m \in Masters |-> "old"]
    /\ kubelet = [n \in Nodes |-> "old"]
    /\ down = {}
    /\ cmd = [n \in Nodes |-> NoCmd]
    /\ orphans = {}
    /\ reported = {}
    /\ mgr = Idle
    /\ status = [etcd |-> "old", k8s |-> "old"]
    /\ saved = FALSE
    /\ rec = EmptyRecord
    /\ failed = FALSE
    /\ lost = 0
    /\ restarts = 0

-----------------------------------------------------------------------------
(* The phases and the nodes they select.                                    *)

\* The Command task of a phase.
Task(p) == IF p = "Etcd" THEN "etcd" ELSE "node"

\* NeedExecute: the recorded version differs from the target, and the phase
\* has nodes (EnsureEtcdUpgrade looks at them only when it runs).  Left out: no
\* phase of a cluster that is Unhealthy or Unknown, the same guard in both;
\* and the node list that cannot be read (a read of the informer's cache),
\* which fetchBKENodesIfCPInitialized takes for a phase that is not needed.
NeedExecute(p, st) ==
    CASE p = "Etcd" -> st.etcd = "old"
      [] p = "Worker" -> st.k8s = "old" /\ Workers # {}
      [] p = "Master" -> st.k8s = "old"

Role(p) == IF p = "Worker" THEN Workers ELSE Masters

\* getNeedUpgradeNodes, prepareUpgradeNodes, filterUpgradeableNodes: a node
\* whose agent is not ready is skipped.
Select(p) == Role(p) \cap agentReady

\* mutant: a master that has failed is not tried again
SkipFailedMaster(p, n) ==
    p # "Etcd" /\ (kubelet[n] = "new" \/ (p = "Master" /\ n \in reported))

\* The node runs the expected version and is not sent a Command.  The etcd
\* phase has no such test: the agent makes it.
UpToDate(p, n) == p # "Etcd" /\ kubelet[n] = "new"

\* mutant: the version is not waited for to run
HealthyAtOnce(p, n) == TRUE

\* NodeHealthCheck, and waitForEtcdHealthCheck.
Healthy(p, n) ==
    /\ n \notin down
    /\ IF p = "Etcd" THEN etcd[n] = "new" ELSE kubelet[n] = "new"

\* "master node block until upgrade success": only the worker phase goes on
\* to the next node.
Blocks(p) == p # "Worker"

\* mutant: a failed worker does not fail the phase
IgnoreFailures(errs) == TRUE

\* The worker phase ends well only if no node of it has failed.
AllUpgraded(errs) == errs = {}

-----------------------------------------------------------------------------
(* The manager.                                                             *)

\* mutant: the failure is not recorded
ForgetFailure == UNCHANGED <<rec, failed>>

\* ExecutePostHook of a failed phase: the cluster is UpgradeFailed, which the
\* status manager hides until the budget is spent.
RecordFailure ==
    LET r == RecordCluster(rec, "UpgradeFailed", TRUE, FALSE)
    IN  rec' = r.rec /\ failed' = r.spent

\* ExecutePostHook of a phase that ended well.
RecordSuccess ==
    /\ rec' = RecordCluster(rec, "Upgrading", FALSE, FALSE).rec
    /\ UNCHANGED failed

\* The phase returns an error: the flow stops and the request is queued again.
Abort == mgr' = Idle /\ RecordFailure

\* executePhases: the first of the phases that are left and needed, given the
\* status as it is now; a phase that is not needed is skipped.
Enter(left, st) ==
    LET need == {p \in left : NeedExecute(p, st)}
        first == CHOOSE p \in need : \A q \in need : Place[p] <= Place[q]
    IN  IF need = {} THEN Idle
        ELSE [Idle EXCEPT !.pc = "select", !.phase = first]

\* A reconcile whose flow has something to do.  A cluster that is
\* UpgradeFailed skips the legacy upgrade phases.
Reconcile ==
    /\ mgr.pc = "idle"
    /\ ~failed
    /\ Enter(Phases, status) # Idle
    /\ mgr' = Enter(Phases, status)
    /\ UNCHANGED <<cluster, cmd, orphans, reported, status, saved, rec,
                   failed, lost, restarts>>

\* The start of rolloutUpgrade: the nodes, and the node that saves etcd, which
\* is the first of a list in no particular order.  No node left is an error.
SelectNodes ==
    /\ mgr.pc = "select"
    /\ \/ /\ Select(mgr.phase) = {}
          /\ Abort
       \/ /\ Select(mgr.phase) # {}
          /\ \E b \in Masters :
                mgr' = [mgr EXCEPT !.pc = "pick", !.todo = Select(mgr.phase),
                                   !.backup = b, !.errs = {}]
          /\ UNCHANGED <<rec, failed>>
    /\ UNCHANGED <<cluster, cmd, orphans, reported, status, saved, lost,
                   restarts>>

\* The loop over the nodes: "already the expected version, skip upgrade".
SkipNode(n) ==
    /\ mgr.pc = "pick"
    /\ n \in mgr.todo
    /\ UpToDate(mgr.phase, n)
    /\ mgr' = [mgr EXCEPT !.todo = @ \ {n}]
    /\ UNCHANGED <<cluster, cmd, orphans, reported, status, saved, rec,
                   failed, lost, restarts>>

\* The node is marked and sent a new Command.  The one it may still have is
\* deleted; what the agent does for it goes on.
StartNode(n) ==
    /\ mgr.pc = "pick"
    /\ n \in mgr.todo
    /\ ~UpToDate(mgr.phase, n)
    /\ reported' = reported \ {n}
    /\ cmd' = [cmd EXCEPT ![n] =
                 [task |-> Task(mgr.phase), result |-> "running",
                  backup |-> mgr.phase # "Worker" /\ n = mgr.backup]]
    /\ orphans' = IF cmd[n].result = "running"
                  THEN orphans \cup {<<n, cmd[n].task>>} ELSE orphans
    /\ mgr' = [mgr EXCEPT !.pc = "wait", !.node = n]
    /\ UNCHANGED <<cluster, status, saved, rec, failed, lost, restarts>>

\* Wait returns no error and no failed node.  Nobody reads a Command that was
\* waited for again: it is dropped here, not when its TTL is over.
CommandOK ==
    /\ mgr.pc = "wait"
    /\ cmd[mgr.node].result = "ok"
    /\ cmd' = [cmd EXCEPT ![mgr.node] = NoCmd]
    /\ mgr' = [mgr EXCEPT !.pc = "health"]
    /\ UNCHANGED <<cluster, orphans, reported, status, saved, rec,
                   failed, lost, restarts>>

\* The node has failed: it is marked, and the phase ends or goes on.
NodeFails ==
    /\ reported' = reported \cup {mgr.node}
    /\ \/ /\ Blocks(mgr.phase)
          /\ Abort
       \/ /\ ~Blocks(mgr.phase)
          /\ mgr' = [mgr EXCEPT !.pc = "pick", !.node = "none",
                                !.todo = @ \ {mgr.node},
                                !.errs = @ \cup {mgr.node}]
          /\ UNCHANGED <<rec, failed>>

\* Wait reports a failed node, or times out while the agent is still at work.
CommandFails ==
    /\ mgr.pc = "wait"
    /\ \/ /\ cmd[mgr.node].result = "failed"
          /\ cmd' = [cmd EXCEPT ![mgr.node] = NoCmd]
          /\ UNCHANGED lost
       \/ /\ cmd[mgr.node].result = "running"
          /\ lost' = lost + 1
          /\ UNCHANGED cmd
    /\ NodeFails
    /\ UNCHANGED <<cluster, orphans, status, saved, restarts>>

\* The health check passes: the node is done (it is marked Upgrading since
\* StartNode, and gets another state that is not a failure).
NodeOK ==
    /\ mgr.pc = "health"
    /\ Healthy(mgr.phase, mgr.node)
    /\ mgr' = [mgr EXCEPT !.pc = "pick", !.todo = @ \ {mgr.node},
                          !.node = "none"]
    /\ UNCHANGED <<cluster, cmd, orphans, reported, status, saved, rec, failed,
                   lost, restarts>>

\* The health check times out.
HealthTimeout ==
    /\ mgr.pc = "health"
    /\ ~Healthy(mgr.phase, mgr.node)
    /\ NodeFails
    /\ UNCHANGED <<cluster, cmd, orphans, status, saved, lost, restarts>>

\* The loop has ended.  The version is in the object in memory; for the
\* workers there is none to record.
EndLoop ==
    /\ mgr.pc = "pick"
    /\ mgr.todo = {}
    /\ \/ /\ AllUpgraded(mgr.errs)
          /\ mgr' = [mgr EXCEPT !.pc = "record"]
          /\ UNCHANGED <<rec, failed>>
       \/ /\ ~AllUpgraded(mgr.errs)
          /\ Abort
    /\ UNCHANGED <<cluster, cmd, orphans, reported, status, saved, lost,
                   restarts>>

\* The status is written, and the flow goes on.
Record ==
    /\ mgr.pc = "record"
    /\ status' = CASE mgr.phase = "Etcd" -> [status EXCEPT !.etcd = "new"]
                   [] mgr.phase = "Worker" -> status
                   [] mgr.phase = "Master" -> [status EXCEPT !.k8s = "new"]
    /\ RecordSuccess
    /\ mgr' = Enter(After(mgr.phase), status')
    /\ UNCHANGED <<cluster, cmd, orphans, reported, saved, lost, restarts>>

\* A call to an API server fails where the phase gives up: reading the Node of
\* the target cluster, the status sync, the creation of the Command.
ApiError ==
    /\ mgr.pc \in {"select", "pick"}
    /\ Abort
    /\ UNCHANGED <<cluster, cmd, orphans, reported, status, saved, lost,
                   restarts>>

\* The manager stops and starts again: records and reconcile are gone.
Restart ==
    /\ restarts < MaxRestarts
    /\ mgr.pc # "idle"
    /\ restarts' = restarts + 1
    /\ lost' = IF mgr.pc \in {"wait", "health"} THEN lost + 1 ELSE lost
    /\ mgr' = Idle
    /\ rec' = EmptyRecord
    /\ UNCHANGED <<cluster, cmd, orphans, reported, status, saved, failed>>

Manager ==
    \/ Reconcile \/ SelectNodes \/ CommandOK \/ CommandFails
    \/ NodeOK \/ HealthTimeout \/ EndLoop \/ Record
    \/ \E n \in Nodes : SkipNode(n) \/ StartNode(n)

-----------------------------------------------------------------------------
(* The agents and the nodes.                                                *)

\* prepareUpgrade saves etcd first, if the Command says so.
Saved(n) == saved \/ cmd[n].backup

\* upgradeEtcd: nothing to do when the pod runs the new image; otherwise the
\* manifest is replaced, and the wait for the pod is over at once, because the
\* hash of the old etcd pod is never read.
UpgradeEtcd(n) ==
    /\ cmd[n].result = "running"
    /\ cmd[n].task = "etcd"
    /\ saved' = Saved(n)
    /\ down' = IF etcd[n] = "new" THEN down ELSE down \cup {n}
    /\ etcd' = [etcd EXCEPT ![n] = "new"]
    /\ cmd' = [cmd EXCEPT ![n].result = "ok"]
    /\ UNCHANGED <<agentReady, kubelet, orphans, reported, mgr, status, rec,
                   failed, lost, restarts>>

\* upgradeControlPlane and upgradeWorker: the components are replaced, then
\* the kubelet.
UpgradeNode(n) ==
    /\ cmd[n].result = "running"
    /\ cmd[n].task = "node"
    /\ saved' = Saved(n)
    /\ down' = down \cup {n}
    /\ kubelet' = [kubelet EXCEPT ![n] = "new"]
    /\ cmd' = [cmd EXCEPT ![n].result = "ok"]
    /\ UNCHANGED <<agentReady, etcd, orphans, reported, mgr, status, rec,
                   failed, lost, restarts>>

\* The run ends with an error: before it has saved etcd, before it has changed
\* the node, or half way, when etcd or the kubelet may be the new one or not.
AgentFails(n) ==
    /\ cmd[n].result = "running"
    /\ \/ UNCHANGED <<saved, down, etcd, kubelet>>
       \/ /\ saved' = Saved(n)
          /\ UNCHANGED <<down, etcd, kubelet>>
       \/ /\ saved' = Saved(n)
          /\ down' = down \cup {n}
          /\ \/ UNCHANGED <<etcd, kubelet>>
             \/ /\ cmd[n].task = "node"
                /\ kubelet' = [kubelet EXCEPT ![n] = "new"]
                /\ UNCHANGED etcd
             \/ /\ cmd[n].task = "etcd"
                /\ etcd' = [etcd EXCEPT ![n] = "new"]
                /\ UNCHANGED kubelet
    /\ cmd' = [cmd EXCEPT ![n].result = "failed"]
    /\ UNCHANGED <<agentReady, orphans, reported, mgr, status, rec, failed,
                   lost, restarts>>

\* A run without a Command comes to its end: it may still change the node.
OrphanEnds(n, t) ==
    /\ <<n, t>> \in orphans
    /\ orphans' = orphans \ {<<n, t>>}
    /\ \/ UNCHANGED <<down, etcd, kubelet>>
       \/ /\ t = "etcd" /\ etcd[n] = "old"
          /\ down' = down \cup {n}
          /\ etcd' = [etcd EXCEPT ![n] = "new"]
          /\ UNCHANGED kubelet
       \/ /\ t = "node"
          /\ down' = down \cup {n}
          /\ kubelet' = [kubelet EXCEPT ![n] = "new"]
          /\ UNCHANGED etcd
    /\ UNCHANGED <<agentReady, cmd, reported, mgr, status, saved, rec,
                   failed, lost, restarts>>

\* The pods of the node and its kubelet are ready again.
Recover(n) ==
    /\ n \in down
    /\ down' = down \ {n}
    /\ UNCHANGED <<agentReady, etcd, kubelet, cmd, orphans, reported, mgr,
                   status, saved, rec, failed, lost, restarts>>

\* The agent of a node answers (EnsureBKEAgent, between two upgrades).
AgentAnswers(n) ==
    /\ mgr.pc = "idle"
    /\ n \notin agentReady
    /\ agentReady' = agentReady \cup {n}
    /\ UNCHANGED <<etcd, kubelet, down, cmd, orphans, reported, mgr,
                   status, saved, rec, failed, lost, restarts>>

Environment ==
    \E n \in Nodes :
        \/ UpgradeEtcd(n) \/ UpgradeNode(n) \/ AgentFails(n)
        \/ Recover(n) \/ AgentAnswers(n)
        \/ \E t \in Tasks : OrphanEnds(n, t)

Next == Manager \/ ApiError \/ Restart \/ Environment

\* The work queue runs the reconcile, and Wait and the health check have
\* timeouts: the manager always goes on.
Spec == Init /\ [][Next]_vars /\ WF_vars(Manager)

-----------------------------------------------------------------------------
(* Properties.                                                              *)

(***************************************************************************)
(* A rolling upgrade: besides the nodes that are reported as               *)
(* UpgradeFailed, at most one node is down because of the upgrade, and one *)
(* more for each run that the manager stopped watching (a timeout, a       *)
(* restart).  Shown for the sequence of StartNode, CommandOK and NodeOK    *)
(* of upgradeMasterNodesWithParams, processNodeUpgrade and upgradeNodes.   *)
(***************************************************************************)
OneNodeDown ==
    Cardinality(down \ reported) <= 1 + lost

(***************************************************************************)
(* "master is always the last": a master is sent the Command that upgrades *)
(* its control plane only when every worker with a ready agent runs the    *)
(* new kubelet and the etcd upgrade is recorded, whatever failed or was    *)
(* restarted before.                                                       *)
(***************************************************************************)
MastersLast ==
    [][(mgr.pc = "pick" /\ mgr'.pc = "wait" /\ mgr.phase = "Master")
         => /\ \A w \in Workers \cap agentReady : kubelet[w] = "new"
            /\ status.etcd = "new"]_vars

(***************************************************************************)
(* A version is recorded in the status of the cluster only when every node *)
(* with a ready agent runs it, after any number of failed attempts, late   *)
(* runs and restarts of the manager; that of etcd only when a snapshot was *)
(* taken besides, unless the agent of the node chosen for it is not ready. *)
(***************************************************************************)
RecordedMeansRunning ==
    [][/\ status'.etcd # status.etcd =>
              /\ \A m \in Masters \cap agentReady : etcd[m] = "new"
              /\ saved \/ mgr.backup \notin agentReady
       /\ status'.k8s # status.k8s =>
              \A n \in agentReady : kubelet[n] = "new"]_vars

(***************************************************************************)
(* The upgrade comes to an end: the version is recorded, or the cluster is *)
(* UpgradeFailed and the retry budget of the status manager is spent.      *)
(***************************************************************************)
Ends == <>(failed \/ (status.etcd = "new" /\ status.k8s = "new"))
=============================================================================
