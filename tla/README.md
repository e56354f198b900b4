# Verification of cluster-api-provider-bke

TLA+ specifications of the parts of cluster-api-provider-bke that carry its own
protocols, with TLC runs on small instances and TLAPS proofs for every instance.
Paths are relative to the repository (`src/` in `PROJECT.json`).

1. [The system](#1-the-system)
2. [Modules](#2-modules)
3. [AgentCommand](#3-agentcommand)
4. [ComponentGraph and Topology](#4-componentgraph-and-topology)
5. [DagExec and OrderedUpgrade](#5-dagexec-and-orderedupgrade)
6. [ClusterReconcile and StatusManager](#6-clusterreconcile-and-statusmanager)
7. [UpgradeHop and UpgradePath](#7-upgradehop-and-upgradepath)
8. [RollingUpgrade](#8-rollingupgrade)
9. [NodesEnv](#9-nodesenv)
10. [MachineBootstrap](#10-machinebootstrap)
11. [AddonDeploy](#11-addondeploy)
12. [Runs](#12-runs)
13. [Proofs](#13-proofs)
14. [Known deviations](#14-known-deviations)
15. [Not modelled](#15-not-modelled)
16. [Plan](#16-plan)

## 1. The system

The provider creates, scales, upgrades and deletes Kubernetes clusters ("BKE"
clusters) from a management cluster. It consists of two programs that meet only
in the management cluster's API server:

* the **manager** (`cmd/capbke`), one active process, with the controllers of
  BKECluster, BKEMachine, ClusterVersion, ReleaseImage and UpgradePath;
* the **agent** (`cmd/bkeagent`), one process on every host, with the controller
  of Command objects.

The manager never talks to a host after the agent is installed: it creates a
`Command` that names nodes and a list of commands, the agents of those nodes run
it and report in its status, and the manager waits for the status.

| Component | State | Operations | What makes it correct |
|---|---|---|---|
| Agent command engine (`controllers/bkeagent`, `pkg/job`) | Command object, informer cache, job table, one goroutine per task, deletion timers | event filter, Reconcile, startTask, suspend, delete, TTL | a reported completion is true; commands in order; one runner; pause stops; deletion waits; every node settles |
| Component graph (`pkg/topology`) | nodes, out-edges, in-degrees | AddNode, AddEdge, TopologicalBatches, BuildUpgradeDAG | acyclic; refused only for cause; batches partition the nodes in dependency order |
| DAG scheduler (`pkg/dagexec`) | batch, work items, workers, completion and lifecycle records | ExecuteDAG, executeBatchParallel, persistBatchResults, patchDeclarativeUpgrade | no component before its prerequisites; records true and kept; finished only when all is done; every hop ends |
| Declarative upgrade of BKECluster (`controllers/capbke/bkecluster_upgrade_dag.go`) | upgrade-ready annotation, progress in memory and in the status | executeUpgradeDAG, failure handling, completion | one hop survives errors, restarts and retries |
| BKECluster reconcile, phase flow, status sync (`controllers/capbke`, `pkg/phaseframe`, `pkg/mergecluster`) | BKECluster, a copy in memory per reconcile, the list of phases, the queue | phase calculation and execution, hooks, merge and write, pause, deletion, dry run, retry | a pause or a deletion takes effect and is not forgotten; the finalizer goes last; failures are shown when the budget is spent |
| Status manager (`pkg/statusmanage`) | failure counts in memory, last normal state | record, give up, reset | bounded retries; a failure is shown in the end |
| ClusterVersion controller, hop bookkeeping (`controllers/clusterversion`, `pkg/clusterversion`) | desired and current version, phase; ReleaseImages | plan, precheck, mark, complete and fail a hop | versions move along rules and are recorded when they are installed |
| Upgrade path search (`pkg/upgradepath`) | graph of allowed version changes | ValidateRules, DetectCycle, FindPath | a path is found iff there is one, and it is a shortest one |
| Node upgrade phases (`pkg/phaseframe/phases/ensure_*_upgrade.go`) and the agent's kubeadm upgrade | versions of etcd and kubelets, Commands, recorded versions | select, command, wait, health check, record | one node at a time, masters last, recorded means running |
| Node provisioning phases and the manager side of commands (`ensure_bke_agent.go`, `ensure_nodes_env.go`, `ensure_nodes_postprocess.go`, `pkg/command`) | flags of BKENodes, Commands | push, ping, env, scripts; create, unique, wait, time out, remove | flags are earned; nodes are given up for a cause; every node is provisioned |
| BKEMachine controller, worker join and delete (`controllers/capbke/bkemachine_controller*.go`, `ensure_worker_*.go`) | BKEMachines, labels, nodesBootRecord, bootstrap and reset commands | pick a node, bootstrap, reset, scale up and down | a node has one machine (violated, section 14); machines boot and go |
| Addon deployment (`ensure_addon_deploy.go`, `pkg/kube`) | addons recorded and installed, Helm releases, Typha | create, upgrade, update, remove, record; agent switch | recorded means deployed; the network keeps its Typha; addons settle |
| Installers, executors, SSH, certificates, health checks, webhooks, metrics | none of their own that a protocol uses | I/O | outside the model: their outcome (done, error, not installed) is what the models keep |

`PROJECT.json` has the full list with sources.

**Interactions.** Manager and agent share the Command object. Within the manager,
the ClusterVersion controller puts the upgrade-ready annotation on the BKECluster,
whose controller builds the DAG of the target release, runs it in batches, and
records the progress in `status.declarativeUpgrade`; inline components of the DAG
are phases of the phase framework, which issue Commands. Without a ClusterVersion
the legacy phase list does the work, one phase after the other. Worker nodes join
through Cluster API: a phase scales a MachineDeployment, and the BKEMachine
controller gives every machine a node and bootstraps it by a Command. Every reader goes
through an informer cache and every writer through the API server.

**What is hard.** Goroutines that are told to stop and never waited for; events
dropped by a filter; a status object that several agents write; crashes between a
side effect and its record, or between two writes that belong together; merge
patches computed from a stale cache; objects held for minutes and written back;
parallel workers with cancellation; waits that time out while the work goes on;
retries whose budget is in memory. `PROJECT.json` lists each hazard at its line, with the
properties that would catch it.

## 2. Modules

| Module | Role |
|---|---|
| `AgentCommand`, `MCAgentCommand` | the agent command engine: state machine, properties, inductive invariant |
| `AgentCommandProofs` | its theorems |
| `ComponentGraph` | the operations of `pkg/topology/graph.go` as operators |
| `Topology`, `MCTopology` | BuildUpgradeDAG as a state machine over all releases |
| `OrderedUpgrade` | abstract specification: what an upgrade hop promises |
| `DagExec`, `MCDagExec` | the inside of one hop: BKECluster controller and batch scheduler |
| `DagExecProofs` | its theorems, with the refinement of `OrderedUpgrade` |
| `StatusManager` | the retry budget as operators, used by the four modules below it |
| `ClusterReconcile`, `MCClusterReconcile` | the reconcile loop of BKECluster: phases, hooks, status sync, queue |
| `ClusterReconcileProofs` | its theorems |
| `UpgradePath` | the path search as operators, and the definition it is checked against |
| `UpgradeHop`, `MCUpgradeHop` | hop by hop: ClusterVersion, ReleaseImage and BKECluster controllers |
| `UpgradePlanProofs` | the theorems of `Topology` and `UpgradeHop`, and what the loops of `ComponentGraph` and `FindPath` compute |
| `RollingUpgrade`, `MCRollingUpgrade` | the node upgrade phases with the agents that carry them out |
| `RollingUpgradeProofs` | its theorems |
| `MachineBootstrap`, `MCMachineBootstrap` | BKEMachine controller, worker join and delete |
| `MachineBootstrapProofs` | its theorems |
| `NodesEnv`, `MCNodesEnv` | node provisioning phases over the manager side of Commands |
| `NodesEnvProofs` | its theorems |
| `AddonDeploy`, `MCAddonDeploy` | addon deployment, agent switch, deferred manifest |
| `AddonDeployProofs` | its theorems |

`MCDagExec` composes `DagExec` with `ComponentGraph`: the batches of the checked
graphs are the ones `TopologicalBatches` computes (assumption `BatchesComputed`).
The assumption `BatchesAssumption` of `DagExec` is what `BatchesSound` of `Topology` says, which is proved
for every release (`BatchesAreSound`, and as it is put there, `BatchesFitTheScheduler`).
`UpgradeHop` extends `UpgradePath` and `StatusManager` and has a DAG as a set of
components to be done, the view of `DagExec` from outside. `NodesEnv`, `MachineBootstrap`
and `RollingUpgrade` keep of an agent what the manager can see of it (a status that
goes from nothing to running to a result); `AgentCommand` is the inside.
Operators whose comment begins with "mutant" are wrong variants of the definition after
them: for each property there is one that TLC shows to violate it.

## 3. AgentCommand

One Command, the agents of the nodes it selects, and the manager's pauses and
deletions. Variables and what they stand for:

* `obj`, `status`: the Command in the API server (deletion timestamp, finalizer,
  `spec.suspend`, generation, resource version; one status entry per node);
* `cache`, `queue`: an agent's informer copy and work queue. `Deliver` passes an
  event through `shouldReconcileCommand`, with the comparison of resource versions as
  strings (`StringLeq` on digit sequences);
* `rec`: the program counter and the fetched copy of a running Reconcile: `Fetch`,
  `InitStatus`, `EnsureFinalizer`, `CleanupTask`/`RemoveFinalizer`, `DecideNothing`,
  `DecideSuspend`/`SyncSuspend`, `CreateTask`/`StartTask`; `ReconcileFails` is a write
  that fails for good;
* `job`, `tasks`: the job table and all tasks ever created, with the state of their
  goroutines: `TaskStopped`, `TaskLoopEnds`, `TaskSkipsCompleted`, `TaskBegins`,
  `TaskExecutes`, `TaskSyncs`, `TaskFinalizes`, `TaskSettles`, `TaskFails`;
* `timer`: the TTL loop (`ProcessTTL`, `TimerFires`);
* `succeeded`, `tried`: history, what really ran; the truth that reports are held to.

Abstractions. Watch events are coalesced: `Deliver` jumps to the current object.
One iteration of the TTL loop is atomic. Time is abstract: a deadline may pass
when the code looks at the clock. The retries of one command are one step whose
outcome is success, failure or lateness. Not modelled: a negative `backoffLimit`,
`ForceRemove` deletions, a Command created again under the same name, node selectors
that match by label. Resource versions stay below 1000 (`StringLeq` is exact there).

Fairness (`agent_crash`): weak fairness of `Deliver` (the watch
reconnects), `Reconcile` (the worker is scheduled and requeues on error), each
`Goroutine`, `ProcessTTL` and `TimerFires` (Go schedules goroutines and timers).
Nothing forces a crash, a failure, a pause or a deletion.

## 4. ComponentGraph and Topology

`ComponentGraph` has `AddNode`, `AddEdge` with `hasPath`, and `TopologicalBatches`
(Kahn's algorithm by layers, with the in-degree counters of the code) as
operators. `Topology` is `BuildUpgradeDAG`: listing components, resolving and adding
dependencies, each error, and the final batch check. The release is not fixed:
each step picks the next entry among all possible ones, so one run covers every
release. Go adds dependencies in list order and the model in any order, so its
graphs include those of the code. Empty dependency names are filtered out before
this point. The reference for cycles is a set of components each of which waits for
another of the set, in the pairs that were asked for; the reference for batches is stated
on the edges alone.

## 5. DagExec and OrderedUpgrade

`OrderedUpgrade` is the promise: work on a component starts only when its
prerequisites are settled (have passed, or needed no upgrade), and the hop is
reported as finished only when all components are settled; work may end without
success and be repeated.

`DagExec` is the hop as the code runs it. `pc` is where the reconcile is:

| `pc` | code |
|---|---|
| `idle` | waiting for a reconcile; `BeginPass` is `executeUpgradeDAG` up to the first batch |
| `prepare` | first loop of `executeBatchParallel`: `Prepare`, `StartBatch` |
| `run` | the goroutines: `Acquire`, `Drop`, `Return`, `SyncStatus`, and `Wait` |
| `failures`, `markFailed`, `markInstalled` | `persistBatchResults`: `PersistSkip`, `PersistFailure`, `MarkLifecycleFailed`, `PersistSuccesses`, `MarkLifecycleInstalled`, `EndBatch` |
| `failed` | `handleDeclarativeUpgradeDAGFailure`: retry, abort, or parked |
| `finish`, `clear` | `completeDeclarativeUpgrade`: `PersistFinished`, `ClearUpgradeReady` |
| `done`, `aborted`, `parked` | the annotation is removed; or an abort failed and only an event (`Wake`) starts the reconcile again |

`api`, `cache` and `mem` are the three copies of the progress. A merge patch sets the
fields in which the new status differs from the *cached* one (`MergePatch`), a list
counting as one field. With `InformerLag` the cache stays behind until `CacheSync`;
without, it follows each write. `Shutdown` cancels the context: API calls fail, queued
workers may leave without a result. `Crash` loses everything but `api`; what was
running may or may not have taken effect.

Abstractions. Components are numbered in the order of their names; one version
per component. The cache jumps to the newest object. The verdict of the status
manager (retry or give up) is nondeterministic here: `UpgradeHop` has its count. `LastError` and attempt texts are dropped. Errors before
`ensureDeclarativeUpgradeProgress` requeue without a change and are stuttering steps; the write
of that function uses a background context and a retry loop and does not fail. The
updates of ClusterVersion at the end of a hop are in `UpgradeHop`. Two managers
at once (a lost leader lease) are not modelled. `BuildUpgradeDAG` gives every node the
policy `FailFast`; the scheduler also supports `Continue`, which `dag_lag` uses.

Fairness (`dag_restart`): weak fairness of `SchedulerStep`, since controller-runtime runs
the reconcile and queues it again when it returns an error. `Wake`, `Crash`, `Shutdown`
and `CacheSync` are not fair.

## 6. ClusterReconcile and StatusManager

`StatusManager` is `recordBKEClusterStatus` and `recordSingleNodeState` as operators: a
failed state is replaced by the last normal one until it has been recorded `Limit`
times in a row of its kind; then it is shown and the count starts again.

`ClusterReconcile` is the reconcile of a BKECluster without the declarative upgrade.
`obj` is the object on the API server; `run` is the reconcile: where it is, the object of
the phase context (`mem`), the object Reconcile entered with (`entry`, the same one until a
PreHook replaces it), the one of the flow (`new`) and the phases left (`plan`, a set taken in the order `Place`). One work
phase stands for a phase that brings something about; `todo` are those whose `NeedExecute`
finds something to do. Steps: `Begin` (health flags, retry annotation), `SyncMerge`,
`SyncWrite`, `SyncGone`, `SyncTimeout` (the two halves of `SyncStatusUntilComplete`, so that
users act between them, and its end without success), `CalculatePhase`, `WatchStatus`,
`PhaseSkipped`, `ExecutePreHook`, the `Execute…` of each phase, the PostHook, the cleanup of phases
that did not run, the notice of manual intervention, and the result of Reconcile with its
swallowed errors. Every write decides by `Triggers` (the predicates) whether the cluster
is queued again.

Abstractions. The three-way merge is kept for the fields the properties speak of,
with what decoding JSON into an existing object cannot do (clear `dryRun`, remove an
annotation). The objects wiped by a deletion are one set. Fairness: `Reconcile` only, since
the work queue hands out what it has; users, crashes and refused updates are not fair.

## 7. UpgradeHop and UpgradePath

`UpgradePath` has `ValidRules`, `Acyclic` (`DetectCycle`) and `FindPath`, the breadth-first search
with its order of edges and its visited set; `IsShortest` and `Reachable` define what it should return without searching.
The levels of the code are one queue of paths, and a `Turn` is one iteration of the inner loop: the first path is extended
along its next edge, or is done. A search has at most two turns for each version.

`UpgradeHop`: `cv`, `bc`, `ri` are the objects, `comps` the versions the components really have,
`crec` and `brec` the two reconciles with what they read at their start. The ClusterVersion
side reads, decides, ensures the ReleaseImage and marks the BKECluster (`CVRead`, `CVDecide`, `CVEnsure`, `CVMark`); the
BKECluster side resolves, syncs spec and status, resets or keeps the progress, upgrades
component by component, finishes (`finish`, `unmark`, `hop` are three writes), or is given up by
the status manager (`abort`, `abortMark`, `abortHop`). Crashes and refused calls fall between any
two writes; `Resync` is the informer's ten-hour resync, the only thing that makes up for
a lost event.

The constant `Late` is a timing assumption. A hop takes long; with `Late = FALSE` the ClusterVersion controller is done with
its queue when the last component of a hop is (`InTime`), and neither a change of the desired version nor a resync comes
before the hop is on record. With `Late = TRUE` TLC finds `RecordedMeansInstalled` violated, and with two changes and rules from one
version to two others `HopsFollowRules` too (section 14). Fairness: both workers,
the resync, and the check of a release, which is repeated until it passes.

## 8. RollingUpgrade

The phases `EnsureEtcdUpgrade`, `EnsureWorkerUpgrade`, `EnsureMasterUpgrade` in this order, as the flow runs
them: select the nodes (those whose agent is ready; for etcd one of them takes the
snapshot), skip those that are up to date, send a Command, wait, check the node's health, record
the version at the end. `cmd` and `orphans` are the runs on the agents, whose steps (`Saved`,
`UpgradeEtcd`, `UpgradeNode`, `AgentFails`) are those of the kubeadm plugin; a run whose Command was
deleted goes on as an orphan. `lost` counts the runs the manager stopped watching before
they ended. The order of nodes is any order, as the lists come from a cache. The retry
budget is `RecordCluster` of `StatusManager`; a restart empties it. Fairness: `Manager` only; waits and
health checks have time-outs, and no agent is assumed to answer.

## 9. NodesEnv

`EnsureBKEAgent` (push over SSH, start, ping), `EnsureNodesEnv` (env command, preprocess scripts),
`EnsureNodesPostProcess`, over `pkg/command`: `HandleUniqueCommand`, `New` with the reuse of a Command of
the same name (names end with the second, `fresh` and `Tick`), `Find`, `Complete`, `WaitCompletes`, `WaitTimesOut` with the
nodes `Successes` counts by map order, `Delete`. Agents start, succeed, fail and drop Commands.
`answered`, `ran`, `blamed`, `late` are history: what flags and given-up nodes are held to. Fairness:
the reconcile is repeated while nodes are left, each agent that runs goes on with what it has, nodes with
an environment join in the end; a crash
and a wait that ends too early are faults and not fair.

## 10. MachineBootstrap

Workers only; the control plane is up, agents are ready and the environment prepared.
Machines are reconciled concurrently (`run[m]`), each on a copy of the cached object (`seen`); Commands are read from
the cache too (`seenCmd`). A reconcile patches its machine twice, as the code does: when its
commands have been processed, and at its end. Each patch carries the differences between the copy and what was read. The phases `EnsureWorkerJoin` and `EnsureWorkerDelete` run one after the
other and scale the MachineDeployment. `FilterAvailableNode` picks a node by labels and
`nodesBootRecord`; `HandleRealBootstrap` creates the command; `ProcessBootstrapSuccess`, `…Failure` and
`HandleBootstrapSuccessFailure` apply its result, and the command is then marked as done, which may fail; `ReconcileDelete`,
`ExecuteResetCommand`, `WaitReset` and `ProcessResetCommand`
delete. `OneMachinePerNode`, which the comment at `nodesBootRecord` promises, is violated within small bounds (sections 12 and 14), so it is the
property of a violation run and nothing is proved about it. External: the MachineSet and Machine controllers of Cluster API, informers,
users. A reconcile that starts from old copies, a refused call, a time-out and a restart are faults. Fairness: the
queue, the phases, watches, Cluster API and agents.

## 11. AddonDeploy

`EnsureAddonDeploy` compares `status` with `spec` (`Compare`), fixes the operations of this pass (a set, since
each addon occurs once), and takes them one by one in the order `Place` of the code's list: a chart by Helm (with the states of its release), manifests by
`ApplyYaml`, Calico in the order of `applyCalicoAddonFiles`: Typha, wait, config, calico-node, wait,
and the deletion of Typha in the other direction. Each is recorded before the next.
`EnsureAgentSwitch` and `EnsureClusterAPIManagerManifest` follow. `installed`, `release` and `net` are the target
cluster; `begun` and `removing` are history. Users edit, pause and add nodes between any two
steps; any call may fail and the manager may restart. Fairness: the controller, and the
rollouts of the target cluster.

## 12. Runs

Deadlock checking is off in all runs: Commands, hops, upgrades and builds come to an end.

| Run | Properties | What it shows |
|---|---|---|
| `agent_crash` | `HonestCompletion`, `InOrderConditions`, `FinalizerHeld`, `GoneMeansStopped`, `OneRunner`, `CompletionIsFinal`, `EveryNodeSettles` | one agent, two commands, a crash, a call that fails for good, a deadline, a deletion: completion is honest and final, order kept, one runner, deletion waits for the stop signal, every node settles |
| `agent_suspend` | `SuspendHonoured`, `SpecChangeHandled` | one pause and resume with two overlapping goroutines: the pause stops the task, no spec change is lost |
| `topology_build` | `RejectedForCause`, `BatchesSound` | all releases of up to four components: the cycle test is exact, the batches are a sound and tight partition |
| `dag_restart` | `CompletionsKept`, `NoRework`, `ImplementsPromise`, `HopEndsOrParks` | a diamond, one worker at a time, two faults, one crash, no lag: records kept, nothing run twice, `OrderedUpgrade` implemented, every hop ends or is parked |
| `dag_lag` | `CompletedHonest`, `FinishedHonest` | lag, shutdown and crash, parallel workers: records true, finished only when done, although the status synchronisation of phases writes an old status back |
| `cluster_reconcile` | `FailedMeansExhausted`, `PauseStopsWork`, `FinalizerKept`, `PauseConverges`, `DeletionEnds`, `WorkGetsDone` | two edits, two failing phases, a crash or a refused update: failures hidden as long as the budget says, after a pause or deletion at most one phase starts, both are carried out (a pause unless a status synchronisation with an older copy is under way, which may write it back, section 14), the finalizer goes last |
| `upgrade_hop` | `ShortestPath`, `RecordedMeansInstalled`, `HopsFollowRules`, `Converges` | three versions, four sets of rules, a change of mind, two failures, a crash or refused call: shortest open paths, versions recorded when installed, the desired version reached |
| `rolling_upgrade` | `OneNodeDown`, `MastersLast`, `RecordedMeansRunning`, `Ends` | two masters and a worker, late and failing agents, a restart, an agent that is not ready |
| `node_env` | `FlagsAreEarned`, `SkipForCause`, `NodesProvisioned` | a master and a worker, two failures, one crash or early time-out |
| `machine_sharing` | `OneMachinePerNode` | expected violation: two machines, two nodes, one failed bootstrap and one reconcile with old copies are enough for two machines with the same node |
| `machine_liveness` | `MachinesSettle` | one machine, two nodes, any two of: failed bootstraps or resets, an edit, faults. Machines get a node and boot, deleted machines go. After a fault, a node that stays picked (`Leaked`) and a machine that nothing moves (`Stranded`) are excused, and so is a machine whose nodes users took away (`NoNodeLeft`); section 14 has the code's part |
| `addon_deploy` | `TyphaServed`, `RecordedMeansDeployed`, `AddonsSettle` | Calico, a chart and cluster-api, two edits and two faults |

Bounds. `MaxTasks`, `MaxRestarts`, `MaxFailures`, `MaxDeletes`, `MaxGeneration`, `MaxFaults`, `MaxFails`, `MaxEdits`,
`MaxEvents`, `MaxCmds`, `MaxCrashes` cap counters in guards. Two commands are enough for an order, a skip
and a stop between two; two tasks for an overlap. A join and a diamond have
parallel components, prerequisites in the batch before and earlier, and a last
batch. Four names give all 543 labelled DAGs, with every order of declaration up to
symmetry. A budget (`Limit`) of two has a hidden failure and a shown one. Two edits can
take back a request while it is carried out; two faults place a second failure in the
recovery from the first. Three versions have a path of two hops beside a direct one. Two
machines and two nodes are the smallest competition for a node. Two masters and a worker have an order within and between
the phases. One old and one new Calico version without and with Typha, and a second
set of parameters, make every operation on it happen. `cluster_reconcile` has fewer refused
updates than the budget (`MaxFaults < Limit`), which `FinalizerKept` needs. The runs of `SuspendHonoured` are bounded to
one pause, those of `GoneMeansStopped` and `CompletionIsFinal` to one node and one generation, and `OneRunner`
to no pause, for the reasons in section 14. In `dag_lag` the last batch is a registry component:
its Pending patch fails under a cancelled context, which is what keeps the order there.

Each state machine has a type invariant `TypeOK` (`GraphTypeOK` in `Topology`). It is proved for every one, so
the configurations list the properties only.

## 13. Proofs

All for arbitrary constants that satisfy the named assumptions; the bounds are
parameters, so any number of crashes and faults is covered.

**AgentCommandProofs**: `TypeCorrect`, `CompletionHonest`, `CommandsInOrder`, `FinalizerAlwaysHeld`
(`Spec => []` of `TypeOK`, `HonestCompletion`, `InOrderConditions`, `FinalizerHeld`), for any nodes and
number of commands. The inductive invariant is
`IInv == TypeOK /\ EntriesOK /\ FinalizerOK`. `HonestCompletion` speaks of the API server
only and is not inductive: a goroutine continues from the status entry that a
Reconcile fetched from a cache. `EntriesOK` says the same of *every* copy (server,
caches, fetched copies, goroutines), by the history of what really ran, and how
far each goroutine has got. `FinalizerOK` says that no agent has seen a finalizer that
a live Command does not have.

Five more hold only under a hypothesis, each of which is needed (section 14 has the history without it):

| Theorem | Assumes | Says |
|---|---|---|
| `AgentsStop` | one agent | `[]GoneMeansStopped` |
| `RunnersAlone` | the spec is not changed (`OneGeneration`) | `[]OneRunner` |
| `CompletionStays` | both | `CompletionIsFinal` |
| `SpecChangesHandled` | no write fails for good (`MaxFailures = 0`), resource versions of three digits in every state | `[]SpecChangeHandled` |
| `PausesHonoured` | at most one pause and one resume (`OnePause`), resource versions of three digits in every state | `[]SuspendHonoured` |

With two agents one removes the only finalizer while the task of the other runs. After a change of the
spec the old goroutine is told to stop and never waited for, so that two may run and a late write reopens an entry. A status
write that fails for good drops the reconcile that should have handled the change. A second pause finds the entry that the first
one left and stops nothing. Resource
versions are compared as strings, which is the order of numbers only as long as the number of digits stays the same; `ThreeDigits`
is a hypothesis on the behaviour (`Spec /\ []ThreeDigits`), which the versions of the model meet until they reach 1000.

The actions are first summarised as steps (`DeliverStep`, `FetchStep`, ...) that keep what the invariants look
at; each invariant is proved over the steps. `OrderOK` orders the three copies of the life of a Command (what an
agent has seen has been there); `StopOK` says that a goroutine that may still start a command belongs to the
task in the table or has been told to stop; `GoneOK` empties the table before the finalizer goes. `SingleOK` is
the case of one generation: one active task per node, and none besides the one in the table unless the entry is over. `FinalOK`
follows an entry from Running to its final phase: an `init` step can only write to an entry that no task has
touched, since with one agent the cache, once it has seen the finalizer, has seen the entry too. `ChangesOK` says that a change
the informer has delivered is in the queue, in the hands of a running Reconcile, or handled.

`PausesHonoured` allows any number of agents, failed writes, crashes and deletions. `PauseAt` says that an agent whose
cache shows the paused Command has its key in the queue, has a Reconcile that read just this Command (`Heeds`), or has
stopped its goroutines. It is inductive only with what holds until the resume (`EraAt`, under `Unresumed`): tasks are
created for the first generation, one at a time (`LoneAt`, from `ReadAt`: who has read the pause knows of nothing
else), so the generation of the pause passes the event filter; and an entry that says Completed or Suspend, be it
in the API server, the cache or the fetched copy, belongs to a node on which nothing runs or will be started (`SealAt`), so
`handleSuspend` may return early on it. `WrittenAt` and `CurrentAt` cover a Reconcile that begins with a missing
entry: a failed write drops it without a requeue, and then no goroutine runs yet.

**DagExecProofs**, for any components, DAG, batches in dependency order, executor
registry and degree of parallelism:

| Theorem | Assumes | Says |
|---|---|---|
| `TypeCorrect` | | `[]TypeOK` |
| `RecordsHonest` | | `[]CompletedHonest` |
| `ProgressKept` | no lag | `CompletionsKept` |
| `CompletedNotRunAgain` | no lag | `NoRework` |
| `OrderKept` | FailFast, no shutdown | `[]DependencyOrder` |
| `FinishedIsTrue` | FailFast, no shutdown | `[]FinishedHonest` |
| `Implements` | FailFast, no shutdown | `Promise!Spec`, the refinement of `OrderedUpgrade` |

The assumptions are needed (section 14 says what happens without them); failing
calls, crashes, and (where it is not excluded) a lagging cache remain.

* `RecordsHonest` rests on `RecordsOK`: a patch sets the whole completion list or leaves
  it, so the server holds either the list it had or the one that was sent, and both
  are true however stale the cache is; results marked done are done, too.
* `SyncInv`: without lag the three copies agree during a pass, and no work item is a
  recorded component.
* `OrderInv` is five parts: no shutdown; the workers are those of the batch's items and
  are gone when results are collected (`WorkersOK`); a worker leaves no result only
  if another failed (`DroppedOK`); earlier batches are settled and a failure stops the
  pass before the next (`PassOK`); and `LeftoverOK`, about the status of an earlier hop. The last
  is needed because a merge patch computed from a stale cache may combine the new
  target with the old `FinishedAt`, which would finish the hop by mistake; `FinishedSettled` shows that a status of the
  target with `FinishedAt` is one whose components are settled, whoever wrote it: `PersistFinished`, or a
  write-back of such a status.
* The step simulation (`RefinesNext`): `Acquire` is `Start`, `Return` and `Crash` are `Settle`, `PersistFinished` is
  `Finish`, a write that unsets `FinishedAt` is `Reopen`, the rest stutters.

**RollingUpgradeProofs**, for any nodes, budget and restarts: `TypeCorrect`, `MastersAreLast`
(`MastersLast`), `RecordsAreTrue` (`RecordedMeansRunning`), `OneNodeAtATime` (`[]OneNodeDown`). `FlowInv` says what the loop and
the phases before it have left behind: a node of the selection that is neither to do nor failed runs the new version, which
is what must hold before a master is upgraded and before a version is recorded. `SnapshotInv` follows the
node that saves etcd. `OneNodeDown` counts nodes that are down against Commands that were left behind and is not inductive; `LostInv` says that there is a
set of at most `lost` nodes such that every node that is down, and every node with an agent at
work, is watched, reported or in the set.

**NodesEnvProofs**, for any nodes, roles, scripts and bounds: `TypeCorrect`, `FlagsEarned`
(`[]FlagsAreEarned`), `SkippedForCause` (`[]SkipForCause`). What makes them inductive is about Commands and not about flags: `CommandsSound` says
that whatever a Command reports has happened on the node, that only postprocess commands are found again in
their second (so that a ping never takes an older answer for its own), that the Command a phase waits for is of
its kind, and that nobody is sent a ping or env command who has neither an agent nor a failure; `NodesTried` says the latter of the flags.

**ClusterReconcileProofs**, for any budget and any number of edits, failures, crashes and refused updates:

| Theorem | Assumes | Says |
|---|---|---|
| `TypeCorrect` | | `[]TypeOK` |
| `FailuresUseTheBudget` | | `[]FailedMeansExhausted` |
| `PauseHonoured` | | `[]PauseStopsWork` |
| `FinalizerStays` | `MaxFaults < Limit` | `FinalizerKept` |

All three relate the copies of the object that a reconcile holds (entry, context, flow) to the API server. `BudgetInv` says that
each copy that shows a failed status has used up its budget, and that the record never
counts a failure that did not happen. `PauseInv` says that once a phase was started after a pause or deletion, every copy that decides has seen it; `PauseStopsWork`
has been strengthened for this to at most one phase started. `FinInv` follows
the finalizer: every copy that may still be written back has it if the object has. Its hypothesis came out of the
proof: if the update that adds the finalizer is refused as often as the budget allows, a failed status is shown by an object without it, and section 14 says what follows.

**AddonDeployProofs**, for any addons, settings, edits and faults: `TypeCorrect`, `TyphaAlwaysServed`
(`[]TyphaServed`), `RecordsAreDeployed` (`[]RecordedMeansDeployed`). `OpInv` says which operation is under way at which point and that it
has `begun`. `TyphaInv` carries Typha through the steps of `applyCalicoAddonFiles`: what is there when calico-node is
pointed at it, and that nobody is left to ask for it when it is deleted. `RecordInv` says that
an operation that ends without an error has deployed what is then recorded.

**UpgradePlanProofs**, first half (`Topology`), for any set of names, and so for releases of any size:

| Theorem | Says |
|---|---|
| `GraphTypeCorrect` | `[]GraphTypeOK` |
| `RefusalsAreJustified` | `[]RejectedForCause` |
| `BatchesAreSound` | `[]BatchesSound` |
| `BatchesFitTheScheduler` | a graph that is built satisfies what `DagExec` assumes of its batches (`SchedulerInput`) |

The two loops, the search of `hasPath` and the rounds of `TopologicalBatches`, are functions indexed by the number of
the iteration. `Iteration` shows that such a function exists (TLA+ defines it by CHOOSE), and `Induction`, in its form for
sets, is derived from the least element of a set of numbers, so no library theorem with an operator as parameter is
needed. The argument is then that of the code. `SearchSound` and `SearchGrows`: a round visits successors only, and finds a node
that is new or ends the search, which is why as many rounds as nodes are enough (`SearchEnds`); so `HasPathExact`: `hasPath` is true
iff no set of nodes closed under the edges has the first without the second. An edge that is refused closes a way back, whose
nodes all wait for one another (`WayBackIsCycle`). The invariant `GraphInv` says that the accepted edges are the requested
ones, that `inDegree` counts them, and that every nonempty set of nodes has one that waits for none of the others.
Kahn's algorithm therefore takes a node in every round (`RoundTakes`) and all in the end, a node in the first round that has taken all
its prerequisites (`BatchesOfGraph`). `BatchesFitTheScheduler` closes the gap between the two models: the assumption `BatchesAssumption` under which
the theorems of `DagExecProofs` hold is met by every graph that `BuildUpgradeDAG` returns.

**UpgradePlanProofs**, second half (`UpgradeHop`), for any versions, rules and components, and any number of edits, failures and crashes:

| Theorem | Assumes | Says |
|---|---|---|
| `TypeCorrect` | | `[]TypeOK` |
| `PathsAreShortest` | | `[]ShortestPath` |
| `VersionsAreInstalled` | `Late = FALSE` | `RecordedMeansInstalled` |
| `HopsAlongRules` | `Late = FALSE` | `HopsFollowRules` |

`FindPathExact` is the first half: for a finite set of rules, `FindPath` returns a shortest path that is open, and `NoPath` only if there is
none. Its loop invariant `SearchInv` has four parts. `WaysOK`: what was found is a path along open rules, and each visited version
has one. `LevelsOK`: the paths in the queue are in the order of length and differ by one at most, and nothing found is longer than the next level.
`DoneOK`: from a path that has left the queue every open rule leads to a visited version, by a path that is at most one longer. `CountOK`: turns (and one for the start) and
queue together are twice the visited versions, so the queue is empty after the last turn. A shorter path would have its first version
that is found too late, and its predecessor is done (`FoundIsShortest`). The inductions are those of the first
half.

The invariant of the hops is `IInv == TypeInv /\ InstallInv /\ MarkInv /\ HopInv`. `RecordedMeansInstalled` relates a write to components upgraded many steps
before, by a controller that reads the hop anew from the annotation and keeps no lock, and what makes it true is spread over both controllers. `MarkInv`: what the ClusterVersion
controller has read is still so, and whatever is marked, or about to be, is the next hop on the way (`OnTheWay`); so a second mark
has the same value, and nobody takes a mark away in mid-hop. `HopInv`: the hop under way is the one in the annotation, the components
counted as done have the version of the progress record, and after `PersistFinished` the other controller is at rest until
the hop is on record. `InstallInv`: nothing is marked before the installation is on record, and the version of the cluster is set by then.
The hypothesis says that a hop is not overtaken; section 14 has what happens otherwise.

**MachineBootstrapProofs**, for any machines and nodes, and any number of failed bootstraps, refused calls, restarts and edits: `TypeCorrect`
(`Spec => []TypeOK`). It has two parts that are more than a type: what `scaleMachineDeployment` writes is between zero and the number of
nodes, and a bootstrap command always names a node that was picked, never none, although it is created from a copy.

To be reasoned about, two recursive lists became sets with an order (`Place`): the phases left in a flow and the
operations left on addons. The order is that of the code, and a choice from the set is its first element.

Only model-checked:

* liveness (`EveryNodeSettles`, `HopEndsOrParks`, `PauseConverges`, `DeletionEnds`, `WorkGetsDone`, `Converges`, `Ends`, `NodesProvisioned`,
  `MachinesSettle`, `AddonsSettle`), which is out of the prover's reach.

## 14. Known deviations

Behaviour met while modelling that differs from a comment or an evident intent. The
properties exclude it as said here; the references are to the code.

Agent (`controllers/bkeagent/command_controller.go`):

* A second pause is not honoured: `handleSuspend` returns when the phase is Suspend already,
  which the first pause left (`:292`; `api/bkeagent/v1beta1/command_types.go:52`).
* All agents share one finalizer: the first to handle the deletion removes it while
  another agent's task runs (`:255`, against `:240`).
* Resource versions are compared as strings: a spec change is dropped when a digit is
  gained (`:390`).
* After a pause and a resume the old goroutine is not waited for (`:362`): two runners; and its
  `finalizeTaskStatus` (`:559`) settles and closes the newer task, whose node stays Running.
* An agent whose cache is behind its own last write finds no entry and initialises the
  node again (`:177`), which takes back a Completed entry.
* The TTL loop deletes a Command once the entries it sees are final (`:637`): a node that
  has not made its entry yet is not waited for, though the comment at `:635` speaks
  of all nodes.
* A task that is stopped within its last command still writes a final status (`:576`-`:581`).

Declarative upgrade:

* A shutdown cancels a batch that then leaves neither results nor an error, and the next
  batch of legacy components may start (`pkg/dagexec/scheduler.go:239`, `inline_runner_adapter.go:42`).
* A merge patch computed from a stale cache replaces the whole list and drops completion
  records (`pkg/dagexec/declarative_upgrade_patch.go:41`, against
  `api/bkecommon/v1beta1/bkecluster_status.go:85`).
* `lastFailure` of a batch is cleared by the successes of the same batch
  (`scheduler.go:404`), although it "records the last failed component for this TargetVersion"
  (`bkecluster_status.go:104`).
* Completion and lifecycle phase are two patches (`scheduler.go:316`): a crash between
  them leaves a completed component Pending, since the next pass skips it.
* When the abort cannot remove the annotation, its error is swallowed because the
  cluster is in a Failed status by then (`bkecluster_controller.go:145`), and the hop is
  parked until an event (`bkecluster_upgrade_dag.go:398`); `HopEndsOrParks` allows for it.
* `SyncStatusUntilComplete`, which every phase of the flow and every inline component calls, reads the BKECluster
  twice (`mergecluster/bkecluster.go:132`, `:192`) and patches the differences of the first status to the second, so what another writer recorded in between is written back to what
  it was: completion records may be lost (`SyncStatus`, with a lagging cache), though none becomes false and no hop is finished by mistake. The object in memory
  whose progress drives the scheduler is not the one that is synchronised, and is not touched.
* `completeDeclarativeUpgrade` reads the hop from the annotation again (`bkecluster_upgrade_dag.go:448`): if the next hop
  was marked meanwhile, its version is recorded without being installed, and its
  annotation is removed (against `pkg/upgrade/status_sync.go:32`). Hence `Late = FALSE`.
* `markUpgradeReady` is a patch without a resource version: a hop that was chosen before the desired version changed and is marked after the
  hop before it has ended starts from a version it was not meant for, with no rule between the two (`clusterversion_controller.go:207`).
* If the API refuses `CompleteUpgradeHop`, the ClusterVersion stays behind until the ten-hour resync; so
  does an abort of which only the first half was written.
* A ClusterVersion in phase Failed is not reopened by a change of its spec, though
  `clusterversion_controller.go:144` says so; a desired version set back to the current one in mid-hop
  removes the annotation, and the hop ends with a "missing annotation" error.
* A desired version that changes during the installation, followed by a failed upgrade, counts
  as an installation again: Failed is overwritten by Installing.
* A rule that is blocked or removed after the mark does not stop the hop; conditions
  carry the current time and queue their own object again.

Reconcile of BKECluster:

* `checkAndNotifyManualIntervention` (`bkecluster_controller.go:274`) judges and writes back the object that Reconcile
  entered with: a failed status or a pause annotation of that time is restored.
* After a legacy upgrade has spent its budget, the retry annotation does not resume it
  (`phase_flow.go:96`), against the guidance given to users (`guidance.go:78`); `WorkGetsDone` leaves it out.
* The same notice takes the finalizer away: when the update that adds it has been refused until the budget is
  spent, the failed status is shown without it; the next reconcile adds it, and the write of the entry object replaces
  the finalizers by those of that time (`mergecluster/bkecluster.go:678`). `FinalizerKept` is violated with `MaxFaults >= Limit`.
* An edit made between the two reads of `SyncStatusUntilComplete`, and `dryRun: false`, are reverted.
  A pause made there is lost, and the model does lose it (`SyncMerge`, `SyncWrite`); `PauseConverges` promises nothing about it: a pause
  counts as asked for when it stands and no status synchronisation holds an older copy (`PauseAsked`).
* `EnsurePaused` writes the annotation before it pauses Commands and Cluster API; an error after it is
  not retried.
* A changed spec does not reopen a failed cluster (`statusmanager.go:200` says it does); a success does
  not reset the count of "consecutive" failures.
* A deletion or pause of a cluster whose status was a failed one is given up after its
  first failing reconcile (`bkecluster_controller.go:145`).
* `EnsureDeleteOrReset` lists the BKEMachines and Commands of the whole namespace (`:216`-`:297`).

Rolling upgrade:

* "master node block until upgrade success" (`ensure_master_upgrade.go:346`) does not hold across retries: the
  order of the list is not fixed, and a retry may start another master while the first
  is down; `OneNodeDown` does not count reported nodes.
* A retry takes the kubelet's version for success: a master that failed its health check
  with the new kubelet is skipped, and the version is recorded while it is down.
* The etcd snapshot is taken when the Command of the backup node runs: other members may be
  upgraded before it, and none is taken if the agent of that node is not ready.
* Nodes whose agent is not ready are left out and never upgraded once the version is
  recorded.
* `fetchBKENodesIfCPInitialized` (`phase_helpers.go:24`) takes a list of BKENodes that cannot be read for a phase that is not needed: if that
  happened to the worker phase only, masters would go first. The read is one of the informer's cache, and `NeedExecute` leaves its error out. It also leaves out that no phase
  runs for a cluster that is Unhealthy or Unknown (`ensure_worker_upgrade.go:204`, `ensure_master_upgrade.go:186`): the guard is the same in both
  phases and only delays them, unless the status changes between the two checks.
* The hashes of static pods are read for apiserver, controller manager and scheduler only, so the
  wait for a new etcd pod ends at once.
* The retry budget of a node never applies, since nothing sets the flag that
  `recordSingleNodeState` asks for (`fetcher.go:321`, `statusmanager.go:285`); `MarkNodeStatusByCommandErrs` changes only a copy.
* In the legacy order worker kubelets are upgraded before the control plane; under
  the DAG, if masters come first, the worker phase finds nothing to do.

Provisioning:

* "not skip nodes need init env success, retry later" (`phaseutil/util.go:1249`) is dead code: a failed master passes if any
  other node succeeded.
* A time-out counts nodes that have succeeded as failed, against the comment at `command.go:439`; workers
  among them are given up for good.
* `handleUniqueCommand` stops at the first command of a family: next to a terminating one, a leftover survives
  and can reset a node that is initialised.
* A crash between marking nodes as pushed and the ping leaves them pushed and not ready
  for ever; preprocess scripts are not retried; a failing postprocess marks the failed
  nodes as done and runs those of the others again.

Machines:

* A reconcile with a stale cache picks a second node for a machine.
* After the mark of `markBKEMachineDeletion` any error or crash leaves the machine stuck; a reset
  without a success removes the finalizer all the same.
* A machine that finds no node returns without requeue.
* `EnsureWorkerJoin` gives a node up at its first failure although the machine retries; the rollback after
  all failed deletes machines that boot later, with the users' BKENodes.
* `Status.Node` of a machine that gave its label up still names the old node: its deletion
  resets the node of another machine (`bkemachine_controller.go:705`).
* A BKENode that a user deletes while its machine bootstraps leaves the machine stuck.
* Two machines can have one node (run `machine_sharing`, finding at `bkemachine_controller_phases.go:1076`): processing a command, whether it
  succeeded or failed, takes the node of the machine's label out of `nodesBootRecord`. The bootstrap of a machine on `n1` fails, it gives `n1` up and picks `n2`; another machine picks
  `n1`; a reconcile of the first machine that still reads its old label and the old command processes the command again and drops the pick of the other. Before the cache shows
  the label of the other machine, `n1` is picked twice. Deletions of machines that have moved lead to the same by another
  way. A booted node can then be reset by the machine that does not own it.
* A command is marked as done (`:680`) before its machine is patched; when the mark fails, a later reconcile processes it again.
* A crash after the pick and before the patch of the label leaves a bootstrap command without a machine; an error there leaves the pick in
  `nodesBootRecord` until a restart. A command that was marked as done while the patch of the machine failed is not processed again. `MachinesSettle` excuses these after a fault (`Leaked`, `Stranded`).
* `NodeToMachine` takes machines that are being deleted (`clusterapi.go:287`): a node added again early is marked as
  booted, and nothing bootstraps it.
* The rollback of `reconcileWorkerDelete` never runs, as its error is never assigned.

Addons:

* An upgrade or removal that is interrupted and then taken back by the user is not
  repaired, since status equals spec; `RecordedMeansDeployed` excuses what has `begun`.
* A failed addon without `block` is recorded as deployed and not retried (`ensure_addon_deploy.go:229`), and
  nothing waits for its Typha.
* A chart whose first install was interrupted can never be installed (`chart.go:214`); `AddonsSettle` calls it stuck.
* Errors of removals are swallowed (`addon.go:827`); a removal in a cluster that has shrunk renders no Typha and
  leaves it behind, as does a failed deletion of its Service.
* If cluster-api leaves the spec after its hook marked the listener, agents are switched to
  a cluster without it; once applied, the deferred manifest is never applied again.
* `ApplyYaml` turns a panic into success (`yaml.go:55`); `getCertTmpPath` (`chart.go:487`) assigns paths in map order.

## 15. Not modelled

* Installers, executors, SSH, certificates, OCI, metrics, health checks, downloads and the steps
  on a host below the agent's commands are I/O with no protocol state; their outcome is an
  input of the models. They are more than half of the code, with the generated deep copies,
  constants and templates, which is why the mapped share of the repository is about one
  eighth.
* Webhooks look at one object at a time.
* The control plane phases (first master, further masters, load balancer, certificates,
  Cluster API objects) and the take-over of existing clusters. Read for this project and
  noted: `EnsureMasterJoin` does not stop when the first master is not initialised; a load balancer that cannot
  be configured returns no error; the choice of the first master follows no order.
* The upgrades of containerd (all nodes at once), agents, components and the provider itself.
* Leader election and two active managers.
* Left out of modelled parts: see the notes in `PROJECT.json`.

## 16. Plan

1. `UpgradeHop` over `OrderedUpgrade`: its set of components as a refinement of the hop of `DagExec`.
2. An abstraction of `AgentCommand` (nothing, running, result) as a module of its own, which the agents of
   `NodesEnv`, `MachineBootstrap` and `RollingUpgrade` instantiate.
3. The control plane phases next to `MachineBootstrap`; the containerd and agent upgrades next to `RollingUpgrade`.
