-------------------------- MODULE ClusterReconcile --------------------------
(***************************************************************************)
(* The reconcile loop of the BKECluster controller without the declarative *)
(* upgrade (see DagExec): the status a reconcile starts with, the phases   *)
(* that PhaseFlow selects and runs, their hooks, the synchronisation of    *)
(* the object in memory with the API server (pkg/mergecluster), the retry  *)
(* budget (StatusManager) and what puts the cluster back in the queue.     *)
(* Users edit the object at any time; the manager may crash; an update may *)
(* fail for as long as SyncStatusUntilComplete tries.                      *)
(*                                                                         *)
(* A work phase stands for one of the phases that bring the cluster to     *)
(* what its spec asks for; the set "todo" has those whose NeedExecute      *)
(* finds something to do, whatever that is.                                *)
(***************************************************************************)
EXTENDS StatusManager, Integers, Sequences, FiniteSets, SequencesExt

CONSTANTS
    WorkPhases,   \* the work phases, in the order of FullPhasesRegisFunc
    MaxEdits,     \* bound on the edits of users
    MaxFails,     \* bound on the phases that fail
    MaxFaults     \* bound on crashes and on updates that never succeed

\* The classes of list.go; a phase in none of them has the status Unknown.
PhaseClass ==
    [EnsureFinalizer |-> "init", EnsureBKEAgent |-> "init",
     EnsureNodesEnv |-> "init", EnsureClusterAPIObj |-> "init",
     EnsureCerts |-> "init", EnsureLoadBalance |-> "init",
     EnsureMasterInit |-> "init", EnsureAgentSwitch |-> "init",
     EnsureMasterJoin |-> "masterUp", EnsureWorkerJoin |-> "workerUp",
     EnsureMasterDelete |-> "masterDown", EnsureWorkerDelete |-> "workerDown",
     EnsureAddonDeploy |-> "addon", EnsureNodesPostProcess |-> "unknown",
     EnsureProviderSelfUpgrade |-> "selfUpgrade",
     EnsureAgentUpgrade |-> "upgrade", EnsureContainerdUpgrade |-> "upgrade",
     EnsureEtcdUpgrade |-> "upgrade", EnsureWorkerUpgrade |-> "upgrade",
     EnsureMasterUpgrade |-> "upgrade", EnsureComponentUpgrade |-> "upgrade",
     EnsureClusterAPIManagerManifest |-> "unknown",
     EnsurePaused |-> "paused", EnsureDeleteOrReset |-> "delete",
     EnsureDryRun |-> "dryRun", EnsureCluster |-> "cluster"]

\* The status that a class shows while it runs or succeeds, and when it fails.
ClassStatus ==
    [init |-> <<"Initializing", "InitializationFailed">>,
     masterUp |-> <<"ScalingMasterNodesUp", "ScaleFailed">>,
     workerUp |-> <<"ScalingWorkerNodesUp", "ScaleFailed">>,
     masterDown |-> <<"ScalingMasterNodesDown", "ScaleFailed">>,
     workerDown |-> <<"ScalingWorkerNodesDown", "ScaleFailed">>,
     addon |-> <<"DeployingAddon", "DeployAddonFailed">>,
     upgrade |-> <<"Upgrading", "UpgradeFailed">>,
     paused |-> <<"Paused", "PauseFailed">>,
     delete |-> <<"Deleting", "DeleteFailed">>,
     dryRun |-> <<"DryRun", "DryRunFailed">>,
     selfUpgrade |-> <<"Unknown", "Unknown">>,
     unknown |-> <<"Unknown", "Unknown">>]

Failures == {ClassStatus[k][2] : k \in DOMAIN ClassStatus} \ {"Unknown"}
Statuses == {ClassStatus[k][1] : k \in DOMAIN ClassStatus} \cup Failures
                \cup {Blank, "Checking", "Ready", "Unhealthy"}

IsFailed(s) == s \in Failures

Work == Range(WorkPhases)

ASSUME WorkAssumption ==
    /\ WorkPhases \in Seq(DOMAIN PhaseClass)
    /\ \A i, j \in DOMAIN WorkPhases :
           WorkPhases[i] = WorkPhases[j] => i = j
    /\ \A p \in Work : PhaseClass[p] \notin
           {"paused", "delete", "dryRun", "cluster"}
    /\ "EnsureFinalizer" \notin Work

ASSUME BoundsAssumption ==
    /\ MaxEdits \in Nat
    /\ MaxFails \in Nat
    /\ MaxFaults \in Nat

\* FullPhasesRegisFunc and DeletePhases.
FullPhases ==
    {"EnsureFinalizer", "EnsurePaused", "EnsureDeleteOrReset", "EnsureDryRun",
     "EnsureCluster"} \cup Work

DeletePhases == {"EnsurePaused", "EnsureDeleteOrReset"}

\* The order of the phases, which is the same in both lists.
Place(p) ==
    CASE p = "EnsureFinalizer" -> 1
      [] p = "EnsurePaused" -> 2
      [] p = "EnsureDeleteOrReset" -> 3
      [] p = "EnsureDryRun" -> 4
      [] p \in Work -> 4 + (CHOOSE i \in DOMAIN WorkPhases : WorkPhases[i] = p)
      [] OTHER -> 5 + Len(WorkPhases)

First(S) == CHOOSE p \in S : \A q \in S : Place(p) <= Place(q)

VARIABLES
    obj,        \* the BKECluster on the API server
    todo,       \* the work phases that have something to do
    nodes,      \* does the cluster have BKENodes?
    suspended,  \* are the Commands of the cluster suspended?
    capi,       \* are the Cluster API objects paused?
    queue,      \* is the cluster in the controller's queue?
    run,        \* the memory of the reconcile
    rec,        \* the StatusRecord of the cluster
    wiped,      \* has the deletion removed everything but the object?
    starts,     \* work phases started since the cluster was paused or deleted
    fails,      \* failures of each status since the last retry
    edits,      \* number of edits of users
    faults      \* number of crashes and failing updates

vars == <<obj, todo, nodes, suspended, capi, queue, run, rec, wiped, starts,
          fails, edits, faults>>

Healths == {Blank, "Deploying", "DeployFailed", "Upgrading", "UpgradeFailed",
            "Deleting", "Healthy", "Unhealthy"}

Clusters ==
    [exists: BOOLEAN, pause: BOOLEAN, dryRun: BOOLEAN, deleting: BOOLEAN,
     pausedAnn: BOOLEAN, retry: BOOLEAN, record: BOOLEAN, fin: BOOLEAN,
     note: BOOLEAN, status: Statuses, health: Healths,
     reason: Healths, msg: Healths]

NewCluster ==
    [exists |-> TRUE, pause |-> FALSE, dryRun |-> FALSE, deleting |-> FALSE,
     pausedAnn |-> FALSE, retry |-> FALSE, record |-> FALSE, fin |-> FALSE,
     note |-> FALSE, status |-> Blank, health |-> Blank, reason |-> Blank, msg |-> Blank]

\* The points at which SyncStatusUntilComplete is called.
SyncPoints == {"initSync", "skipSync", "preSync", "pauseSync", "dryRunSync",
               "unpauseSync", "deletingSync", "eraseSync", "readySync",
               "postSync", "cleanSync", "noteSync"}

Points == SyncPoints \cup {"idle", "plan", "decide", "exec", "suspend",
                           "dryRun", "clear", "wipe", "recheck", "post",
                           "return", "finish"}

(***************************************************************************)
(* run.mem is PhaseContext.BKECluster; run.entry is the pointer that       *)
(* Reconcile holds, which is the same object until a PreHook replaces the  *)
(* one of the context (run.split); run.new is PhaseFlow.newBKECluster;     *)
(* run.left says that a phase to be deleted with was not selected.         *)
(***************************************************************************)
Idle == [at |-> "idle", patch |-> "none", merged |-> FALSE,
         mem |-> NewCluster, entry |-> NewCluster, new |-> NewCluster,
         plan |-> {}, left |-> FALSE, err |-> FALSE, again |-> FALSE,
         split |-> FALSE, watch |-> FALSE]

Runs ==
    [at: Points, patch: {"none", "retry", "pause", "resume", "unpause"},
     merged: BOOLEAN, mem: Clusters, entry: Clusters, new: Clusters,
     plan: SUBSET FullPhases, left: BOOLEAN, err: BOOLEAN, again: BOOLEAN,
     split: BOOLEAN, watch: BOOLEAN]

TypeOK ==
    /\ obj \in Clusters
    /\ todo \subseteq Work
    /\ {nodes, suspended, capi, queue, wiped} \subseteq BOOLEAN
    /\ run \in Runs
    /\ rec \in [failed: Failures \cup {Blank}, normal: Statuses \ Failures,
               count: 0..(Limit - 1), requeue: BOOLEAN]
    /\ starts \in Nat
    /\ fails \in [Failures -> Nat]
    /\ edits \in 0..MaxEdits
    /\ faults \in 0..MaxFaults

Init ==
    /\ obj = NewCluster
    /\ todo = {}
    /\ nodes = FALSE
    /\ suspended = FALSE
    /\ capi = FALSE
    /\ queue = TRUE
    /\ run = Idle
    /\ rec = EmptyRecord
    /\ wiped = FALSE
    /\ starts = 0
    /\ fails = [s \in Failures |-> 0]
    /\ edits = 0
    /\ faults = 0

-----------------------------------------------------------------------------
(***************************************************************************)
(* Users.  BKEClusterAnnotationsChange and BKEClusterSpecChange select the *)
(* updates that put the cluster in the queue.                              *)
(***************************************************************************)
\* mutant: every change is dropped while the cluster is deployed
TriggersNotDeleting(old, new) ==
    \/ new.retry /\ ~old.retry
    \/ old.pause # new.pause
    \/ /\ old.dryRun # new.dryRun \/ old.deleting # new.deleting
       /\ new.health # "Deploying"

Triggers(old, new) ==
    \/ new.retry /\ ~old.retry
    \/ /\ \/ old.pause # new.pause
          \/ old.dryRun # new.dryRun
          \/ old.deleting # new.deleting
       /\ \/ old.deleting \/ new.deleting
          \/ old.pause # new.pause
          \/ new.health # "Deploying"

Edit(new) ==
    /\ obj.exists
    /\ edits < MaxEdits
    /\ edits' = edits + 1
    /\ obj' = new
    /\ queue' = (queue \/ Triggers(obj, new))
    /\ UNCHANGED <<todo, nodes, suspended, capi, run, rec, wiped, fails,
                   faults>>

SetPause(b) ==
    /\ obj.pause # b
    /\ Edit([obj EXCEPT !.pause = b])
    /\ starts' = 0

SetDryRun(b) ==
    /\ obj.dryRun # b
    /\ Edit([obj EXCEPT !.dryRun = b])
    /\ UNCHANGED starts

DeleteCluster ==
    /\ ~obj.deleting
    /\ Edit([obj EXCEPT !.deleting = TRUE, !.exists = obj.fin])
    /\ starts' = 0

AskRetry ==
    /\ ~obj.retry
    /\ Edit([obj EXCEPT !.retry = TRUE])
    /\ UNCHANGED starts

\* A change of the spec that gives a phase something to do.
SpecChange(p) ==
    /\ obj.exists /\ nodes
    /\ edits < MaxEdits
    /\ p \notin todo
    /\ edits' = edits + 1
    /\ todo' = todo \cup {p}
    /\ queue' = (queue \/ obj.health # "Deploying" \/ obj.deleting)
    /\ UNCHANGED <<obj, nodes, suspended, capi, run, rec, wiped, starts,
                   fails, faults>>

\* A BKENode is created or changed (BKENodeChange).
NodeChange(p) ==
    /\ obj.exists
    /\ edits < MaxEdits
    /\ p \notin todo
    /\ edits' = edits + 1
    /\ nodes' = TRUE
    /\ todo' = todo \cup {p}
    /\ queue' = TRUE
    /\ UNCHANGED <<obj, suspended, capi, run, rec, wiped, starts, fails,
                   faults>>

-----------------------------------------------------------------------------
(***************************************************************************)
(* The start of Reconcile: getAndValidateCluster and initNodeStatus.       *)
(***************************************************************************)
MarkHealth(c, h) == [c EXCEPT !.health = h, !.reason = h, !.msg = Blank]

IsTerminalUpgradeFailure(c) ==
    c.health = "UpgradeFailed" \/ c.msg = "UpgradeFailed"

DeployFlag(c) ==
    \/ ~nodes
    \/ c.reason = "Deploying" /\ c.msg = "DeployFailed"

UpgradeFlag(c) ==
    \/ \E p \in todo : PhaseClass[p] = "upgrade"
    \/ c.reason = "Upgrading" /\ c.msg = "UpgradeFailed"

\* setClusterHealthStatus.
SetHealth(c) ==
    LET a == IF DeployFlag(c) THEN MarkHealth(c, "Deploying") ELSE c
        b == IF ~UpgradeFlag(c) THEN a
             ELSE IF IsTerminalUpgradeFailure(a)
                  THEN [a EXCEPT !.health = "UpgradeFailed"]
                  ELSE MarkHealth(a, "Upgrading")
    IN  IF c.deleting THEN MarkHealth(b, "Deleting") ELSE b

Begin ==
    /\ run.at = "idle"
    /\ queue
    /\ queue' = FALSE
    /\ IF ~obj.exists
       THEN UNCHANGED <<run, rec, wiped>>
       ELSE LET c == SetHealth(obj)
            IN  /\ \E nodeChange \in BOOLEAN :
                   run' = [Idle EXCEPT !.mem = c, !.entry = c,
                              !.at = IF \/ DeployFlag(obj)
                                        \/ UpgradeFlag(obj)
                                        \/ obj.retry \/ nodeChange
                                     THEN "initSync" ELSE "plan",
                              !.patch = IF obj.retry THEN "retry"
                                        ELSE "none"]
                /\ rec' = IF obj.retry THEN EmptyRecord ELSE rec
    /\ UNCHANGED <<obj, todo, nodes, suspended, capi, wiped, starts, fails,
                   edits, faults>>

-----------------------------------------------------------------------------
(***************************************************************************)
(* SyncStatusUntilComplete.  SyncMerge is prepareClusterData and           *)
(* handleExternalUpdates: the patch functions are applied to the object    *)
(* that was read and to the one in memory, and what users changed is       *)
(* merged into memory.  The merge decodes JSON into the existing object,   *)
(* which cannot clear a field that the encoding omits when it is empty     *)
(* (dryRun), nor remove an annotation; it leaves the status alone and      *)
(* does not see a deletion.                                                *)
(***************************************************************************)
ApplyPatch(c) ==
    CASE run.patch = "retry" ->
             [c EXCEPT !.retry = FALSE, !.status = "Checking", !.note = FALSE]
      [] run.patch = "pause" -> [c EXCEPT !.pausedAnn = TRUE]
      [] run.patch = "resume" -> [c EXCEPT !.pausedAnn = FALSE]
      [] run.patch = "unpause" -> [c EXCEPT !.pause = FALSE]
      [] OTHER -> c

\* mutant: spec.pause is left as the phase knows it
MergeWithoutPause(m, fresh) ==
    [m EXCEPT !.dryRun = m.dryRun \/ fresh.dryRun,
              !.pausedAnn = m.pausedAnn \/ fresh.pausedAnn,
              !.retry = m.retry \/ fresh.retry]

Merge(m, fresh) ==
    [m EXCEPT !.pause = fresh.pause,
              !.dryRun = m.dryRun \/ fresh.dryRun,
              !.pausedAnn = m.pausedAnn \/ fresh.pausedAnn,
              !.retry = m.retry \/ fresh.retry]

SyncMerge ==
    /\ run.at \in SyncPoints
    /\ ~run.merged
    /\ obj.exists
    /\ run' = [run EXCEPT !.merged = TRUE,
                          !.mem = Merge(ApplyPatch(run.mem), ApplyPatch(obj))]
    /\ UNCHANGED <<obj, todo, nodes, suspended, capi, queue, rec, wiped,
                   starts, fails, edits, faults>>

\* The status recorder sees a status that the PostHook marked.
Recorded(m) == RecordCluster(rec, m.status, IsFailed(m.status),
                             m.status = "Paused")

FailedHealth(h) ==
    CASE h = "Deploying" -> "DeployFailed"
      [] h = "Upgrading" -> "UpgradeFailed"
      [] OTHER -> h

\* SetStatus, as recordBKEClusterStatus changes the object.
SetStatus(m) ==
    IF ~m.record THEN m
    ELSE LET s == [m EXCEPT !.record = FALSE, !.status = Recorded(m).status]
         IN  IF ~Recorded(m).spent \/ m.health \in {"Healthy", "Unhealthy"}
             THEN s
             ELSE [s EXCEPT !.health = FailedHealth(m.health),
                            !.msg = IF m.reason = Blank THEN Blank
                                    ELSE IF FailedHealth(m.health) = m.health
                                         THEN Blank ELSE FailedHealth(m.health)]

\* Patch of the BKECluster: everything but the deletion mark is written.
Persist(m) ==
    [m EXCEPT !.deleting = obj.deleting,
              !.exists = ~obj.deleting \/ m.fin]

\* Where the reconcile goes on after a synchronisation.
Reports == {"skipSync", "preSync", "readySync", "postSync", "cleanSync",
            "noteSync"}

\* cleanupUnexecutedPhases, deferred by executePhases.
EndOfFlow(r) ==
    [r EXCEPT !.at = IF r.left \/ Cardinality(r.plan) > 1 THEN "cleanSync"
                     ELSE "return"]

AfterSync(r) ==
    LET s == [r EXCEPT !.patch = "none", !.merged = FALSE]
    IN  CASE r.at = "initSync" -> [s EXCEPT !.at = "plan", !.entry = s.mem]
          [] r.at = "skipSync" -> [s EXCEPT !.at = "decide",
                                            !.plan = @ \ {First(@)}]
          [] r.at = "preSync" -> [s EXCEPT !.at = "exec"]
          [] r.at = "pauseSync" -> [s EXCEPT !.at = "suspend"]
          [] r.at = "dryRunSync" -> [s EXCEPT !.at = "dryRun"]
          [] r.at = "unpauseSync" -> [s EXCEPT !.at = "clear"]
          [] r.at = "deletingSync" -> [s EXCEPT !.at = "wipe"]
          [] r.at = "eraseSync" -> [s EXCEPT !.at = "post"]
          [] r.at = "readySync" -> [s EXCEPT !.at = "recheck"]
          [] r.at = "postSync" /\ s.err -> EndOfFlow([s EXCEPT !.new = s.mem])
          [] r.at = "postSync" /\ ~s.err ->
                 [s EXCEPT !.new = s.mem, !.plan = @ \ {First(@)},
                           !.at = "decide"]
          [] r.at = "cleanSync" -> [s EXCEPT !.at = "return"]
          [] r.at = "noteSync" -> [s EXCEPT !.at = "finish"]

SyncWrite ==
    /\ run.at \in SyncPoints
    /\ run.merged
    /\ obj.exists
    /\ LET m == SetStatus(run.mem)
       IN  /\ obj' = Persist(m)
           /\ queue' = (queue \/ Triggers(obj, Persist(m)))
           /\ run' = AfterSync([run EXCEPT !.mem = m])
           /\ rec' = IF run.at = "eraseSync" THEN EmptyRecord
                     ELSE IF run.mem.record THEN Recorded(run.mem).rec
                     ELSE rec
    /\ fails' = IF run.patch = "retry" THEN [s \in Failures |-> 0] ELSE fails
    /\ UNCHANGED <<todo, nodes, suspended, capi, wiped, starts, edits,
                   faults>>

\* A cluster that no longer exists is skipped.
SyncGone ==
    /\ run.at \in SyncPoints
    /\ ~obj.exists
    /\ run' = AfterSync(run)
    /\ rec' = IF run.at = "eraseSync" THEN EmptyRecord ELSE rec
    /\ UNCHANGED <<obj, todo, nodes, suspended, capi, wiped, queue, starts,
                   fails, edits, faults>>

(***************************************************************************)
(* The reads or the update fail until the two minutes are over.  Report    *)
(* ignores it, the others return the error; a status that was about to be  *)
(* written has been recorded all the same.                                 *)
(***************************************************************************)
SyncTimeout ==
    /\ run.at \in SyncPoints
    /\ obj.exists
    /\ faults < MaxFaults
    /\ faults' = faults + 1
    /\ LET m == IF run.merged THEN SetStatus(run.mem) ELSE run.mem
           s == [run EXCEPT !.mem = m, !.patch = "none", !.merged = FALSE,
                            !.err = TRUE]
       IN  run' = CASE run.at \in Reports -> AfterSync([run EXCEPT !.mem = m])
                    [] run.at = "initSync" -> [s EXCEPT !.at = "finish",
                                                        !.entry = NewCluster]
                    [] OTHER -> [s EXCEPT !.at = "post"]
    /\ rec' = IF run.merged /\ run.mem.record THEN Recorded(run.mem).rec
              ELSE rec
    /\ UNCHANGED <<obj, todo, nodes, suspended, capi, wiped, queue, starts,
                   fails, edits>>

-----------------------------------------------------------------------------
(***************************************************************************)
(* PhaseFlow: CalculatePhase and executePhases.                            *)
(***************************************************************************)
\* mutant: a paused cluster is not left alone
NeedExecuteWhenPaused(c) == ~c.deleting /\ ~c.dryRun /\ ~IsFailed(c.status)

CheckCommonNeedExecute(c) ==
    ~c.deleting /\ ~c.pause /\ ~c.dryRun /\ ~IsFailed(c.status)

NeedExecute(p, c) ==
    CASE p = "EnsureFinalizer" -> ~c.fin
      [] p = "EnsurePaused" -> c.pause # run.mem.pausedAnn
      [] p = "EnsureDeleteOrReset" -> c.deleting
      [] p = "EnsureDryRun" -> ~c.deleting /\ ~c.pause /\ c.dryRun
      [] p = "EnsureCluster" -> CheckCommonNeedExecute(c)
      [] OTHER -> CheckCommonNeedExecute(c) /\ p \in todo

\* shouldSkipLegacyUpgrade and isLegacyClusterUpgradePhase.
SkipLegacyUpgrade(p) ==
    /\ IsTerminalUpgradeFailure(run.mem)
    /\ PhaseClass[p] \in {"upgrade", "selfUpgrade"}

CalculatePhase ==
    /\ run.at = "plan"
    /\ LET Needed(p) == ~SkipLegacyUpgrade(p) /\ NeedExecute(p, run.mem)
           flow == IF run.mem.deleting THEN DeletePhases ELSE FullPhases
       IN  run' = [run EXCEPT !.at = "decide", !.new = run.mem,
                              !.plan = {p \in flow : Needed(p)},
                              !.left = /\ run.mem.deleting
                                       /\ ~Needed("EnsurePaused"),
                              !.watch = TRUE]
    /\ UNCHANGED <<obj, todo, nodes, suspended, capi, queue, rec, wiped,
                   starts, fails, edits, faults>>

(***************************************************************************)
(* WatchBKEClusterStatus, which looks once: a cluster found deleted is     *)
(* marked so.  Cancelling the context does not stop the reads, which the   *)
(* cache answers.                                                          *)
(***************************************************************************)
WatchStatus ==
    /\ run.watch
    /\ ~run.merged
    /\ IF run.mem.deleting /\ run.mem.status # "Deleting"
       THEN LET m == [run.mem EXCEPT !.status = "Deleting"]
                w == IF obj.exists THEN SetStatus(Merge(m, obj)) ELSE m
            IN  /\ run' = [run EXCEPT !.watch = FALSE, !.mem = w,
                                      !.entry = IF run.split THEN run.entry
                                                ELSE w]
                /\ obj' = IF obj.exists THEN Persist(w) ELSE obj
                /\ rec' = IF obj.exists /\ m.record THEN Recorded(m).rec
                          ELSE rec
       ELSE /\ run' = [run EXCEPT !.watch = FALSE]
            /\ UNCHANGED <<obj, rec>>
    /\ UNCHANGED <<todo, nodes, suspended, capi, queue, wiped, starts, fails,
                   edits, faults>>

Phase == First(run.plan)

PhaseSkipped ==
    /\ run.at = "decide"
    /\ run.plan # {}
    /\ ~NeedExecute(Phase, run.new)
    /\ run' = [run EXCEPT !.at = "skipSync"]
    /\ UNCHANGED <<obj, todo, nodes, suspended, capi, queue, rec, wiped,
                   starts, fails, edits, faults>>

\* DefaultPreHook: the object is read again, the status set and reported.
ExecutePreHook ==
    /\ run.at = "decide"
    /\ run.plan # {}
    /\ NeedExecute(Phase, run.new)
    /\ IF ~obj.exists
       THEN /\ run' = EndOfFlow([run EXCEPT !.err = TRUE])
            /\ UNCHANGED starts
       ELSE LET s == IF Phase = "EnsureCluster" THEN "Checking"
                     ELSE ClassStatus[PhaseClass[Phase]][1]
            IN  /\ run' = [run EXCEPT !.at = "preSync", !.split = TRUE,
                                      !.mem = [obj EXCEPT !.status = s]]
                /\ starts' = IF Phase \in Work THEN starts + 1 ELSE starts
    /\ UNCHANGED <<obj, todo, nodes, suspended, capi, queue, rec, wiped,
                   fails, edits, faults>>

FlowDone ==
    /\ run.at = "decide"
    /\ run.plan = {}
    /\ run' = EndOfFlow(run)
    /\ UNCHANGED <<obj, todo, nodes, suspended, capi, queue, rec, wiped,
                   starts, fails, edits, faults>>

-----------------------------------------------------------------------------
(***************************************************************************)
(* Execute of the phases.                                                  *)
(***************************************************************************)
TotalFails == FoldFunction(+, 0, fails)
MayFail == TotalFails < MaxFails

FailPhase ==
    /\ MayFail
    /\ run' = [run EXCEPT !.at = "post", !.err = TRUE]
    /\ UNCHANGED <<obj, todo, nodes, suspended, capi, queue, rec, wiped,
                   starts, fails, edits, faults>>

ExecuteFinalizer ==
    /\ run.at = "exec" /\ Phase = "EnsureFinalizer"
    /\ run' = [run EXCEPT !.at = "post", !.mem.fin = TRUE]
    /\ UNCHANGED <<obj, todo, nodes, suspended, capi, queue, rec, wiped,
                   starts, fails, edits, faults>>

ExecuteWork ==
    /\ run.at = "exec" /\ Phase \in Work
    /\ \/ /\ todo' = todo \ {Phase}
          /\ run' = [run EXCEPT !.at = "post"]
          /\ UNCHANGED <<obj, nodes, suspended, capi, queue, rec, wiped,
                         starts, fails, edits, faults>>
       \/ FailPhase

(***************************************************************************)
(* reconcilePause: the annotation, then the Commands, then Cluster API.  A *)
(* Command that cannot be updated is passed over; a cluster that was       *)
(* scaling or upgrading does not resume Cluster API.                       *)
(***************************************************************************)
ExecutePaused ==
    /\ run.at = "exec" /\ Phase = "EnsurePaused"
    /\ run' = [run EXCEPT !.at = "pauseSync",
                          !.patch = IF run.mem.pause THEN "pause"
                                    ELSE "resume"]
    /\ UNCHANGED <<obj, todo, nodes, suspended, capi, queue, rec, wiped,
                   starts, fails, edits, faults>>

PauseOrResume ==
    /\ run.at = "suspend"
    /\ \/ /\ suspended' = run.mem.pause
          /\ UNCHANGED faults
       \/ /\ faults < MaxFaults
          /\ faults' = faults + 1
          /\ UNCHANGED suspended
    /\ \/ /\ capi' \in IF run.mem.pause THEN {TRUE} ELSE {FALSE, capi}
          /\ run' = [run EXCEPT !.at = "post"]
       \/ /\ MayFail
          /\ run' = [run EXCEPT !.at = "post", !.err = TRUE]
          /\ UNCHANGED capi
    /\ UNCHANGED <<obj, todo, nodes, queue, rec, wiped, starts, fails, edits>>

\* reconcileDryRun: the nodes are noted, then checked.
ExecuteDryRun ==
    /\ run.at = "exec" /\ Phase = "EnsureDryRun"
    /\ run' = [run EXCEPT !.at = IF run.mem.dryRun THEN "dryRunSync"
                                 ELSE "post"]
    /\ UNCHANGED <<obj, todo, nodes, suspended, capi, queue, rec, wiped,
                   starts, fails, edits, faults>>

CheckDryRun ==
    /\ run.at = "dryRun"
    /\ \/ /\ run' = [run EXCEPT !.at = "post"]
          /\ UNCHANGED <<obj, todo, nodes, suspended, capi, queue, rec, wiped,
                         starts, fails, edits, faults>>
       \/ FailPhase

\* A paused cluster is resumed first; its Commands are removed.
ExecuteDelete ==
    /\ run.at = "exec" /\ Phase = "EnsureDeleteOrReset"
    /\ run' = IF run.mem.pause
              THEN [run EXCEPT !.at = "unpauseSync", !.patch = "unpause"]
              ELSE [run EXCEPT !.at = "deletingSync",
                               !.mem.status = "Deleting"]
    /\ UNCHANGED <<obj, todo, nodes, suspended, capi, queue, rec, wiped,
                   starts, fails, edits, faults>>

RemoveCommands ==
    /\ run.at = "clear"
    /\ IF obj.exists
       THEN /\ suspended' = FALSE
            /\ run' = [run EXCEPT !.at = "post", !.again = TRUE, !.mem = obj]
       ELSE /\ run' = [run EXCEPT !.at = "post", !.err = TRUE]
            /\ UNCHANGED suspended
    /\ UNCHANGED <<obj, todo, nodes, capi, queue, rec, wiped, starts, fails,
                   edits, faults>>

\* mutant: the finalizer is removed from the copy in memory first
WipeWithoutFinalizer ==
    /\ run.at = "wipe"
    /\ run' \in {[run EXCEPT !.at = "eraseSync", !.mem.fin = FALSE],
                 [run EXCEPT !.at = "post", !.err = TRUE, !.mem.fin = FALSE]}
    /\ wiped' = (run'.at = "eraseSync")
    /\ todo' = IF wiped' THEN {} ELSE todo
    /\ run'.err => MayFail
    /\ UNCHANGED <<obj, nodes, suspended, capi, queue, rec, starts, fails,
                   edits, faults>>

\* Machines, secrets, Commands, agents and nodes; then the finalizer.
Wipe ==
    /\ run.at = "wipe"
    /\ \/ /\ run' = [run EXCEPT !.at = "eraseSync", !.mem.fin = FALSE]
          /\ todo' = {}
          /\ wiped' = TRUE
          /\ UNCHANGED <<obj, nodes, suspended, capi, queue, rec, starts,
                         fails, edits, faults>>
       \/ FailPhase

(***************************************************************************)
(* EnsureCluster: an error, of which no status is made; a check that is    *)
(* put off; an unhealthy cluster; or a healthy one, which is reported and  *)
(* checked again.                                                          *)
(***************************************************************************)
Unhealthy ==
    [run EXCEPT !.at = "post", !.again = TRUE, !.mem.status = "Unhealthy",
                !.mem.health = "Unhealthy"]

ExecuteCluster ==
    /\ run.at = "exec" /\ Phase = "EnsureCluster"
    /\ run' \in {[run EXCEPT !.at = "post", !.err = TRUE]} \cup
                 (IF ~nodes THEN {}
                  ELSE {Unhealthy,
                        [run EXCEPT !.at = "post", !.again = TRUE],
                        [run EXCEPT !.at = "readySync", !.again = TRUE,
                                    !.mem.status = "Ready",
                                    !.mem.health = "Healthy"]})
    /\ UNCHANGED <<obj, todo, nodes, suspended, capi, queue, rec, wiped,
                   starts, fails, edits, faults>>

Recheck ==
    /\ run.at = "recheck"
    /\ run' \in {Unhealthy, [run EXCEPT !.at = "post"]}
    /\ UNCHANGED <<obj, todo, nodes, suspended, capi, queue, rec, wiped,
                   starts, fails, edits, faults>>

\* calculatingClusterPostStatusByPhase; Unknown is not recorded.
ExecutePostHook ==
    /\ run.at = "post"
    /\ LET s == IF Phase = "EnsureCluster" THEN run.mem.status
                ELSE ClassStatus[PhaseClass[Phase]][IF run.err THEN 2 ELSE 1]
       IN  /\ run' = [run EXCEPT !.at = "postSync", !.mem.status = s,
                                 !.mem.record = s # "Unknown"]
           /\ fails' = IF IsFailed(s) THEN [fails EXCEPT ![s] = @ + 1]
                       ELSE fails
    /\ UNCHANGED <<obj, todo, nodes, suspended, capi, queue, rec, wiped,
                   starts, edits, faults>>

-----------------------------------------------------------------------------
(***************************************************************************)
(* The end of Reconcile: checkAndNotifyManualIntervention looks at the     *)
(* entry object, and persists it; then the error or getFinalResult.        *)
(***************************************************************************)
NotifyIntervention ==
    /\ run.at = "return"
    /\ run' = IF IsFailed(run.entry.status) /\ ~run.entry.note
              THEN [run EXCEPT !.at = "noteSync",
                               !.mem = [run.entry EXCEPT !.note = TRUE]]
              ELSE [run EXCEPT !.at = "finish"]
    /\ UNCHANGED <<obj, todo, nodes, suspended, capi, queue, rec, wiped,
                   starts, fails, edits, faults>>

\* mutant: a failed flow is left to the retry budget
FinishWithoutError ==
    /\ run.at = "finish"
    /\ run' = Idle
    /\ queue' = (queue \/ (obj.exists /\ ~run.err /\ run.again))
    /\ UNCHANGED <<obj, todo, nodes, suspended, capi, rec, wiped, starts,
                   fails, edits, faults>>

Finish ==
    /\ run.at = "finish"
    /\ run' = Idle
    /\ queue' = (queue \/ IF run.err THEN ~IsFailed(run.entry.status)
                          ELSE obj.exists /\ (\/ run.again
                                              \/ /\ obj.status # "Paused"
                                                 /\ rec.requeue))
    /\ UNCHANGED <<obj, todo, nodes, suspended, capi, rec, wiped, starts,
                   fails, edits, faults>>

\* The manager is restarted: every cluster is listed and queued.
Crash ==
    /\ faults < MaxFaults
    /\ faults' = faults + 1
    /\ run' = Idle
    /\ rec' = EmptyRecord
    /\ queue' = TRUE
    /\ UNCHANGED <<obj, todo, nodes, suspended, capi, wiped, starts, fails,
                   edits>>

Reconcile ==
    \/ Begin \/ SyncMerge \/ SyncWrite \/ SyncGone
    \/ CalculatePhase \/ PhaseSkipped \/ ExecutePreHook \/ FlowDone
    \/ ExecuteFinalizer \/ ExecuteWork \/ ExecutePaused \/ PauseOrResume
    \/ ExecuteDryRun \/ CheckDryRun
    \/ ExecuteDelete \/ RemoveCommands \/ Wipe
    \/ ExecuteCluster \/ Recheck
    \/ ExecutePostHook \/ NotifyIntervention \/ Finish

User ==
    \/ \E b \in BOOLEAN : SetPause(b) \/ SetDryRun(b)
    \/ DeleteCluster \/ AskRetry
    \/ \E p \in Work : SpecChange(p) \/ NodeChange(p)

Next == Reconcile \/ WatchStatus \/ SyncTimeout \/ Crash \/ User

Spec == Init /\ [][Next]_vars

\* The controller's worker goes on with what it has; nobody else must act.
FairSpec == Spec /\ WF_vars(Reconcile)
-----------------------------------------------------------------------------
(***************************************************************************)
(* A failed cluster status is shown only after as many failures of that    *)
(* kind as the budget allows: whatever crashes, timeouts and edits come    *)
(* between, recordBKEClusterStatus hides the earlier ones.                 *)
(***************************************************************************)
FailedMeansExhausted == IsFailed(obj.status) => fails[obj.status] >= Limit

(***************************************************************************)
(* After the cluster is paused, or deleted, at most one phase is started:  *)
(* the flow decides with the object of the last PostHook, but a PreHook    *)
(* reads it again, and no write undoes what users asked for with more work *)
(* begun than that.                                                        *)
(***************************************************************************)
PauseStopsWork == obj.pause \/ obj.deleting => starts <= 1

(***************************************************************************)
(* The finalizer goes only after the machines, Commands, agents and nodes  *)
(* are gone, although every write takes the finalizers of some copy in     *)
(* memory, the entry object of checkAndNotifyManualIntervention included.  *)
(* That object can be older than the finalizer: when its addition is       *)
(* refused until the budget is spent, so that a failed status shows, the   *)
(* next reconcile adds it and the notice takes it away again (:274). The   *)
(* property is checked and proved for MaxFaults < Limit.                   *)
(***************************************************************************)
FinalizerKept == [][obj.fin /\ ~obj'.fin => wiped]_vars

(***************************************************************************)
(* What users ask for comes about, or the cluster shows that it has failed *)
(* or that somebody must intervene, whatever crashes, refused updates and  *)
(* filtered events come between.                                           *)
(***************************************************************************)
Troubled == obj.note \/ IsFailed(obj.status)

\* The last thing users ask for is a pause, and no write that began before it is
\* under way.
PauseAsked == edits = MaxEdits /\ obj.pause /\ ~run.merged

(***************************************************************************)
(* The pause annotation comes to say what spec.pause says.  That alone     *)
(* would also be true if a status sync wrote an old spec.pause back, so    *)
(* a last request to pause is followed too: no merge with older copies     *)
(* undoes it before the annotation says the same.  A pause between the two *)
(* reads of a sync (SyncMerge, SyncWrite) is not covered: the sync writes  *)
(* FALSE back, which is a defect of the code.                              *)
(***************************************************************************)
PauseConverges ==
    /\ <>[](obj.exists /\ ~obj.deleting => obj.pausedAnn = obj.pause \/ Troubled)
    /\ PauseAsked ~> (\/ obj.pause /\ obj.pausedAnn
                      \/ ~obj.exists \/ obj.deleting \/ Troubled)

\* A deleted cluster goes.
DeletionEnds == <>[](obj.deleting => ~obj.exists \/ Troubled)

(***************************************************************************)
(* Phases with something to do are run.  A legacy upgrade that has used up *)
(* its budget is left out: the retry annotation does not resume it.        *)
(***************************************************************************)
Held == ~obj.exists \/ obj.deleting \/ obj.pause \/ obj.dryRun \/ Troubled

WorkGetsDone == <>[](todo = {} \/ Held \/ IsTerminalUpgradeFailure(obj))
=============================================================================
