------------------------------- MODULE DagExec ------------------------------
(***************************************************************************)
(* One hop of a declarative upgrade: executeUpgradeDAG of the BKECluster   *)
(* controller and the batch scheduler of pkg/dagexec.  A reconcile makes a *)
(* pass over the batches of the DAG; within a batch the components run in  *)
(* parallel workers; what they did is recorded in the status of the        *)
(* BKECluster by merge patches that are computed from the informer cache.  *)
(* The controller may crash at any step, or be told to shut down, and the  *)
(* next process starts over from what was recorded.                        *)
(*                                                                         *)
(* Components are numbered in the order of their names, in which the code  *)
(* sorts a batch.  A component has one version per hop, so the name stands *)
(* for the name and version of a completion record.                        *)
(***************************************************************************)
EXTENDS Naturals, FiniteSets, Sequences

CONSTANTS
    Components,   \* the nodes of the upgrade DAG
    Prereqs,      \* for a component, the components it depends on
    Batches,      \* the result of UpgradeDAG.TopologicalBatches
    Unneeded,     \* components whose current version is the target version
    Registry,     \* components that a registered executor runs
    FailFast,     \* components with that FailurePolicy; the others: Continue
    MaxParallel,  \* Scheduler.MaxParallelPerBatch
    None,         \* no component
    InformerLag,  \* may the informer cache be behind the API server?
    Shutdowns,    \* may the manager be told to shut down?
    MaxFaults,    \* bound on failing components and failing API calls
    MaxCrashes    \* bound on restarts of the controller

ASSUME ComponentsAssumption ==
    /\ Components \subseteq Nat
    /\ None \notin Components
    /\ Prereqs \in [Components -> SUBSET Components]
    /\ Unneeded \subseteq Components
    /\ Registry \subseteq Components
    /\ FailFast \subseteq Components
    /\ MaxParallel \in Nat \ {0}

\* What Topology shows of TopologicalBatches (BatchesFitTheScheduler proves it).
ASSUME BatchesAssumption ==
    /\ Batches \in Seq(SUBSET Components)
    /\ Batches # <<>>
    /\ \A c \in Components : \E k \in DOMAIN Batches : c \in Batches[k]
    /\ \A k \in DOMAIN Batches : \A c \in Batches[k] : \A p \in Prereqs[c] :
           \E j \in DOMAIN Batches : j < k /\ p \in Batches[j]

ASSUME BoundsAssumption ==
    /\ InformerLag \in BOOLEAN
    /\ Shutdowns \in BOOLEAN
    /\ MaxFaults \in Nat
    /\ MaxCrashes \in Nat

VARIABLES
    pc,         \* where the reconcile is
    batch,      \* the index of the current batch
    todo,       \* the components that the current loop has still to visit
    items,      \* the work items of the current batch
    worker,     \* the state of each item's goroutine
    cancelled,  \* errgroup has cancelled the context of the batch
    errs,       \* ExecuteDAG has collected an error
    stop,       \* failFastStop
    stopping,   \* the context of the reconcile is cancelled: shutdown
    mem,        \* the declarativeUpgrade status held in memory
    api,        \* the status of the BKECluster in the API server
    cache,      \* the copy of it in the informer cache
    passed,     \* history: components that ran without an error in this hop
    faults,     \* faults so far
    crashes     \* crashes so far

pass == <<pc, batch, todo, items, errs, stop>>
run  == <<worker, cancelled>>
env  == <<passed, faults, crashes>>
vars == <<pass, run, mem, api, cache, stopping, env>>

\* The loops visit the components in the order of their names.
First(c) == c \in todo /\ \A d \in todo : c <= d

-----------------------------------------------------------------------------
(***************************************************************************)
(* Status.DeclarativeUpgrade and Status.ClusterComponentStatuses.          *)
(***************************************************************************)
\* The target is "none" when the status is unset, "old" when it is left over
\* from an earlier hop (whose records are of other versions), or "hop".
NoProgress == [target |-> "none", completed |-> {}, failure |-> None,
               finished |-> FALSE]
OldProgress == [NoProgress EXCEPT !.target = "old", !.finished = TRUE]

Progress == [target : {"none", "old", "hop"}, completed : SUBSET Components,
             failure : Components \cup {None}, finished : BOOLEAN]

\* Mutant of EnsureInitialized: every pass starts over.
ResetsAlways(du) == [NoProgress EXCEPT !.target = "hop"]

\* DeclarativeUpgradeStatus.EnsureInitialized and ResetForTarget.
EnsureInitialized(du) ==
    IF du.target = "hop"
    THEN [du EXCEPT !.finished = FALSE]
    ELSE [NoProgress EXCEPT !.target = "hop"]

MarkFailure(du, c) == [du EXCEPT !.failure = c]

\* The update of markComponentsCompleted: MarkCompleted for each component,
\* then ClearFailure.
MarkCompleted(du, S) ==
    [du EXCEPT !.completed = @ \cup S, !.failure = None]

LifecyclePhases == {"none", "Pending", "Installed", "Failed"}

\* A merge patch holds the fields in which new differs from orig, and the API
\* server sets just those; a list is one field.
Patched(base, orig, new) == IF new # orig THEN new ELSE base

MergePatch(base, orig, new) ==
    [target    |-> Patched(base.target, orig.target, new.target),
     completed |-> Patched(base.completed, orig.completed, new.completed),
     failure   |-> Patched(base.failure, orig.failure, new.failure),
     finished  |-> Patched(base.finished, orig.finished, new.finished)]

\* After a write the informer cache follows at once, or lags.
CacheFollows == cache' = IF InformerLag THEN cache ELSE api'

\* An API call fails when the context is cancelled, or by a fault.
CallFails ==
    \/ stopping /\ UNCHANGED faults
    \/ ~stopping /\ faults < MaxFaults /\ faults' = faults + 1

\* Mutant of CallSucceeds: the calls do not carry the context.
IgnoresContext == UNCHANGED faults

CallSucceeds == ~stopping /\ UNCHANGED faults

(***************************************************************************)
(* patchDeclarativeUpgrade returns nil: it has read the cluster from the   *)
(* cache, changed it to new, sent the difference, and kept the answer of   *)
(* the API server in memory.  With the cached status unset it does         *)
(* nothing.                                                                *)
(***************************************************************************)
PatchProgress(new) ==
    \/ /\ cache.du.target = "none"
       /\ UNCHANGED <<api, mem, cache, faults>>
    \/ /\ cache.du.target # "none"
       /\ CallSucceeds
       /\ api' = [api EXCEPT !.du = MergePatch(api.du, cache.du, new)]
       /\ mem' = api'.du
       /\ CacheFollows

\* patchDeclarativeUpgrade returns an error.
PatchProgressFails ==
    /\ cache.du.target # "none"
    /\ CallFails
    /\ UNCHANGED <<api, mem, cache>>

\* BKEComponentStatusUpdater.patch for one key of ClusterComponentStatuses.
PatchLife(c, phase) ==
    /\ CallSucceeds
    /\ api' = [api EXCEPT !.life[c] = Patched(@, cache.life[c], phase)]
    /\ CacheFollows

PatchLifeFails == CallFails /\ UNCHANGED <<api, cache>>

-----------------------------------------------------------------------------
IdleWorkers == [c \in Components |-> "none"]

Init ==
    /\ pc = "idle"
    /\ batch = 1
    /\ todo = {}
    /\ items = {}
    /\ worker = IdleWorkers
    /\ cancelled = FALSE
    /\ errs = FALSE
    /\ stop = FALSE
    /\ stopping = FALSE
    /\ mem = NoProgress
    /\ \E du \in {NoProgress, OldProgress} :
           api = [du |-> du, life |-> [c \in Components |-> "none"]]
    /\ cache = api
    /\ passed = {}
    /\ faults = 0
    /\ crashes = 0

Active == pc \notin {"idle", "done", "aborted"}

(***************************************************************************)
(* A reconcile finds the upgrade-ready annotation and starts a pass:       *)
(* ensureDeclarativeUpgradeProgress, which is written whatever happens to  *)
(* the context, then the first batch, unless the client of the target      *)
(* cluster cannot be made and the reconcile is queued again.               *)
(***************************************************************************)
BeginPass ==
    /\ pc = "idle"
    /\ ~stopping
    /\ LET du == EnsureInitialized(cache.du)
       IN  /\ api' = [api EXCEPT !.du = MergePatch(api.du, cache.du, du)]
           /\ mem' = du
    /\ CacheFollows
    /\ \/ /\ pc' = "prepare"
          /\ todo' = Batches[1]
          /\ UNCHANGED faults
       \/ /\ faults < MaxFaults
          /\ faults' = faults + 1
          /\ UNCHANGED <<pc, todo>>
    /\ batch' = 1
    /\ items' = {}
    /\ errs' = FALSE
    /\ stop' = FALSE
    /\ UNCHANGED <<worker, cancelled, stopping, passed, crashes>>

\* The lifecycle status could not be set to Pending: under FailFast the pass
\* ends here, otherwise the component is left out.
PendingFailed(c) ==
    /\ errs' = TRUE
    /\ UNCHANGED items
    /\ IF c \in FailFast
       THEN pc' = "failed" /\ todo' = {}
       ELSE UNCHANGED pc /\ todo' = todo \ {c}

\* Mutant of Skipped: the completion records are not looked at.
ForgetsCompleted(c) == c \in Unneeded

\* shouldSkipComponent and componentNeedsUpgrade.
Skipped(c) == c \in mem.completed \/ c \in Unneeded

(***************************************************************************)
(* The first loop of executeBatchParallel, for one component: skip it, or  *)
(* make it a work item, once its lifecycle status says Pending if an       *)
(* executor of the registry runs it.                                       *)
(***************************************************************************)
Prepare(c) ==
    /\ pc = "prepare"
    /\ First(c)
    /\ \/ /\ Skipped(c)
          /\ todo' = todo \ {c}
          /\ UNCHANGED <<pc, batch, items, errs, stop, api, cache, faults>>
       \/ /\ ~Skipped(c)
          /\ c \notin Registry
          /\ todo' = todo \ {c}
          /\ items' = items \cup {c}
          /\ UNCHANGED <<pc, batch, errs, stop, api, cache, faults>>
       \/ /\ ~Skipped(c)
          /\ c \in Registry
          /\ PatchLife(c, "Pending")
          /\ todo' = todo \ {c}
          /\ items' = items \cup {c}
          /\ UNCHANGED <<pc, batch, errs, stop>>
       \/ /\ ~Skipped(c)
          /\ c \in Registry
          /\ PatchLifeFails
          /\ PendingFailed(c)
          /\ UNCHANGED <<batch, stop>>
    /\ UNCHANGED <<run, mem, stopping, passed, crashes>>

\* What executeUpgradeDAG does with the result of ExecuteDAG.
Verdict == IF errs THEN "failed" ELSE "finish"

\* The batch is over: the tail of the loop of ExecuteDAG.
AfterBatch ==
    /\ items' = {}
    /\ UNCHANGED <<errs, stop>>
    /\ IF stop
       THEN pc' = "failed" /\ todo' = {} /\ UNCHANGED batch
       ELSE IF batch < Len(Batches)
       THEN pc' = "prepare" /\ batch' = batch + 1 /\ todo' = Batches[batch + 1]
       ELSE pc' = Verdict /\ todo' = {} /\ UNCHANGED batch

\* A goroutine per work item, or straight to the next batch.
StartBatch ==
    /\ pc = "prepare"
    /\ todo = {}
    /\ \/ /\ items = {}
          /\ AfterBatch
          /\ UNCHANGED <<worker, cancelled>>
       \/ /\ items # {}
          /\ pc' = "run"
          /\ worker' = [c \in Components |->
                            IF c \in items THEN "queued" ELSE "none"]
          /\ cancelled' = FALSE
          /\ UNCHANGED <<batch, todo, items, errs, stop>>
    /\ UNCHANGED <<mem, api, cache, stopping, env>>

In(state) == {c \in Components : worker[c] = state}
Running == In("running")

\* A goroutine gets the semaphore; select may choose it when the context is
\* cancelled as well.
Acquire(c) ==
    /\ pc = "run"
    /\ worker[c] = "queued"
    /\ Cardinality(Running) < MaxParallel
    /\ worker' = [worker EXCEPT ![c] = "running"]
    /\ UNCHANGED <<pass, cancelled, mem, api, cache, stopping, env>>

\* A goroutine sees the cancelled context and leaves no result.
Drop(c) ==
    /\ pc = "run"
    /\ worker[c] = "queued"
    /\ cancelled \/ stopping
    /\ worker' = [worker EXCEPT ![c] = "dropped"]
    /\ UNCHANGED <<pass, cancelled, mem, api, cache, stopping, env>>

(***************************************************************************)
(* executeComponent returns: without an error, with SkipNotInstalled, or   *)
(* with an error, which under FailFast cancels the rest of the batch.  An  *)
(* executor that looks at the context fails when that is cancelled.        *)
(***************************************************************************)
Return(c, result) ==
    /\ pc = "run"
    /\ worker[c] = "running"
    /\ worker' = [worker EXCEPT ![c] = result]
    /\ \/ /\ result \in {"ok", "skip"}
          /\ passed' = passed \cup {c}
          /\ UNCHANGED <<faults, cancelled>>
       \/ /\ result = "err"
          /\ \/ (cancelled \/ stopping) /\ UNCHANGED faults
             \/ ~(cancelled \/ stopping) /\ faults < MaxFaults /\ faults' = faults + 1
          /\ cancelled' = (cancelled \/ c \in FailFast)
          /\ UNCHANGED passed
    /\ UNCHANGED <<pass, mem, api, cache, stopping, crashes>>

(***************************************************************************)
(* SyncStatusUntilComplete, which an inline phase calls in a worker, and   *)
(* the reconcile before a pass and after a failed one.  It reads the       *)
(* cluster from the cache twice and writes what the first read found as    *)
(* changes of the second.  When the informer catches up in between, the    *)
(* progress, or lifecycle phases, of the first read are written back.  The *)
(* object that a phase works on is not the one of the scheduler, so its    *)
(* progress in memory stays as it is.                                      *)
(***************************************************************************)
SyncStatus ==
    /\ Running # {} \/ pc \in {"idle", "failed"}
    /\ cache # api
    /\ api' \in [du : {cache.du, api.du}, life : {cache.life, api.life}]
    /\ cache' = api
    /\ UNCHANGED <<pass, run, mem, stopping, env>>

Results == In("ok") \cup In("skip") \cup In("err")

\* Mutant of AllReturned: one result is enough.
AnyReturned == Results # {}

\* Mutant of AllReturned: every item must have a result.
AllHaveResults == Results = items

\* The condition of g.Wait.
AllReturned == In("queued") \cup Running = {}

\* The goroutines have returned, and persistBatchResults takes over.
Wait ==
    /\ pc = "run"
    /\ AllReturned
    /\ pc' = "failures"
    /\ todo' = In("skip") \cup In("err")
    /\ UNCHANGED <<batch, items, errs, stop, run, mem, api, cache, stopping, env>>

\* A failure of these components, or of recording them, stops the pass.
Stops(S) == S \cap FailFast # {}

\* persistBatchFailure for a SkipNotInstalled result: the lifecycle entry is
\* removed, and nothing is recorded as completed.
PersistSkip(c) ==
    /\ pc = "failures"
    /\ First(c)
    /\ worker[c] = "skip"
    /\ todo' = todo \ {c}
    /\ IF c \in Registry /\ cache.life[c] # "none"
       THEN \/ PatchLife(c, "none") /\ UNCHANGED errs
            \/ PatchLifeFails /\ errs' = TRUE
       ELSE UNCHANGED <<errs, api, cache, faults>>
    /\ UNCHANGED <<pc, batch, items, stop, run, mem, stopping, passed, crashes>>

\* persistBatchFailure for an error: markComponentFailed.
PersistFailure(c) ==
    /\ pc = "failures"
    /\ First(c)
    /\ worker[c] = "err"
    /\ errs' = TRUE
    /\ stop' = (stop \/ Stops({c}))
    /\ PatchProgress(MarkFailure(cache.du, c)) \/ PatchProgressFails
    /\ IF c \in Registry
       THEN pc' = "markFailed" /\ UNCHANGED todo
       ELSE UNCHANGED pc /\ todo' = todo \ {c}
    /\ UNCHANGED <<batch, items, run, stopping, passed, crashes>>

\* ... and then markLifecycleFailed for a component of the registry.
MarkLifecycleFailed(c) ==
    /\ pc = "markFailed"
    /\ First(c)
    /\ todo' = todo \ {c}
    /\ PatchLife(c, "Failed") \/ PatchLifeFails
    /\ pc' = "failures"
    /\ UNCHANGED <<batch, items, errs, stop, run, mem, stopping, passed, crashes>>

\* Mutant of Succeeded: an item that left no result counts as a success.
NoErrorIsSuccess == In("ok") \cup In("dropped")

\* The successes that persistBatchResults collects.
Succeeded == In("ok")

\* persistBatchSuccesses: one patch for all the components that succeeded.
PersistSuccesses ==
    /\ pc = "failures"
    /\ todo = {}
    /\ todo' = Succeeded \cap Registry
    /\ pc' = "markInstalled"
    /\ \/ /\ Succeeded = {}
          /\ UNCHANGED <<errs, stop, mem, api, cache, faults>>
       \/ /\ Succeeded # {}
          /\ PatchProgress(MarkCompleted(cache.du, Succeeded))
          /\ UNCHANGED <<errs, stop>>
       \/ /\ Succeeded # {}
          /\ PatchProgressFails
          /\ errs' = TRUE
          /\ stop' = (stop \/ Stops(Succeeded))
    /\ UNCHANGED <<batch, items, run, stopping, passed, crashes>>

\* ... and then markLifecycleInstalled for each one of the registry.
MarkLifecycleInstalled(c) ==
    /\ pc = "markInstalled"
    /\ First(c)
    /\ todo' = todo \ {c}
    /\ \/ /\ PatchLife(c, "Installed")
          /\ UNCHANGED <<errs, stop>>
       \/ /\ PatchLifeFails
          /\ errs' = TRUE
          /\ stop' = (stop \/ Stops({c}))
    /\ UNCHANGED <<pc, batch, items, run, mem, stopping, passed, crashes>>

EndBatch ==
    /\ pc = "markInstalled"
    /\ todo = {}
    /\ AfterBatch
    /\ worker' = IdleWorkers
    /\ cancelled' = FALSE
    /\ UNCHANGED <<mem, api, cache, stopping, env>>

(***************************************************************************)
(* handleDeclarativeUpgradeDAGFailure: the status manager either has the   *)
(* reconcile queued again, or the hop is aborted and its annotation taken  *)
(* away.  The status manager's count is not modelled: both may happen.     *)
(* When the annotation cannot be removed, the controller swallows the      *)
(* error, since the cluster is in a Failed status by then, and the         *)
(* reconcile is not queued again: the hop is parked.                       *)
(***************************************************************************)
HandleFailure ==
    /\ pc = "failed"
    /\ \/ pc' = "idle" /\ UNCHANGED faults
       \/ CallSucceeds /\ pc' = "aborted"
       \/ CallFails /\ pc' = "parked"
    /\ UNCHANGED <<batch, todo, items, errs, stop, run, mem, api, cache,
                   stopping, passed, crashes>>

(***************************************************************************)
(* completeDeclarativeUpgrade: persistDeclarativeUpgradeFinished sends the *)
(* progress in memory, ...                                                 *)
(***************************************************************************)
PersistFinished ==
    /\ pc = "finish"
    /\ \/ /\ CallSucceeds
          /\ LET du == [mem EXCEPT !.finished = TRUE, !.failure = None]
             IN  /\ api' = [api EXCEPT !.du = MergePatch(api.du, cache.du, du)]
                 /\ mem' = du
          /\ CacheFollows
          /\ pc' = "clear"
       \/ /\ CallFails
          /\ pc' = "idle"
          /\ UNCHANGED <<mem, api, cache>>
    /\ UNCHANGED <<batch, todo, items, errs, stop, run, stopping, passed, crashes>>

\* ... and then the annotation of the hop is removed.
ClearUpgradeReady ==
    /\ pc = "clear"
    /\ \/ CallSucceeds /\ pc' = "done"
       \/ CallFails /\ pc' = "idle"
    /\ UNCHANGED <<batch, todo, items, errs, stop, run, mem, api, cache,
                   stopping, passed, crashes>>

-----------------------------------------------------------------------------
\* A change of the spec, an annotation or a node starts a parked reconcile.
Wake ==
    /\ pc = "parked"
    /\ ~stopping
    /\ pc' = "idle"
    /\ UNCHANGED <<batch, todo, items, errs, stop, run, mem, api, cache,
                   stopping, env>>

\* The informer catches up.
CacheSync ==
    /\ InformerLag
    /\ cache # api
    /\ cache' = api
    /\ UNCHANGED <<pass, run, mem, api, stopping, env>>

\* The manager is told to stop: the context of the reconcile is cancelled.
Shutdown ==
    /\ Shutdowns
    /\ ~stopping
    /\ Active
    /\ crashes < MaxCrashes
    /\ stopping' = TRUE
    /\ UNCHANGED <<pass, run, mem, api, cache, env>>

\* The process dies, and the next one starts with a fresh cache.  What was
\* running may have taken effect.
Crash ==
    /\ Active \/ stopping
    /\ crashes < MaxCrashes
    /\ crashes' = crashes + 1
    /\ \E S \in SUBSET Running : passed' = passed \cup S
    /\ pc' = IF Active THEN "idle" ELSE pc
    /\ batch' = 1
    /\ todo' = {}
    /\ items' = {}
    /\ worker' = IdleWorkers
    /\ cancelled' = FALSE
    /\ errs' = FALSE
    /\ stop' = FALSE
    /\ stopping' = FALSE
    /\ mem' = NoProgress
    /\ cache' = api
    /\ UNCHANGED <<api, faults>>

\* The steps of one component, in its goroutine or in a loop of the scheduler.
ComponentStep(c) ==
    \/ Prepare(c)
    \/ Acquire(c)
    \/ Drop(c)
    \/ \E r \in {"ok", "skip", "err"} : Return(c, r)
    \/ PersistSkip(c)
    \/ PersistFailure(c)
    \/ MarkLifecycleFailed(c)
    \/ MarkLifecycleInstalled(c)

SchedulerStep ==
    \/ BeginPass
    \/ StartBatch
    \/ \E c \in Components : ComponentStep(c)
    \/ Wait
    \/ PersistSuccesses
    \/ EndBatch
    \/ HandleFailure
    \/ PersistFinished
    \/ ClearUpgradeReady

Next ==
    \/ SchedulerStep
    \/ SyncStatus
    \/ Wake
    \/ CacheSync
    \/ Shutdown
    \/ Crash

Spec == Init /\ [][Next]_vars

\* controller-runtime runs the reconcile, and queues it again when asked to.
FairSpec == Spec /\ WF_vars(SchedulerStep)

-----------------------------------------------------------------------------
TypeOK ==
    /\ pc \in {"idle", "prepare", "run", "failures", "markFailed",
               "markInstalled", "failed", "finish", "clear", "done", "aborted",
               "parked"}
    /\ batch \in DOMAIN Batches
    /\ todo \subseteq Components
    /\ items \subseteq Components
    /\ worker \in [Components -> {"none", "queued", "running", "ok", "skip",
                                  "err", "dropped"}]
    /\ cancelled \in BOOLEAN
    /\ errs \in BOOLEAN
    /\ stop \in BOOLEAN
    /\ stopping \in BOOLEAN
    /\ mem \in Progress
    /\ api \in [du : Progress, life : [Components -> LifecyclePhases]]
    /\ cache \in [du : Progress, life : [Components -> LifecyclePhases]]
    /\ passed \subseteq Components
    /\ faults \in 0 .. MaxFaults
    /\ crashes \in 0 .. MaxCrashes

(***************************************************************************)
(* A component runs only when everything it depends on has run without an  *)
(* error in this hop, or needed no upgrade: graph.go:21, "An edge From ->  *)
(* To means From must complete before To runs", across failures, restarts  *)
(* and passes that skip what is recorded as completed.                     *)
(***************************************************************************)
DependencyOrder ==
    \A c \in Running : Prereqs[c] \cap FailFast \subseteq passed \cup Unneeded

(***************************************************************************)
(* The completion records are true, wherever they are read: a component is *)
(* in declarativeUpgrade.completed only if it ran without an error in this *)
(* hop.  shouldSkipComponent never skips one that still has to run.        *)
(***************************************************************************)
CompletedHonest ==
    /\ api.du.completed \cup cache.du.completed \subseteq passed
    /\ mem.completed \subseteq passed

(***************************************************************************)
(* FinishedAt "marks when the upgrade plan completed successfully"         *)
(* (bkecluster_status.go:96): it is set only when every component that     *)
(* needed the upgrade has run without an error.  In particular a pass      *)
(* whose goroutines were all cancelled, and so returned no error, cannot   *)
(* report success.                                                         *)
(***************************************************************************)
HopFinished == api.du.target = "hop" /\ api.du.finished

FinishedHonest ==
    HopFinished \/ pc = "done" => Components \subseteq passed \cup Unneeded

(***************************************************************************)
(* "DeclarativeUpgradeStatus persists declarative upgrade progress across  *)
(* controller restarts" (bkecluster_status.go:85): no step of the hop      *)
(* takes a completion record away.                                         *)
(***************************************************************************)
CompletionsKept ==
    [][api.du.target = "hop" => api.du.completed \subseteq api'.du.completed]_vars

\* A component that is recorded as completed is not run again.
NoRework ==
    [][\A c \in Components :
           worker[c] # "running" /\ worker'[c] = "running"
               => c \notin api.du.completed]_vars

(***************************************************************************)
(* Every hop comes to an end: handleDeclarativeUpgradeDAGFailure "retries  *)
(* via StatusManager, and aborts the hop when the retry budget is          *)
(* exhausted" (bkecluster_upgrade_dag.go:340-341), or is left parked by an *)
(* abort that failed.  No batch waits forever for a goroutine that was     *)
(* cancelled or has no semaphore.                                          *)
(***************************************************************************)
HopEndsOrParks == <>(pc \in {"done", "aborted", "parked"})

\* The promise of the upgrade, implemented by the scheduler.
Promise == INSTANCE OrderedUpgrade WITH running <- Running,
                                        finished <- HopFinished

ImplementsPromise == Promise!Spec

-----------------------------------------------------------------------------
(***************************************************************************)
(* The inductive invariants of the proofs in DagExecProofs.                *)
(***************************************************************************)
\* Behind CompletedHonest: results that count as done are done, too.
RecordsOK == CompletedHonest /\ In("ok") \cup In("skip") \subseteq passed

Collecting == pc \in {"failures", "markFailed", "markInstalled"}

\* The goroutines are those of the items of the batch; they are gone when the
\* results are collected, and none is left between batches.
WorkersOK ==
    /\ pc # "run" /\ ~Collecting => worker = IdleWorkers
    /\ Collecting => In("queued") \cup Running = {}
    /\ pc = "run" \/ Collecting =>
           \A c \in Components : worker[c] # "none" <=> c \in items

\* A goroutine leaves no result only if another one has failed.
DroppedOK ==
    pc = "run" \/ Collecting =>
        /\ In("dropped") # {} => cancelled
        /\ cancelled => In("err") # {}

Settled == passed \cup Unneeded

(***************************************************************************)
(* The status left by an earlier hop is finished, and no other is while a  *)
(* component is unsettled; the leftover never meets a status that is       *)
(* unset.  Without this a late merge patch, or a status that is written    *)
(* back, could finish the hop by mistake.                                  *)
(***************************************************************************)
InPass == pc \in {"prepare", "run", "finish"} \/ Collecting

Meet(targets) == "old" \in targets /\ "none" \in targets

LeftoverOK ==
    /\ ~Meet({api.du.target, cache.du.target})
    /\ InPass => ~Meet({api.du.target, cache.du.target, mem.target})
    /\ \/ Components \subseteq Settled
       \/ \A du \in {api.du, cache.du} : du.finished <=> du.target = "old"

\* How far the pass has got: earlier batches are settled, and a failure of the
\* current one stops the pass before the next.
PassOK ==
    /\ pc \in {"prepare", "run"} \/ Collecting =>
           /\ \A j \in 1 .. (batch - 1) : Batches[j] \subseteq Settled
           /\ items \subseteq Batches[batch]
    /\ pc = "prepare" => /\ todo \subseteq Batches[batch]
                         /\ Batches[batch] \subseteq todo \cup items \cup Settled
    /\ pc = "run" \/ Collecting => Batches[batch] \subseteq items \cup Settled
    /\ pc = "failures" => stop \/ In("err") \subseteq todo
    /\ pc = "markFailed" => stop
    /\ pc = "markInstalled" => stop \/ In("err") = {}
    /\ pc \in {"finish", "clear", "done"} => Components \subseteq Settled

OrderInv == ~stopping /\ WorkersOK /\ DroppedOK /\ LeftoverOK /\ PassOK

\* Behind CompletionsKept and NoRework, when the cache does not lag.
SyncInv ==
    /\ cache = api
    /\ WorkersOK
    /\ InPass => mem = api.du
    /\ pc \in {"prepare", "run"} => items \cap api.du.completed = {}
=============================================================================
