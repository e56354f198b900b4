---------------------------- MODULE DagExecProofs ---------------------------
(***************************************************************************)
(* Proofs about one hop of the declarative upgrade, for every DAG and all  *)
(* bounds.  The type invariant comes first, then the honesty of the        *)
(* completion records, then what holds when the cache does not lag, and    *)
(* last the refinement of OrderedUpgrade.                                  *)
(***************************************************************************)
EXTENDS DagExec, TLAPS

StatusType == [du : Progress, life : [Components -> LifecyclePhases]]

LEMMA ProgressFields ==
    ASSUME NEW du \in Progress
    PROVE  /\ du.target \in {"none", "old", "hop"}
           /\ du.completed \subseteq Components
           /\ du.failure \in Components \cup {None}
           /\ du.finished \in BOOLEAN
BY DEF Progress

LEMMA NoProgressType == NoProgress \in Progress /\ OldProgress \in Progress
BY DEF NoProgress, OldProgress, Progress

LEMMA MergePatchType ==
    ASSUME NEW base \in Progress, NEW orig \in Progress, NEW new \in Progress
    PROVE  MergePatch(base, orig, new) \in Progress
BY DEF MergePatch, Patched, Progress

LEMMA EnsureInitializedType ==
    ASSUME NEW du \in Progress
    PROVE  /\ EnsureInitialized(du) \in Progress
           /\ EnsureInitialized(du).target = "hop"
           /\ EnsureInitialized(du).finished = FALSE
           /\ EnsureInitialized(du).completed \subseteq du.completed
           /\ du.target = "hop" => EnsureInitialized(du).completed = du.completed
BY NoProgressType DEF EnsureInitialized, NoProgress, Progress

LEMMA MarkFailureType ==
    ASSUME NEW du \in Progress, NEW c \in Components
    PROVE  /\ MarkFailure(du, c) \in Progress
           /\ MarkFailure(du, c).target = du.target
           /\ MarkFailure(du, c).finished = du.finished
           /\ MarkFailure(du, c).completed = du.completed
BY DEF MarkFailure, Progress

LEMMA MarkCompletedType ==
    ASSUME NEW du \in Progress, NEW S \in SUBSET Components
    PROVE  /\ MarkCompleted(du, S) \in Progress
           /\ MarkCompleted(du, S).target = du.target
           /\ MarkCompleted(du, S).finished = du.finished
           /\ MarkCompleted(du, S).completed = du.completed \cup S
BY DEF MarkCompleted, Progress

LEMMA FinishedType ==
    ASSUME NEW du \in Progress
    PROVE  LET fin == [du EXCEPT !.finished = TRUE, !.failure = None]
           IN  /\ fin \in Progress
               /\ fin.target = du.target
               /\ fin.finished = TRUE
               /\ fin.completed = du.completed
BY DEF Progress

\* Writes of one part of the status keep the other part.
LEMMA StatusUpdates ==
    ASSUME NEW st \in StatusType, NEW du \in Progress, NEW c, NEW phase \in LifecyclePhases
    PROVE  /\ [st EXCEPT !.du = du] \in StatusType
           /\ [st EXCEPT !.du = du].du = du
           /\ [st EXCEPT !.du = du].life = st.life
           /\ [st EXCEPT !.life[c] = phase] \in StatusType
           /\ [st EXCEPT !.life[c] = phase].du = st.du
BY DEF StatusType

-----------------------------------------------------------------------------
(***************************************************************************)
(* What the two kinds of patches do.                                       *)
(***************************************************************************)
LEMMA CallFaults ==
    ASSUME TypeOK, CallFails \/ CallSucceeds
    PROVE  faults' \in 0 .. MaxFaults
BY BoundsAssumption DEF TypeOK, CallFails, CallSucceeds

\* patchDeclarativeUpgrade, for a change that leaves target and finished alone.
LEMMA PatchProgressEffect ==
    ASSUME TypeOK, NEW new \in Progress,
           new.target = cache.du.target, new.finished = cache.du.finished,
           PatchProgress(new) \/ PatchProgressFails
    PROVE  /\ api' \in StatusType /\ cache' \in StatusType /\ mem' \in Progress
           /\ faults' \in 0 .. MaxFaults
           /\ \/ UNCHANGED <<api, mem, cache>>
              \/ /\ cache.du.target # "none"
                 /\ ~stopping
                 /\ api'.du = MergePatch(api.du, cache.du, new)
                 /\ mem' = api'.du
                 /\ cache' = IF InformerLag THEN cache ELSE api'
           /\ api'.du.target = api.du.target
           /\ api'.du.finished = api.du.finished
           /\ api'.du.completed \in {api.du.completed, new.completed}
<1>0. /\ api \in StatusType /\ cache \in StatusType /\ mem \in Progress
      /\ api.du \in Progress /\ cache.du \in Progress /\ faults \in 0 .. MaxFaults
  BY DEF TypeOK, StatusType
<1>1. CASE UNCHANGED <<api, mem, cache>> /\ (UNCHANGED faults \/ CallFails)
  <2>1. faults' \in 0 .. MaxFaults
    BY <1>0, <1>1, CallFaults
  <2> QED BY <1>0, <1>1, <2>1
<1>2. CASE /\ cache.du.target # "none"
           /\ CallSucceeds
           /\ api' = [api EXCEPT !.du = MergePatch(api.du, cache.du, new)]
           /\ mem' = api'.du
           /\ CacheFollows
  <2> DEFINE du == MergePatch(api.du, cache.du, new)
  <2>1. du \in Progress
    BY <1>0, MergePatchType
  <2>2. /\ du.target = api.du.target
        /\ du.finished = api.du.finished
        /\ du.completed \in {api.du.completed, new.completed}
    BY DEF MergePatch, Patched
  <2>3. api' \in StatusType /\ api'.du = du
    <3> HIDE DEF du
    <3>1. PICK phase : phase \in LifecyclePhases
      BY DEF LifecyclePhases
    <3>2. api' = [api EXCEPT !.du = du]
      BY <1>2 DEF du
    <3> QED BY <1>0, <2>1, <3>1, <3>2, StatusUpdates
  <2>4. cache' \in StatusType /\ cache' = IF InformerLag THEN cache ELSE api'
    BY <1>0, <1>2, <2>3 DEF CacheFollows
  <2>5. faults' \in 0 .. MaxFaults /\ ~stopping
    BY <1>2, CallFaults DEF CallSucceeds
  <2> QED BY <1>2, <2>1, <2>2, <2>3, <2>4, <2>5
<1> QED BY <1>1, <1>2 DEF PatchProgress, PatchProgressFails

\* BKEComponentStatusUpdater.patch leaves the progress alone.
LEMMA PatchLifeEffect ==
    ASSUME TypeOK, NEW c \in Components, NEW phase \in LifecyclePhases,
           PatchLife(c, phase) \/ PatchLifeFails
    PROVE  /\ api' \in StatusType /\ cache' \in StatusType
           /\ faults' \in 0 .. MaxFaults
           /\ api'.du = api.du
           /\ \/ UNCHANGED <<api, cache>>
              \/ cache' = IF InformerLag THEN cache ELSE api'
<1>0. api \in StatusType /\ cache \in StatusType /\ api.life[c] \in LifecyclePhases
  BY DEF TypeOK, StatusType
<1>1. faults' \in 0 .. MaxFaults
  BY CallFaults DEF PatchLife, PatchLifeFails
<1>2. CASE PatchLifeFails
  BY <1>0, <1>1, <1>2 DEF PatchLifeFails
<1>3. CASE PatchLife(c, phase)
  <2> DEFINE p == Patched(api.life[c], cache.life[c], phase)
  <2>1. p \in LifecyclePhases
    BY <1>0 DEF Patched
  <2>2. api' = [api EXCEPT !.life[c] = p]
    BY <1>3 DEF PatchLife
  <2>3. api' \in StatusType /\ api'.du = api.du
    <3> HIDE DEF p
    <3> QED BY <1>0, <2>1, <2>2 DEF StatusType
  <2>4. cache' = (IF InformerLag THEN cache ELSE api')
    BY <1>3 DEF PatchLife, CacheFollows
  <2> QED BY <1>0, <1>1, <2>3, <2>4
<1> QED BY <1>2, <1>3

-----------------------------------------------------------------------------
(***************************************************************************)
(* Type correctness.                                                       *)
(***************************************************************************)
WorkerStates == {"none", "queued", "running", "ok", "skip", "err", "dropped"}

\* The part of TypeOK about the pass and its goroutines.
PassType ==
    /\ pc \in {"idle", "prepare", "run", "failures", "markFailed",
               "markInstalled", "failed", "finish", "clear", "done", "aborted",
               "parked"}
    /\ batch \in DOMAIN Batches
    /\ todo \subseteq Components
    /\ items \subseteq Components
    /\ worker \in [Components -> WorkerStates]
    /\ cancelled \in BOOLEAN /\ errs \in BOOLEAN /\ stop \in BOOLEAN
    /\ stopping \in BOOLEAN
    /\ passed \subseteq Components
    /\ crashes \in 0 .. MaxCrashes

\* The part about the status and its copies.
DataType ==
    /\ mem \in Progress
    /\ api \in StatusType
    /\ cache \in StatusType
    /\ faults \in 0 .. MaxFaults

LEMMA TypeParts == TypeOK <=> PassType /\ DataType
BY DEF TypeOK, PassType, DataType, StatusType, WorkerStates

LEMMA BatchFacts ==
    /\ 1 \in DOMAIN Batches
    /\ \A k \in DOMAIN Batches : Batches[k] \subseteq Components
    /\ DOMAIN Batches = 1 .. Len(Batches)
    /\ Len(Batches) \in Nat
BY BatchesAssumption

LEMMA IdleWorkersType == IdleWorkers \in [Components -> WorkerStates]
BY DEF IdleWorkers, WorkerStates

LEMMA AfterBatchType ==
    ASSUME PassType, AfterBatch
    PROVE  /\ pc' \in {"failed", "prepare", "finish"}
           /\ batch' \in DOMAIN Batches
           /\ todo' \subseteq Components
           /\ items' \subseteq Components
           /\ errs' \in BOOLEAN /\ stop' \in BOOLEAN
<1>1. batch \in 1 .. Len(Batches) /\ errs \in BOOLEAN /\ stop \in BOOLEAN
  BY BatchFacts DEF PassType
<1>2. CASE stop
  BY <1>1, <1>2, BatchFacts DEF AfterBatch
<1>3. CASE ~stop /\ batch < Len(Batches)
  <2>1. batch + 1 \in DOMAIN Batches
    BY <1>1, <1>3, BatchFacts
  <2> QED BY <1>1, <1>3, <2>1, BatchFacts DEF AfterBatch
<1>4. CASE ~stop /\ ~(batch < Len(Batches))
  BY <1>1, <1>4, BatchFacts DEF AfterBatch, Verdict
<1> QED BY <1>2, <1>3, <1>4

LEMMA TypeInit == Init => TypeOK
<1> SUFFICES ASSUME Init PROVE TypeOK
  OBVIOUS
<1>1. PassType
  <2>1. worker \in [Components -> WorkerStates]
    BY IdleWorkersType DEF Init
  <2>2. crashes \in 0 .. MaxCrashes
    BY BoundsAssumption DEF Init
  <2>3. /\ pc = "idle" /\ batch = 1 /\ todo = {} /\ items = {} /\ passed = {}
        /\ cancelled = FALSE /\ errs = FALSE /\ stop = FALSE /\ stopping = FALSE
    BY DEF Init
  <2> QED BY <2>1, <2>2, <2>3, BatchFacts DEF PassType
<1>2. DataType
  <2>1. [c \in Components |-> "none"] \in [Components -> LifecyclePhases]
    BY DEF LifecyclePhases
  <2>2. api \in StatusType
    BY <2>1, NoProgressType DEF Init, StatusType
  <2> QED BY <2>2, NoProgressType, BoundsAssumption DEF Init, DataType
<1> QED BY <1>1, <1>2, TypeParts

LEMMA DataTypeNext == TypeOK /\ [Next]_vars => DataType'
<1> SUFFICES ASSUME TypeOK, [Next]_vars PROVE DataType'
  OBVIOUS
<1>d. /\ DataType
      /\ api.du \in Progress /\ cache.du \in Progress
      /\ PassType
  BY TypeParts DEF DataType, StatusType
<1>u. ASSUME UNCHANGED <<mem, api, cache, faults>> PROVE DataType'
  BY <1>d, <1>u DEF DataType
<1>1. CASE BeginPass
  <2> DEFINE du == EnsureInitialized(cache.du)
             p  == MergePatch(api.du, cache.du, du)
  <2>1. du \in Progress
    BY <1>d, EnsureInitializedType
  <2>2. p \in Progress
    BY <1>d, <2>1, MergePatchType
  <2>3. api' \in StatusType
    <3>1. api' = [api EXCEPT !.du = p]
      BY <1>1 DEF BeginPass
    <3> HIDE DEF p
    <3> QED BY <1>d, <2>2, <3>1 DEF DataType, StatusType
  <2>4. mem' \in Progress
    BY <1>1, <2>1 DEF BeginPass
  <2>5. cache' \in StatusType
    BY <1>1, <1>d, <2>3 DEF BeginPass, CacheFollows, DataType
  <2>6. faults' \in 0 .. MaxFaults
    BY <1>1, <1>d, BoundsAssumption DEF BeginPass, DataType
  <2> QED BY <2>3, <2>4, <2>5, <2>6 DEF DataType
<1>2. ASSUME NEW c \in Components, ComponentStep(c) PROVE DataType'
  <2>1. CASE Prepare(c)
    <3>1. CASE UNCHANGED <<api, cache, faults>>
      BY <1>d, <2>1, <3>1 DEF Prepare, DataType
    <3>2. CASE PatchLife(c, "Pending") \/ PatchLifeFails
      <4>1. api' \in StatusType /\ cache' \in StatusType /\ faults' \in 0 .. MaxFaults
        BY <3>2, PatchLifeEffect DEF LifecyclePhases
      <4> QED BY <1>d, <2>1, <4>1 DEF Prepare, DataType
    <3> QED BY <2>1, <3>1, <3>2 DEF Prepare
  <2>2. CASE Acquire(c)
    BY <2>2, <1>u DEF Acquire, env
  <2>3. CASE Drop(c)
    BY <2>3, <1>u DEF Drop, env
  <2>4. ASSUME NEW r \in {"ok", "skip", "err"}, Return(c, r) PROVE DataType'
    BY <1>d, <2>4, BoundsAssumption DEF Return, DataType
  <2>5. CASE PersistSkip(c)
    <3>1. CASE UNCHANGED <<api, cache, faults>>
      BY <1>d, <2>5, <3>1 DEF PersistSkip, DataType
    <3>2. CASE PatchLife(c, "none") \/ PatchLifeFails
      <4>1. api' \in StatusType /\ cache' \in StatusType /\ faults' \in 0 .. MaxFaults
        BY <3>2, PatchLifeEffect DEF LifecyclePhases
      <4> QED BY <1>d, <2>5, <4>1 DEF PersistSkip, DataType
    <3> QED BY <2>5, <3>1, <3>2 DEF PersistSkip
  <2>6. CASE PersistFailure(c)
    <3>1. /\ MarkFailure(cache.du, c) \in Progress
          /\ MarkFailure(cache.du, c).target = cache.du.target
          /\ MarkFailure(cache.du, c).finished = cache.du.finished
      BY <1>d, MarkFailureType
    <3>2. PatchProgress(MarkFailure(cache.du, c)) \/ PatchProgressFails
      BY <2>6 DEF PersistFailure
    <3> QED BY <3>1, <3>2, PatchProgressEffect DEF DataType
  <2>7. CASE MarkLifecycleFailed(c)
    <3>1. api' \in StatusType /\ cache' \in StatusType /\ faults' \in 0 .. MaxFaults
      BY <2>7, PatchLifeEffect DEF MarkLifecycleFailed, LifecyclePhases
    <3> QED BY <1>d, <2>7, <3>1 DEF MarkLifecycleFailed, DataType
  <2>8. CASE MarkLifecycleInstalled(c)
    <3>1. api' \in StatusType /\ cache' \in StatusType /\ faults' \in 0 .. MaxFaults
      BY <2>8, PatchLifeEffect DEF MarkLifecycleInstalled, LifecyclePhases
    <3> QED BY <1>d, <2>8, <3>1 DEF MarkLifecycleInstalled, DataType
  <2> QED BY <1>2, <2>1, <2>2, <2>3, <2>4, <2>5, <2>6, <2>7, <2>8 DEF ComponentStep
<1>3. CASE StartBatch
  BY <1>3, <1>u DEF StartBatch, env
<1>4. CASE Wait
  BY <1>4, <1>u DEF Wait, env
<1>5. CASE PersistSuccesses
  <2>1. CASE UNCHANGED <<mem, api, cache, faults>>
    BY <2>1, <1>u
  <2>2. CASE PatchProgress(MarkCompleted(cache.du, Succeeded)) \/ PatchProgressFails
    <3>1. Succeeded \in SUBSET Components
      BY DEF Succeeded, In
    <3>2. /\ MarkCompleted(cache.du, Succeeded) \in Progress
          /\ MarkCompleted(cache.du, Succeeded).target = cache.du.target
          /\ MarkCompleted(cache.du, Succeeded).finished = cache.du.finished
      BY <1>d, <3>1, MarkCompletedType
    <3> QED BY <2>2, <3>2, PatchProgressEffect DEF DataType
  <2> QED BY <1>5, <2>1, <2>2 DEF PersistSuccesses
<1>6. CASE EndBatch
  BY <1>6, <1>u DEF EndBatch, env
<1>7. CASE HandleFailure
  <2>1. faults' \in 0 .. MaxFaults
    BY <1>7, <1>d, CallFaults DEF HandleFailure, DataType
  <2> QED BY <1>7, <1>d, <2>1 DEF HandleFailure, DataType
<1>8. CASE PersistFinished
  <2>1. faults' \in 0 .. MaxFaults
    BY <1>8, CallFaults DEF PersistFinished
  <2>2. CASE UNCHANGED <<mem, api, cache>>
    BY <1>d, <2>1, <2>2 DEF DataType
  <2>3. CASE ~UNCHANGED <<mem, api, cache>>
    <3> DEFINE du == [mem EXCEPT !.finished = TRUE, !.failure = None]
               p  == MergePatch(api.du, cache.du, du)
    <3>1. du \in Progress
      BY <1>d, FinishedType DEF DataType
    <3>2. p \in Progress
      BY <1>d, <3>1, MergePatchType
    <3>3. mem' = du /\ api' = [api EXCEPT !.du = p] /\ CacheFollows
      BY <1>8, <2>3 DEF PersistFinished
    <3> HIDE DEF p, du
    <3>4. api' \in StatusType
      BY <1>d, <3>2, <3>3 DEF DataType, StatusType
    <3>5. cache' \in StatusType
      BY <1>d, <3>3, <3>4 DEF CacheFollows, DataType
    <3> QED BY <2>1, <3>1, <3>3, <3>4, <3>5 DEF DataType
  <2> QED BY <2>2, <2>3
<1>9. CASE ClearUpgradeReady
  <2>1. faults' \in 0 .. MaxFaults
    BY <1>9, CallFaults DEF ClearUpgradeReady
  <2> QED BY <1>9, <1>d, <2>1 DEF ClearUpgradeReady, DataType
<1>10. CASE SyncStatus
  BY <1>10, <1>d DEF SyncStatus, DataType, StatusType, env
<1>11. CASE Wake
  BY <1>11, <1>u DEF Wake, env
<1>12. CASE CacheSync
  BY <1>12, <1>d DEF CacheSync, DataType, env
<1>13. CASE Shutdown
  BY <1>13, <1>u DEF Shutdown, env
<1>14. CASE Crash
  BY <1>14, <1>d, NoProgressType DEF Crash, DataType
<1>15. CASE UNCHANGED vars
  BY <1>15, <1>u DEF vars, env
<1> QED BY <1>1, <1>2, <1>3, <1>4, <1>5, <1>6, <1>7, <1>8, <1>9, <1>10, <1>11,
           <1>12, <1>13, <1>14, <1>15 DEF Next, SchedulerStep

LEMMA PassTypeNext == TypeOK /\ [Next]_vars => PassType'
<1> SUFFICES ASSUME TypeOK, [Next]_vars PROVE PassType'
  OBVIOUS
<1>d. PassType
  BY TypeParts
<1>1. CASE BeginPass
  BY <1>1, <1>d, BatchFacts DEF BeginPass, PassType
<1>2. ASSUME NEW c \in Components, ComponentStep(c) PROVE PassType'
  <2>1. CASE Prepare(c)
    BY <1>d, <2>1 DEF Prepare, PendingFailed, PassType, run
  <2>2. CASE Acquire(c)
    BY <1>d, <2>2 DEF Acquire, PassType, WorkerStates, pass, env
  <2>3. CASE Drop(c)
    BY <1>d, <2>3 DEF Drop, PassType, WorkerStates, pass, env
  <2>4. ASSUME NEW r \in {"ok", "skip", "err"}, Return(c, r) PROVE PassType'
    BY <1>d, <2>4 DEF Return, PassType, WorkerStates, pass
  <2>5. CASE PersistSkip(c)
    BY <1>d, <2>5 DEF PersistSkip, PassType, run
  <2>6. CASE PersistFailure(c)
    BY <1>d, <2>6 DEF PersistFailure, PassType, run
  <2>7. CASE MarkLifecycleFailed(c)
    BY <1>d, <2>7 DEF MarkLifecycleFailed, PassType, run
  <2>8. CASE MarkLifecycleInstalled(c)
    BY <1>d, <2>8 DEF MarkLifecycleInstalled, PassType, run
  <2> QED BY <1>2, <2>1, <2>2, <2>3, <2>4, <2>5, <2>6, <2>7, <2>8 DEF ComponentStep
<1>3. CASE StartBatch
  <2>1. CASE AfterBatch /\ UNCHANGED <<worker, cancelled, stopping, env>>
    BY <1>d, <2>1, AfterBatchType DEF PassType, env
  <2>2. CASE /\ pc' = "run"
             /\ worker' = [c \in Components |->
                               IF c \in items THEN "queued" ELSE "none"]
             /\ cancelled' = FALSE
             /\ UNCHANGED <<batch, todo, items, errs, stop, stopping, env>>
    BY <1>d, <2>2 DEF PassType, WorkerStates, env
  <2> QED BY <1>3, <2>1, <2>2 DEF StartBatch
<1>4. CASE Wait
  BY <1>d, <1>4 DEF Wait, PassType, In, run, env
<1>5. CASE PersistSuccesses
  BY <1>d, <1>5 DEF PersistSuccesses, Succeeded, In, PassType, run
<1>6. CASE EndBatch
  BY <1>d, <1>6, AfterBatchType, IdleWorkersType DEF EndBatch, PassType, env
<1>7. CASE HandleFailure
  BY <1>d, <1>7 DEF HandleFailure, PassType, run
<1>8. CASE PersistFinished
  BY <1>d, <1>8 DEF PersistFinished, PassType, run
<1>9. CASE ClearUpgradeReady
  BY <1>d, <1>9 DEF ClearUpgradeReady, PassType, run
<1>10. CASE SyncStatus
  BY <1>d, <1>10 DEF SyncStatus, PassType, pass, run, env
<1>11. CASE Wake
  BY <1>d, <1>11 DEF Wake, PassType, run, env
<1>12. CASE CacheSync
  BY <1>d, <1>12 DEF CacheSync, PassType, pass, run, env
<1>13. CASE Shutdown
  BY <1>d, <1>13 DEF Shutdown, PassType, pass, run, env
<1>14. CASE Crash
  <2>1. crashes' \in 0 .. MaxCrashes
    BY <1>d, <1>14, BoundsAssumption DEF Crash, PassType
  <2>2. passed' \subseteq Components
    BY <1>d, <1>14 DEF Crash, PassType, Running, In
  <2> QED BY <1>d, <1>14, <2>1, <2>2, BatchFacts, IdleWorkersType DEF Crash, PassType
<1>15. CASE UNCHANGED vars
  BY <1>d, <1>15 DEF vars, PassType, pass, run, env
<1> QED BY <1>1, <1>2, <1>3, <1>4, <1>5, <1>6, <1>7, <1>8, <1>9, <1>10, <1>11,
           <1>12, <1>13, <1>14, <1>15 DEF Next, SchedulerStep

(***************************************************************************)
(* The state of executeUpgradeDAG and of the scheduler stays within its    *)
(* types whatever fails: in particular the batch index never leaves the    *)
(* list that TopologicalBatches returned.                                  *)
(***************************************************************************)
THEOREM TypeCorrect == Spec => []TypeOK
<1>1. TypeOK /\ [Next]_vars => TypeOK'
  <2> SUFFICES ASSUME TypeOK, [Next]_vars PROVE TypeOK'
    OBVIOUS
  <2>1. PassType' /\ DataType'
    BY PassTypeNext, DataTypeNext
  <2> QED BY <2>1 DEF TypeOK, PassType, DataType, StatusType, WorkerStates
<1> QED BY <1>1, TypeInit, PTL DEF Spec

-----------------------------------------------------------------------------
(***************************************************************************)
(* The honesty of the completion records.  A patch sets the whole list of  *)
(* completions or leaves it, so what it leaves in the API server is either *)
(* the list that was there or the one that was sent; both hold only        *)
(* components that passed, however stale the cache is.                     *)
(***************************************************************************)
LEMMA RecordsInit == Init => RecordsOK
<1> SUFFICES ASSUME Init PROVE RecordsOK
  OBVIOUS
<1>0. NoProgress.completed = {} /\ OldProgress.completed = {}
  BY DEF NoProgress, OldProgress
<1>1. api.du.completed = {} /\ cache.du.completed = {} /\ mem.completed = {}
  BY <1>0 DEF Init
<1>2. In("ok") = {} /\ In("skip") = {}
  BY DEF Init, In, IdleWorkers
<1> QED BY <1>1, <1>2 DEF RecordsOK, CompletedHonest

LEMMA RecordsNext == TypeOK /\ RecordsOK /\ [Next]_vars => RecordsOK'
<1> SUFFICES ASSUME TypeOK, RecordsOK, [Next]_vars PROVE RecordsOK'
  OBVIOUS
<1> DEFINE Kept == In("ok")' \cup In("skip")' \subseteq In("ok") \cup In("skip")
<1>d. /\ api \in StatusType /\ cache \in StatusType /\ mem \in Progress
      /\ api.du \in Progress /\ cache.du \in Progress
      /\ worker \in [Components -> WorkerStates]
      /\ passed \subseteq Components
      /\ PassType
  BY TypeParts DEF PassType, DataType, StatusType
<1>r. /\ api.du.completed \subseteq passed
      /\ cache.du.completed \subseteq passed
      /\ mem.completed \subseteq passed
      /\ In("ok") \cup In("skip") \subseteq passed
  BY DEF RecordsOK, CompletedHonest
<1>w. ASSUME UNCHANGED worker PROVE Kept
  BY <1>w DEF In
<1>i. ASSUME worker' = IdleWorkers PROVE Kept
  BY <1>i DEF In, IdleWorkers
<1>p. ASSUME Kept, passed \subseteq passed',
             api'.du.completed \subseteq passed,
             cache'.du.completed \subseteq passed, mem'.completed \subseteq passed
      PROVE  RecordsOK'
  BY <1>r, <1>p DEF RecordsOK, CompletedHonest
<1>f. ASSUME CacheFollows, api'.du.completed \subseteq passed
      PROVE  cache'.du.completed \subseteq passed
  BY <1>r, <1>f DEF CacheFollows
<1>n. ASSUME Kept, UNCHANGED <<mem, api, cache, passed>> PROVE RecordsOK'
  BY <1>r, <1>n, <1>p
<1>1. CASE BeginPass
  <2> DEFINE du == EnsureInitialized(cache.du)
             p  == MergePatch(api.du, cache.du, du)
  <2>1. du.completed \subseteq passed
    BY <1>d, <1>r, EnsureInitializedType
  <2>2. p.completed \subseteq passed
    BY <1>r, <2>1 DEF MergePatch, Patched
  <2>3. mem' = du /\ api' = [api EXCEPT !.du = p] /\ CacheFollows
        /\ UNCHANGED <<worker, passed>>
    BY <1>1 DEF BeginPass
  <2> HIDE DEF p, du
  <2>4. api'.du = p
    BY <1>d, <2>3 DEF StatusType
  <2> HIDE DEF Kept
  <2> QED BY <1>w, <1>p, <1>f, <2>1, <2>2, <2>3, <2>4
<1>2. ASSUME NEW c \in Components, ComponentStep(c) PROVE RecordsOK'
  <2>l. ASSUME NEW phase \in LifecyclePhases, PatchLife(c, phase) \/ PatchLifeFails,
               UNCHANGED <<worker, mem, passed>>
        PROVE  RecordsOK'
    <3>1. api'.du = api.du /\ (UNCHANGED cache \/ cache' = cache \/ cache' = api')
      BY <2>l, PatchLifeEffect
    <3> QED BY <1>r, <1>w, <1>p, <2>l, <3>1
  <2>1. CASE Prepare(c)
    <3>1. CASE UNCHANGED <<api, cache>>
      BY <2>1, <3>1, <1>w, <1>n DEF Prepare, run
    <3>2. CASE PatchLife(c, "Pending") \/ PatchLifeFails
      BY <2>1, <3>2, <2>l DEF Prepare, LifecyclePhases, run
    <3> QED BY <2>1, <3>1, <3>2 DEF Prepare
  <2>2. CASE Acquire(c)
    <3>1. Kept
      BY <2>2, <1>d DEF Acquire, In
    <3> QED BY <2>2, <3>1, <1>n DEF Acquire, env
  <2>3. CASE Drop(c)
    <3>1. Kept
      BY <2>3, <1>d DEF Drop, In
    <3> QED BY <2>3, <3>1, <1>n DEF Drop, env
  <2>4. ASSUME NEW r \in {"ok", "skip", "err"}, Return(c, r) PROVE RecordsOK'
    <3>1. In("ok")' \cup In("skip")' \subseteq passed'
      BY <2>4, <1>d, <1>r DEF Return, In
    <3>2. passed \subseteq passed' /\ UNCHANGED <<mem, api, cache>>
      BY <2>4 DEF Return
    <3> QED BY <1>r, <3>1, <3>2 DEF RecordsOK, CompletedHonest
  <2>5. CASE PersistSkip(c)
    <3>1. CASE UNCHANGED <<api, cache>>
      BY <2>5, <3>1, <1>w, <1>n DEF PersistSkip, run
    <3>2. CASE PatchLife(c, "none") \/ PatchLifeFails
      BY <2>5, <3>2, <2>l DEF PersistSkip, LifecyclePhases, run
    <3> QED BY <2>5, <3>1, <3>2 DEF PersistSkip
  <2>6. CASE PersistFailure(c)
    <3> DEFINE new == MarkFailure(cache.du, c)
    <3>1. /\ new \in Progress /\ new.target = cache.du.target
          /\ new.finished = cache.du.finished
          /\ new.completed = cache.du.completed
      BY <1>d, MarkFailureType
    <3>2. (PatchProgress(new) \/ PatchProgressFails) /\ UNCHANGED <<worker, passed>>
      BY <2>6 DEF PersistFailure, run
    <3> HIDE DEF new
    <3>3. /\ api'.du.completed \subseteq passed
          /\ \/ UNCHANGED <<api, mem, cache>>
             \/ mem' = api'.du /\ (cache' = cache \/ cache' = api')
      BY <1>r, <3>1, <3>2, PatchProgressEffect
    <3> QED BY <1>r, <1>w, <1>p, <3>2, <3>3
  <2>7. CASE MarkLifecycleFailed(c)
    BY <2>7, <2>l DEF MarkLifecycleFailed, LifecyclePhases, run
  <2>8. CASE MarkLifecycleInstalled(c)
    BY <2>8, <2>l DEF MarkLifecycleInstalled, LifecyclePhases, run
  <2> QED BY <1>2, <2>1, <2>2, <2>3, <2>4, <2>5, <2>6, <2>7, <2>8 DEF ComponentStep
<1>3. CASE StartBatch
  <2>1. Kept
    BY <1>3, <1>w DEF StartBatch, In
  <2> QED BY <1>3, <2>1, <1>n DEF StartBatch, env
<1>4. CASE Wait
  BY <1>4, <1>w, <1>n DEF Wait, run, env
<1>5. CASE PersistSuccesses
  <2>1. UNCHANGED <<worker, passed>>
    BY <1>5 DEF PersistSuccesses, run
  <2>2. CASE UNCHANGED <<mem, api, cache>>
    BY <2>1, <2>2, <1>w, <1>n
  <2>3. CASE PatchProgress(MarkCompleted(cache.du, Succeeded)) \/ PatchProgressFails
    <3> DEFINE new == MarkCompleted(cache.du, Succeeded)
    <3>1. Succeeded \in SUBSET Components /\ Succeeded \subseteq passed
      BY <1>r DEF Succeeded, In
    <3>2. /\ new \in Progress /\ new.target = cache.du.target
          /\ new.finished = cache.du.finished
          /\ new.completed = cache.du.completed \cup Succeeded
      BY <1>d, <3>1, MarkCompletedType
    <3>3. PatchProgress(new) \/ PatchProgressFails
      BY <2>3
    <3> HIDE DEF new
    <3>4. /\ api'.du.completed \subseteq passed
          /\ \/ UNCHANGED <<api, mem, cache>>
             \/ mem' = api'.du /\ (cache' = cache \/ cache' = api')
      BY <1>r, <3>1, <3>2, <3>3, PatchProgressEffect
    <3> QED BY <1>r, <1>w, <1>p, <2>1, <3>4
  <2> QED BY <1>5, <2>2, <2>3 DEF PersistSuccesses
<1>6. CASE EndBatch
  BY <1>6, <1>i, <1>n DEF EndBatch, env
<1>7. CASE HandleFailure
  BY <1>7, <1>w, <1>n DEF HandleFailure, run
<1>8. CASE PersistFinished
  <2>1. UNCHANGED <<worker, passed>>
    BY <1>8 DEF PersistFinished, run
  <2>2. CASE UNCHANGED <<mem, api, cache>>
    BY <2>1, <2>2, <1>w, <1>n
  <2>3. CASE ~UNCHANGED <<mem, api, cache>>
    <3> DEFINE du == [mem EXCEPT !.finished = TRUE, !.failure = None]
               p  == MergePatch(api.du, cache.du, du)
    <3>1. du.completed = mem.completed
      BY <1>d, FinishedType
    <3>2. p.completed \subseteq passed
      BY <1>r, <3>1 DEF MergePatch, Patched
    <3>3. mem' = du /\ api' = [api EXCEPT !.du = p] /\ CacheFollows
      BY <1>8, <2>3 DEF PersistFinished
    <3> HIDE DEF p, du
    <3>4. api'.du = p
      BY <1>d, <3>3 DEF StatusType
    <3> HIDE DEF Kept
    <3> QED BY <1>r, <1>w, <1>p, <1>f, <2>1, <3>1, <3>2, <3>3, <3>4
  <2> QED BY <2>2, <2>3
<1>9. CASE ClearUpgradeReady
  BY <1>9, <1>w, <1>n DEF ClearUpgradeReady, run
<1>10. CASE SyncStatus
  BY <1>10, <1>w, <1>r, <1>p DEF SyncStatus, run, env
<1>11. CASE Wake
  BY <1>11, <1>w, <1>n DEF Wake, run, env
<1>12. CASE CacheSync
  BY <1>12, <1>w, <1>r, <1>p DEF CacheSync, run, env
<1>13. CASE Shutdown
  BY <1>13, <1>w, <1>n DEF Shutdown, run, env
<1>14. CASE Crash
  <2>1. mem'.completed = {}
    BY <1>14 DEF Crash, NoProgress
  <2> QED BY <1>14, <1>i, <1>r, <1>p, <2>1 DEF Crash
<1>15. CASE UNCHANGED vars
  BY <1>15, <1>w, <1>n DEF vars, run, env
<1> QED BY <1>1, <1>2, <1>3, <1>4, <1>5, <1>6, <1>7, <1>8, <1>9, <1>10, <1>11,
           <1>12, <1>13, <1>14, <1>15 DEF Next, SchedulerStep

(***************************************************************************)
(* The completion records are true, in the API server, in the cache and in *)
(* memory, for every DAG, with failing calls, a lagging cache, shutdowns   *)
(* and crashes: shouldSkipComponent never skips a component that has not   *)
(* run without an error.                                                   *)
(***************************************************************************)
THEOREM RecordsHonest == Spec => []CompletedHonest
<1>1. TypeOK /\ RecordsOK /\ [Next]_vars => RecordsOK'
  BY RecordsNext
<1>2. RecordsOK => CompletedHonest
  BY DEF RecordsOK
<1> QED BY <1>1, <1>2, RecordsInit, TypeCorrect, PTL DEF Spec

-----------------------------------------------------------------------------
(***************************************************************************)
(* The goroutines of a batch.                                              *)
(***************************************************************************)
LEMMA WorkersInit == Init => WorkersOK
BY DEF Init, WorkersOK, Collecting

LEMMA WorkersNext == TypeOK /\ WorkersOK /\ [Next]_vars => WorkersOK'
<1> SUFFICES ASSUME TypeOK, WorkersOK, [Next]_vars PROVE WorkersOK'
  OBVIOUS
<1>d. worker \in [Components -> WorkerStates] /\ items \subseteq Components
  BY TypeParts DEF PassType
<1>o. ASSUME pc \notin {"run", "failures", "markFailed", "markInstalled"},
             pc' \notin {"run", "failures", "markFailed", "markInstalled"},
             UNCHANGED worker
      PROVE  WorkersOK'
  BY <1>o DEF WorkersOK, Collecting
<1>c. ASSUME pc \in {"failures", "markFailed", "markInstalled"},
             pc' \in {"failures", "markFailed", "markInstalled"},
             UNCHANGED <<worker, items>>
      PROVE  WorkersOK'
  BY <1>c DEF WorkersOK, Collecting, Running, In
<1>s. ASSUME UNCHANGED <<pc, worker, items>> PROVE WorkersOK'
  BY <1>s DEF WorkersOK, Collecting, Running, In
<1>1. CASE BeginPass
  BY <1>1, <1>o DEF BeginPass
<1>2. ASSUME NEW c \in Components, ComponentStep(c) PROVE WorkersOK'
  <2>1. CASE Prepare(c)
    BY <2>1, <1>o DEF Prepare, PendingFailed, run
  <2>2. CASE Acquire(c)
    BY <2>2, <1>d DEF Acquire, WorkersOK, Collecting, pass
  <2>3. CASE Drop(c)
    BY <2>3, <1>d DEF Drop, WorkersOK, Collecting, pass
  <2>4. ASSUME NEW r \in {"ok", "skip", "err"}, Return(c, r) PROVE WorkersOK'
    BY <2>4, <1>d DEF Return, WorkersOK, Collecting, pass
  <2>5. CASE PersistSkip(c)
    BY <2>5, <1>s DEF PersistSkip, run
  <2>6. CASE PersistFailure(c)
    BY <2>6, <1>c DEF PersistFailure, run
  <2>7. CASE MarkLifecycleFailed(c)
    BY <2>7, <1>c DEF MarkLifecycleFailed, run
  <2>8. CASE MarkLifecycleInstalled(c)
    BY <2>8, <1>s DEF MarkLifecycleInstalled, run
  <2> QED BY <1>2, <2>1, <2>2, <2>3, <2>4, <2>5, <2>6, <2>7, <2>8 DEF ComponentStep
<1>3. CASE StartBatch
  <2>1. CASE AfterBatch /\ UNCHANGED worker
    <3>1. pc' \in {"failed", "prepare", "finish"}
      BY <2>1, AfterBatchType, TypeParts
    <3> QED BY <1>3, <2>1, <3>1, <1>o DEF StartBatch
  <2>2. CASE /\ pc' = "run"
             /\ worker' = [c \in Components |->
                               IF c \in items THEN "queued" ELSE "none"]
             /\ UNCHANGED items
    BY <1>d, <2>2 DEF WorkersOK, Collecting
  <2> QED BY <1>3, <2>1, <2>2 DEF StartBatch
<1>4. CASE Wait
  BY <1>4 DEF Wait, AllReturned, WorkersOK, Collecting, Running, In, run
<1>5. CASE PersistSuccesses
  BY <1>5, <1>c DEF PersistSuccesses, run
<1>6. CASE EndBatch
  <2>1. pc' \in {"failed", "prepare", "finish"}
    BY <1>6, AfterBatchType, TypeParts DEF EndBatch
  <2> QED BY <1>6, <2>1 DEF EndBatch, WorkersOK, Collecting, IdleWorkers
<1>7. CASE HandleFailure
  BY <1>7, <1>o DEF HandleFailure, run
<1>8. CASE PersistFinished
  BY <1>8, <1>o DEF PersistFinished, run
<1>9. CASE ClearUpgradeReady
  BY <1>9, <1>o DEF ClearUpgradeReady, run
<1>10. CASE SyncStatus
  BY <1>10, <1>s DEF SyncStatus, pass, run
<1>11. CASE Wake
  BY <1>11, <1>o DEF Wake, run
<1>12. CASE CacheSync
  BY <1>12, <1>s DEF CacheSync, pass, run
<1>13. CASE Shutdown
  BY <1>13, <1>s DEF Shutdown, pass, run
<1>14. CASE Crash
  BY <1>14 DEF Crash, Active, WorkersOK, Collecting, IdleWorkers
<1>15. CASE UNCHANGED vars
  BY <1>15, <1>s DEF vars, pass, run
<1> QED BY <1>1, <1>2, <1>3, <1>4, <1>5, <1>6, <1>7, <1>8, <1>9, <1>10, <1>11,
           <1>12, <1>13, <1>14, <1>15 DEF Next, SchedulerStep

-----------------------------------------------------------------------------
(***************************************************************************)
(* What holds when the informer cache follows every write at once: the     *)
(* three copies of the progress agree during a pass.  The runs show that   *)
(* neither theorem holds of a cache that lags.                             *)
(***************************************************************************)
LEMMA MergePatchSync ==
    ASSUME NEW base \in Progress, NEW new \in Progress
    PROVE  MergePatch(base, base, new) = new
BY DEF MergePatch, Patched, Progress

LEMMA SyncInit == Init => SyncInv
BY WorkersInit DEF Init, SyncInv, InPass, Collecting

\* How a step may change the progress in the API server and what is known of it.
KeepsCompleted == api.du.target = "hop" => api.du.completed \subseteq api'.du.completed

LEMMA SyncNext ==
    ASSUME InformerLag = FALSE
    PROVE  TypeOK /\ SyncInv /\ [Next]_vars => SyncInv' /\ KeepsCompleted
<1> SUFFICES ASSUME TypeOK, SyncInv, [Next]_vars
             PROVE  SyncInv' /\ KeepsCompleted
  OBVIOUS
<1>w. WorkersOK'
  BY WorkersNext DEF SyncInv
<1>d. /\ api \in StatusType /\ mem \in Progress
      /\ api.du \in Progress
      /\ PassType
  BY TypeParts DEF DataType, StatusType
<1>a. cache = api
  BY DEF SyncInv
<1>m. InPass => mem = api.du
  BY DEF SyncInv
<1>i. pc \in {"prepare", "run"} => items \cap api.du.completed = {}
  BY DEF SyncInv
\* A step that leaves the progress as it was.
<1>s. ASSUME api'.du = api.du, cache' = api', UNCHANGED mem,
             InPass' => InPass,
             pc' \in {"prepare", "run"} => items' \cap api.du.completed = {}
      PROVE  SyncInv' /\ KeepsCompleted
  BY <1>w, <1>m, <1>s DEF SyncInv, KeepsCompleted
\* A step that writes new into all three copies.
<1>n. ASSUME NEW new \in Progress, api'.du = new, cache' = api', mem' = new,
             api.du.target = "hop" => api.du.completed \subseteq new.completed,
             pc' \in {"prepare", "run"} => items' = {}
      PROVE  SyncInv' /\ KeepsCompleted
  BY <1>w, <1>n DEF SyncInv, KeepsCompleted
<1>1. CASE BeginPass
  <2> DEFINE du == EnsureInitialized(api.du)
  <2>1. /\ du \in Progress
        /\ api.du.target = "hop" => du.completed = api.du.completed
    BY <1>d, EnsureInitializedType
  <2>2. /\ mem' = du /\ cache' = api'
        /\ api' = [api EXCEPT !.du = MergePatch(api.du, api.du, du)]
        /\ items' = {}
    BY <1>1, <1>a DEF BeginPass, CacheFollows
  <2> HIDE DEF du
  <2>3. api'.du = du
    BY <1>d, <2>1, <2>2, MergePatchSync DEF StatusType
  <2> QED BY <1>n, <2>1, <2>2, <2>3
<1>2. ASSUME NEW c \in Components, ComponentStep(c) PROVE SyncInv' /\ KeepsCompleted
  <2>l. ASSUME NEW phase \in LifecyclePhases, PatchLife(c, phase) \/ PatchLifeFails
        PROVE  api'.du = api.du /\ cache' = api'
    BY <1>a, <2>l, PatchLifeEffect
  <2>1. CASE Prepare(c)
    <3>1. api'.du = api.du /\ cache' = api'
      BY <1>a, <2>1, <2>l DEF Prepare, LifecyclePhases
    <3>2. pc = "prepare" /\ InPass /\ UNCHANGED mem
      BY <2>1 DEF Prepare, InPass
    <3>3. items' = items \/ (~Skipped(c) /\ items' = items \cup {c})
      BY <2>1 DEF Prepare, PendingFailed
    <3>4. ~Skipped(c) => c \notin api.du.completed
      BY <1>m, <3>2 DEF Skipped
    <3> QED BY <1>s, <1>i, <3>1, <3>2, <3>3, <3>4
  <2>2. CASE Acquire(c)
    BY <2>2, <1>s, <1>a, <1>i DEF Acquire, InPass, Collecting, pass
  <2>3. CASE Drop(c)
    BY <2>3, <1>s, <1>a, <1>i DEF Drop, InPass, Collecting, pass
  <2>4. ASSUME NEW r \in {"ok", "skip", "err"}, Return(c, r)
        PROVE  SyncInv' /\ KeepsCompleted
    BY <2>4, <1>s, <1>a, <1>i DEF Return, InPass, Collecting, pass
  <2>5. CASE PersistSkip(c)
    <3>1. api'.du = api.du /\ cache' = api'
      BY <1>a, <2>5, <2>l DEF PersistSkip, LifecyclePhases
    <3> QED BY <2>5, <3>1, <1>s DEF PersistSkip, InPass, Collecting
  <2>6. CASE PersistFailure(c)
    <3> DEFINE new == MarkFailure(cache.du, c)
    <3>1. /\ new \in Progress /\ new.target = cache.du.target
          /\ new.finished = cache.du.finished
          /\ new.completed = cache.du.completed
      BY <1>d, <1>a, MarkFailureType
    <3>2. PatchProgress(new) \/ PatchProgressFails
      BY <2>6 DEF PersistFailure
    <3>3. InPass /\ pc' \in {"failures", "markFailed"}
      BY <2>6 DEF PersistFailure, InPass, Collecting
    <3> HIDE DEF new
    <3>4. CASE UNCHANGED <<api, mem, cache>>
      BY <1>s, <1>a, <3>3, <3>4
    <3>5. CASE /\ api'.du = MergePatch(api.du, cache.du, new)
               /\ mem' = api'.du /\ cache' = api'
      BY <1>n, <1>a, <1>d, <3>1, <3>3, <3>5, MergePatchSync
    <3> QED BY <3>1, <3>2, <3>4, <3>5, PatchProgressEffect
  <2>7. CASE MarkLifecycleFailed(c)
    <3>1. api'.du = api.du /\ cache' = api'
      BY <1>a, <2>7, <2>l DEF MarkLifecycleFailed, LifecyclePhases
    <3> QED BY <2>7, <3>1, <1>s DEF MarkLifecycleFailed, InPass, Collecting
  <2>8. CASE MarkLifecycleInstalled(c)
    <3>1. api'.du = api.du /\ cache' = api'
      BY <1>a, <2>8, <2>l DEF MarkLifecycleInstalled, LifecyclePhases
    <3> QED BY <2>8, <3>1, <1>s DEF MarkLifecycleInstalled, InPass, Collecting
  <2> QED BY <1>2, <2>1, <2>2, <2>3, <2>4, <2>5, <2>6, <2>7, <2>8 DEF ComponentStep
<1>3. CASE StartBatch
  <2>1. UNCHANGED <<mem, api, cache>> /\ InPass /\ pc = "prepare"
    BY <1>3 DEF StartBatch, InPass
  <2>2. items' = items \/ items' = {}
    BY <1>3 DEF StartBatch, AfterBatch
  <2> QED BY <1>s, <1>a, <1>i, <2>1, <2>2
<1>4. CASE Wait
  BY <1>4, <1>s, <1>a DEF Wait, InPass
<1>5. CASE PersistSuccesses
  <2>1. InPass /\ pc' = "markInstalled"
    BY <1>5 DEF PersistSuccesses, InPass, Collecting
  <2>2. CASE UNCHANGED <<mem, api, cache>>
    BY <1>s, <1>a, <2>1, <2>2
  <2>3. CASE PatchProgress(MarkCompleted(cache.du, Succeeded)) \/ PatchProgressFails
    <3> DEFINE new == MarkCompleted(cache.du, Succeeded)
    <3>1. Succeeded \in SUBSET Components
      BY DEF Succeeded, In
    <3>2. /\ new \in Progress /\ new.target = cache.du.target
          /\ new.finished = cache.du.finished
          /\ new.completed = cache.du.completed \cup Succeeded
      BY <1>d, <1>a, <3>1, MarkCompletedType
    <3>3. PatchProgress(new) \/ PatchProgressFails
      BY <2>3
    <3> HIDE DEF new
    <3>4. CASE UNCHANGED <<api, mem, cache>>
      BY <1>s, <1>a, <2>1, <3>4
    <3>5. CASE /\ api'.du = MergePatch(api.du, cache.du, new)
               /\ mem' = api'.du /\ cache' = api'
      BY <1>n, <1>a, <1>d, <2>1, <3>2, <3>5, MergePatchSync
    <3> QED BY <3>2, <3>3, <3>4, <3>5, PatchProgressEffect
  <2> QED BY <1>5, <2>2, <2>3 DEF PersistSuccesses
<1>6. CASE EndBatch
  BY <1>6, <1>s, <1>a DEF EndBatch, AfterBatch, InPass, Collecting
<1>7. CASE HandleFailure
  BY <1>7, <1>s, <1>a DEF HandleFailure, InPass, Collecting
<1>8. CASE PersistFinished
  <2>1. InPass /\ pc' \in {"clear", "idle"}
    BY <1>8 DEF PersistFinished, InPass
  <2>2. CASE UNCHANGED <<mem, api, cache>>
    BY <1>s, <1>a, <2>1, <2>2
  <2>3. CASE ~UNCHANGED <<mem, api, cache>>
    <3> DEFINE du == [mem EXCEPT !.finished = TRUE, !.failure = None]
    <3>1. du \in Progress /\ du.completed = mem.completed
      BY <1>d, FinishedType
    <3>2. /\ mem' = du /\ cache' = api'
          /\ api' = [api EXCEPT !.du = MergePatch(api.du, api.du, du)]
      BY <1>8, <1>a, <2>3 DEF PersistFinished, CacheFollows
    <3> HIDE DEF du
    <3>3. api'.du = du
      BY <1>d, <3>1, <3>2, MergePatchSync DEF StatusType
    <3> QED BY <1>n, <1>m, <2>1, <3>1, <3>2, <3>3
  <2> QED BY <2>2, <2>3
<1>9. CASE ClearUpgradeReady
  BY <1>9, <1>s, <1>a DEF ClearUpgradeReady, InPass, Collecting
<1>10. CASE SyncStatus
  BY <1>10, <1>a DEF SyncStatus
<1>11. CASE Wake
  BY <1>11, <1>s, <1>a DEF Wake, InPass, Collecting
<1>12. CASE CacheSync
  BY <1>12 DEF CacheSync
<1>13. CASE Shutdown
  BY <1>13, <1>s, <1>a, <1>i DEF Shutdown, InPass, Collecting, pass
<1>14. CASE Crash
  <2>1. cache' = api' /\ UNCHANGED api
    BY <1>14 DEF Crash
  <2>2. pc' \in {"idle", "done", "aborted"}
    BY <1>14 DEF Crash, Active
  <2> QED BY <1>w, <2>1, <2>2 DEF SyncInv, KeepsCompleted, InPass, Collecting
<1>15. CASE UNCHANGED vars
  BY <1>15, <1>s, <1>a, <1>i DEF vars, pass, InPass, Collecting
<1> QED BY <1>1, <1>2, <1>3, <1>4, <1>5, <1>6, <1>7, <1>8, <1>9, <1>10, <1>11,
           <1>12, <1>13, <1>14, <1>15 DEF Next, SchedulerStep

LEMMA SyncInvariant ==
    ASSUME InformerLag = FALSE
    PROVE  Spec => []SyncInv
<1>1. TypeOK /\ SyncInv /\ [Next]_vars => SyncInv'
  BY SyncNext
<1> QED BY <1>1, SyncInit, TypeCorrect, PTL DEF Spec

(***************************************************************************)
(* When the cache does not lag, no step of the hop takes a completion      *)
(* record away: neither a patch of another component, nor the start of a   *)
(* new pass, nor a crash.                                                  *)
(***************************************************************************)
THEOREM ProgressKept ==
    ASSUME InformerLag = FALSE
    PROVE  Spec => CompletionsKept
<1>1. TypeOK /\ SyncInv /\ [Next]_vars =>
          [api.du.target = "hop" => api.du.completed \subseteq api'.du.completed]_vars
  BY SyncNext DEF KeepsCompleted
<1> QED BY <1>1, SyncInvariant, TypeCorrect, PTL DEF Spec, CompletionsKept

(***************************************************************************)
(* When the cache does not lag, no worker starts a component that the API  *)
(* server records as completed, over all passes and restarts of the hop.   *)
(***************************************************************************)
THEOREM CompletedNotRunAgain ==
    ASSUME InformerLag = FALSE
    PROVE  Spec => NoRework
<1> DEFINE A == \A c \in Components :
                    worker[c] # "running" /\ worker'[c] = "running"
                        => c \notin api.du.completed
<1>1. TypeOK /\ SyncInv /\ [Next]_vars => [A]_vars
  <2> SUFFICES ASSUME TypeOK, SyncInv, [Next]_vars, NEW c \in Components,
                      worker[c] # "running", worker'[c] = "running"
               PROVE  c \notin api.du.completed
    OBVIOUS
  <2>1. worker \in [Components -> WorkerStates]
    BY TypeParts DEF PassType
  <2>2. PICK d \in Components : Acquire(d)
    <3>1. worker' # worker /\ worker' # IdleWorkers
      BY DEF IdleWorkers
    <3>2. ~\E d \in Components : Drop(d)
      BY <2>1 DEF Drop
    <3>3. ~\E d \in Components, r \in {"ok", "skip", "err"} : Return(d, r)
      BY <2>1 DEF Return
    <3>4. ~StartBatch
      BY <3>1 DEF StartBatch
    <3> QED BY <3>1, <3>2, <3>3, <3>4
            DEF Next, SchedulerStep, ComponentStep, BeginPass, Prepare, PersistSkip,
                PersistFailure, MarkLifecycleFailed, MarkLifecycleInstalled, Wait,
                PersistSuccesses, EndBatch, HandleFailure, PersistFinished,
                ClearUpgradeReady, SyncStatus, Wake, CacheSync, Shutdown, Crash,
                vars, run
  <2>3. c = d /\ pc = "run" /\ worker[d] = "queued"
    BY <2>1, <2>2 DEF Acquire
  <2> QED BY <2>3 DEF SyncInv, WorkersOK
<1> QED BY <1>1, SyncInvariant, TypeCorrect, PTL DEF Spec, NoRework

-----------------------------------------------------------------------------
(***************************************************************************)
(* The order of the upgrade, with every failure policy FailFast, as        *)
(* BuildUpgradeDAG sets it, and without a shutdown, which the runs show to *)
(* break the order.  Everything else may happen: failures, crashes and a   *)
(* lagging cache.                                                          *)
(***************************************************************************)
LEMMA NoShutdown ==
    ASSUME Shutdowns = FALSE
    PROVE  ~stopping /\ [Next]_vars => ~stopping'
BY DEF Next, SchedulerStep, ComponentStep, BeginPass, StartBatch, Prepare, Acquire,
       Drop, Return, PersistSkip, PersistFailure, MarkLifecycleFailed,
       MarkLifecycleInstalled, Wait, PersistSuccesses, EndBatch, HandleFailure,
       PersistFinished, ClearUpgradeReady, SyncStatus, Wake, CacheSync, Shutdown,
       Crash, vars

\* The dropped goroutines of a batch.
LEMMA DroppedNext ==
    ASSUME FailFast = Components
    PROVE  TypeOK /\ ~stopping /\ WorkersOK /\ DroppedOK /\ [Next]_vars => DroppedOK'
<1> SUFFICES ASSUME TypeOK, ~stopping, WorkersOK, DroppedOK, [Next]_vars
             PROVE  DroppedOK'
  OBVIOUS
<1>d. worker \in [Components -> WorkerStates] /\ PassType
  BY TypeParts DEF PassType
<1>o. ASSUME pc' \notin {"run", "failures", "markFailed", "markInstalled"}
      PROVE  DroppedOK'
  BY <1>o DEF DroppedOK, Collecting
<1>s. ASSUME pc \in {"run", "failures", "markFailed", "markInstalled"},
             UNCHANGED <<worker, cancelled>>
      PROVE  DroppedOK'
  BY <1>s DEF DroppedOK, Collecting, In
<1>1. CASE BeginPass
  BY <1>1, <1>o DEF BeginPass
<1>2. ASSUME NEW c \in Components, ComponentStep(c) PROVE DroppedOK'
  <2>1. CASE Prepare(c)
    BY <2>1, <1>o DEF Prepare, PendingFailed
  <2>2. CASE Acquire(c)
    BY <2>2, <1>d DEF Acquire, DroppedOK, Collecting, In, pass
  <2>3. CASE Drop(c)
    BY <2>3, <1>d DEF Drop, DroppedOK, Collecting, In, pass
  <2>4. ASSUME NEW r \in {"ok", "skip", "err"}, Return(c, r) PROVE DroppedOK'
    BY <2>4, <1>d DEF Return, DroppedOK, Collecting, In, pass
  <2>5. CASE PersistSkip(c)
    BY <2>5, <1>s DEF PersistSkip, run
  <2>6. CASE PersistFailure(c)
    BY <2>6, <1>s DEF PersistFailure, run
  <2>7. CASE MarkLifecycleFailed(c)
    BY <2>7, <1>s DEF MarkLifecycleFailed, run
  <2>8. CASE MarkLifecycleInstalled(c)
    BY <2>8, <1>s DEF MarkLifecycleInstalled, run
  <2> QED BY <1>2, <2>1, <2>2, <2>3, <2>4, <2>5, <2>6, <2>7, <2>8 DEF ComponentStep
<1>3. CASE StartBatch
  <2>1. CASE AfterBatch
    BY <2>1, <1>d, <1>o, AfterBatchType
  <2>2. CASE /\ worker' = [c \in Components |->
                               IF c \in items THEN "queued" ELSE "none"]
             /\ cancelled' = FALSE
    BY <2>2 DEF DroppedOK, In
  <2> QED BY <1>3, <2>1, <2>2 DEF StartBatch
<1>4. CASE Wait
  BY <1>4, <1>s DEF Wait, run
<1>5. CASE PersistSuccesses
  BY <1>5, <1>s DEF PersistSuccesses, run
<1>6. CASE EndBatch
  BY <1>6, <1>d, <1>o, AfterBatchType DEF EndBatch
<1>7. CASE HandleFailure
  BY <1>7, <1>o DEF HandleFailure
<1>8. CASE PersistFinished
  BY <1>8, <1>o DEF PersistFinished
<1>9. CASE ClearUpgradeReady
  BY <1>9, <1>o DEF ClearUpgradeReady
<1>10. CASE SyncStatus \/ CacheSync \/ Shutdown \/ UNCHANGED vars
  <2>1. UNCHANGED <<pc, worker, cancelled>>
    BY <1>10 DEF SyncStatus, CacheSync, Shutdown, vars, pass, run
  <2> QED BY <1>o, <1>s, <2>1
<1>11. CASE Wake
  BY <1>11, <1>o DEF Wake
<1>12. CASE Crash
  BY <1>12, <1>o DEF Crash, Active
<1> QED BY <1>1, <1>2, <1>3, <1>4, <1>5, <1>6, <1>7, <1>8, <1>9, <1>10, <1>11,
           <1>12 DEF Next, SchedulerStep

(***************************************************************************)
(* The status left over from an earlier hop.  Every write but those of     *)
(* ensureDeclarativeUpgradeProgress, persistDeclarativeUpgradeFinished and *)
(* the status sync leaves target and FinishedAt of the API server alone.   *)
(***************************************************************************)
SameHop(x, y) == x.target = y.target /\ x.finished = y.finished

\* What such a step may do to the three copies.
QuietStep ==
    /\ SameHop(api'.du, api.du)
    /\ cache'.du = cache.du \/ cache'.du = api'.du
    /\ mem' = mem \/ mem' = api'.du
    /\ InPass' => InPass

LEMMA QuietSteps ==
    TypeOK /\ [Next]_vars =>
        BeginPass \/ PersistFinished \/ SyncStatus \/ Crash \/ QuietStep
<1> SUFFICES ASSUME TypeOK, [Next]_vars, ~BeginPass, ~PersistFinished, ~SyncStatus, ~Crash
             PROVE  QuietStep
  OBVIOUS
<1>d. /\ api \in StatusType /\ cache \in StatusType /\ mem \in Progress
      /\ api.du \in Progress /\ cache.du \in Progress /\ PassType
  BY TypeParts DEF DataType, StatusType
<1>s. ASSUME UNCHANGED <<mem, api, cache>>, InPass' => InPass PROVE QuietStep
  BY <1>s DEF QuietStep, SameHop
<1>l. ASSUME NEW c \in Components, NEW phase \in LifecyclePhases,
             PatchLife(c, phase) \/ PatchLifeFails, UNCHANGED mem, InPass
      PROVE  QuietStep
  <2>1. api'.du = api.du /\ (cache' = cache \/ cache' = api')
    BY <1>l, PatchLifeEffect
  <2> QED BY <1>l, <2>1 DEF QuietStep, SameHop
<1>p. ASSUME NEW new \in Progress, new.target = cache.du.target,
             new.finished = cache.du.finished,
             PatchProgress(new) \/ PatchProgressFails, InPass
      PROVE  QuietStep
  <2>1. /\ SameHop(api'.du, api.du)
        /\ \/ UNCHANGED <<api, mem, cache>>
           \/ /\ cache.du.target # "none" /\ mem' = api'.du
              /\ cache' = cache \/ cache' = api'
    BY <1>p, PatchProgressEffect DEF SameHop
  <2> QED BY <1>p, <2>1 DEF QuietStep
<1>2. ASSUME NEW c \in Components, ComponentStep(c) PROVE QuietStep
  <2>1. CASE Prepare(c)
    <3>1. InPass /\ UNCHANGED mem
      BY <2>1 DEF Prepare, InPass
    <3>2. CASE UNCHANGED <<api, cache>>
      BY <1>s, <3>1, <3>2
    <3>3. CASE PatchLife(c, "Pending") \/ PatchLifeFails
      BY <1>l, <3>1, <3>3 DEF LifecyclePhases
    <3> QED BY <2>1, <3>2, <3>3 DEF Prepare
  <2>2. CASE Acquire(c)
    BY <2>2, <1>s DEF Acquire, InPass
  <2>3. CASE Drop(c)
    BY <2>3, <1>s DEF Drop, InPass
  <2>4. ASSUME NEW r \in {"ok", "skip", "err"}, Return(c, r) PROVE QuietStep
    BY <2>4, <1>s DEF Return, InPass
  <2>5. CASE PersistSkip(c)
    <3>1. InPass /\ UNCHANGED mem
      BY <2>5 DEF PersistSkip, InPass, Collecting
    <3>2. CASE UNCHANGED <<api, cache>>
      BY <1>s, <3>1, <3>2
    <3>3. CASE PatchLife(c, "none") \/ PatchLifeFails
      BY <1>l, <3>1, <3>3 DEF LifecyclePhases
    <3> QED BY <2>5, <3>2, <3>3 DEF PersistSkip
  <2>6. CASE PersistFailure(c)
    <3>1. InPass /\ (PatchProgress(MarkFailure(cache.du, c)) \/ PatchProgressFails)
      BY <2>6 DEF PersistFailure, InPass, Collecting
    <3> QED BY <1>d, <1>p, <3>1, MarkFailureType
  <2>7. CASE MarkLifecycleFailed(c)
    BY <2>7, <1>l DEF MarkLifecycleFailed, LifecyclePhases, InPass, Collecting
  <2>8. CASE MarkLifecycleInstalled(c)
    BY <2>8, <1>l DEF MarkLifecycleInstalled, LifecyclePhases, InPass, Collecting
  <2> QED BY <1>2, <2>1, <2>2, <2>3, <2>4, <2>5, <2>6, <2>7, <2>8 DEF ComponentStep
<1>3. CASE StartBatch
  BY <1>3, <1>s DEF StartBatch, InPass
<1>4. CASE Wait
  BY <1>4, <1>s DEF Wait, InPass
<1>5. CASE PersistSuccesses
  <2>1. InPass
    BY <1>5 DEF PersistSuccesses, InPass, Collecting
  <2>2. CASE UNCHANGED <<mem, api, cache>>
    BY <1>s, <2>1, <2>2
  <2>3. CASE PatchProgress(MarkCompleted(cache.du, Succeeded)) \/ PatchProgressFails
    <3>1. Succeeded \in SUBSET Components
      BY DEF Succeeded, In
    <3> QED BY <1>d, <1>p, <2>1, <2>3, <3>1, MarkCompletedType
  <2> QED BY <1>5, <2>2, <2>3 DEF PersistSuccesses
<1>6. CASE EndBatch
  BY <1>6, <1>s DEF EndBatch, InPass, Collecting
<1>7. CASE HandleFailure
  BY <1>7, <1>s DEF HandleFailure, InPass, Collecting
<1>9. CASE ClearUpgradeReady
  BY <1>9, <1>s DEF ClearUpgradeReady, InPass, Collecting
<1>11. CASE Wake
  BY <1>11, <1>s DEF Wake, InPass, Collecting
<1>12. CASE CacheSync
  BY <1>12 DEF CacheSync, QuietStep, SameHop, InPass, Collecting, pass
<1>13. CASE Shutdown
  BY <1>13, <1>s DEF Shutdown, InPass, Collecting, pass
<1>15. CASE UNCHANGED vars
  BY <1>15, <1>s DEF vars, InPass, Collecting, pass
<1> QED BY <1>2, <1>3, <1>4, <1>5, <1>6, <1>7, <1>9, <1>11, <1>12, <1>13, <1>15
        DEF Next, SchedulerStep

\* The two writes of the target and of FinishedAt, and what a crash leaves.
LEMMA LoudSteps ==
    ASSUME TypeOK, BeginPass \/ PersistFinished \/ Crash
    PROVE  /\ cache'.du = cache.du \/ cache'.du = api'.du
           /\ BeginPass =>
                  /\ api'.du.target = Patched(api.du.target, cache.du.target, "hop")
                  /\ api'.du.finished = Patched(api.du.finished, cache.du.finished, FALSE)
                  /\ mem'.target = "hop" /\ mem'.finished = FALSE
                  /\ pc = "idle" /\ pc' \in {"idle", "prepare"}
           /\ PersistFinished =>
                  \/ UNCHANGED <<mem, api, cache>> /\ pc = "finish" /\ pc' = "idle"
                  \/ /\ api'.du.target = Patched(api.du.target, cache.du.target, mem.target)
                     /\ api'.du.finished = Patched(api.du.finished, cache.du.finished, TRUE)
                     /\ mem'.target = mem.target /\ mem'.finished = TRUE
                     /\ pc = "finish" /\ pc' = "clear"
           /\ Crash => /\ UNCHANGED api /\ cache' = api /\ mem'.target = "none"
                       /\ pc' \in {"idle", "done", "aborted"}
<1>d. /\ api \in StatusType /\ cache \in StatusType /\ mem \in Progress
      /\ api.du \in Progress /\ cache.du \in Progress
  BY TypeParts DEF DataType, StatusType
<1>1. ASSUME BeginPass
      PROVE  /\ api'.du.target = Patched(api.du.target, cache.du.target, "hop")
             /\ api'.du.finished = Patched(api.du.finished, cache.du.finished, FALSE)
             /\ mem'.target = "hop" /\ mem'.finished = FALSE
             /\ pc = "idle" /\ pc' \in {"idle", "prepare"}
             /\ cache' = cache \/ cache' = api'
  <2> DEFINE du == EnsureInitialized(cache.du)
             p  == MergePatch(api.du, cache.du, du)
  <2>1. du.target = "hop" /\ du.finished = FALSE
    BY <1>d, EnsureInitializedType
  <2>2. /\ p.target = Patched(api.du.target, cache.du.target, "hop")
        /\ p.finished = Patched(api.du.finished, cache.du.finished, FALSE)
    BY <2>1 DEF MergePatch
  <2>3. mem' = du /\ api' = [api EXCEPT !.du = p] /\ CacheFollows
    BY <1>1 DEF BeginPass
  <2> HIDE DEF p, du
  <2>4. api'.du = p
    BY <1>d, <2>3 DEF StatusType
  <2>5. pc = "idle" /\ pc' \in {"idle", "prepare"}
    BY <1>1 DEF BeginPass
  <2> QED BY <2>1, <2>2, <2>3, <2>4, <2>5 DEF CacheFollows
<1>2. ASSUME PersistFinished
      PROVE  \/ UNCHANGED <<mem, api, cache>> /\ pc = "finish" /\ pc' = "idle"
             \/ /\ api'.du.target = Patched(api.du.target, cache.du.target, mem.target)
                /\ api'.du.finished = Patched(api.du.finished, cache.du.finished, TRUE)
                /\ mem'.target = mem.target /\ mem'.finished = TRUE
                /\ pc = "finish" /\ pc' = "clear"
                /\ cache' = cache \/ cache' = api'
  <2> DEFINE du == [mem EXCEPT !.finished = TRUE, !.failure = None]
             p  == MergePatch(api.du, cache.du, du)
  <2>1. du.target = mem.target /\ du.finished = TRUE
    BY <1>d, FinishedType
  <2>2. /\ p.target = Patched(api.du.target, cache.du.target, mem.target)
        /\ p.finished = Patched(api.du.finished, cache.du.finished, TRUE)
    BY <2>1 DEF MergePatch
  <2>3. \/ UNCHANGED <<mem, api, cache>> /\ pc = "finish" /\ pc' = "idle"
        \/ /\ mem' = du /\ api' = [api EXCEPT !.du = p] /\ CacheFollows
           /\ pc = "finish" /\ pc' = "clear"
    BY <1>2 DEF PersistFinished
  <2> HIDE DEF p, du
  <2>4. api' = [api EXCEPT !.du = p] => api'.du = p
    BY <1>d DEF StatusType
  <2> QED BY <2>1, <2>2, <2>3, <2>4 DEF CacheFollows
<1>3. ASSUME Crash
      PROVE  /\ UNCHANGED api /\ cache' = api /\ mem'.target = "none"
             /\ pc' \in {"idle", "done", "aborted"}
  BY <1>3 DEF Crash, NoProgress, Active
<1> QED BY <1>1, <1>2, <1>3

\* What was passed stays passed.
LEMMA PassedGrows == [Next]_vars => passed \subseteq passed'
BY DEF Next, SchedulerStep, ComponentStep, BeginPass, StartBatch, Prepare, Acquire,
       Drop, Return, PersistSkip, PersistFailure, MarkLifecycleFailed,
       MarkLifecycleInstalled, Wait, PersistSuccesses, EndBatch, HandleFailure,
       PersistFinished, ClearUpgradeReady, SyncStatus, Wake, CacheSync, Shutdown,
       Crash, vars, env

\* The next batch, or the verdict, when the current batch is settled.
LEMMA LeftoverInit == Init => LeftoverOK
<1> SUFFICES ASSUME Init PROVE LeftoverOK
  OBVIOUS
<1>1. /\ NoProgress.target = "none" /\ NoProgress.finished = FALSE
      /\ OldProgress.target = "old" /\ OldProgress.finished = TRUE
  BY DEF NoProgress, OldProgress
<1>2. /\ api.du = NoProgress \/ api.du = OldProgress
      /\ cache = api /\ pc = "idle"
  BY DEF Init
<1> QED BY <1>1, <1>2 DEF LeftoverOK, Meet, InPass, Collecting

LEMMA LeftoverNext == TypeOK /\ PassOK /\ LeftoverOK /\ [Next]_vars => LeftoverOK'
<1> SUFFICES ASSUME TypeOK, PassOK, LeftoverOK, [Next]_vars PROVE LeftoverOK'
  OBVIOUS
<1>d. /\ api.du.target \in {"none", "old", "hop"} /\ api.du.finished \in BOOLEAN
      /\ cache.du.target \in {"none", "old", "hop"} /\ cache.du.finished \in BOOLEAN
      /\ mem.target \in {"none", "old", "hop"} /\ mem.finished \in BOOLEAN
  BY TypeParts, ProgressFields DEF DataType, StatusType
<1>g. Components \subseteq Settled => Components \subseteq Settled'
  BY PassedGrows DEF Settled
<1>1. CASE BeginPass
  <2>1. /\ api'.du.target = Patched(api.du.target, cache.du.target, "hop")
        /\ api'.du.finished = Patched(api.du.finished, cache.du.finished, FALSE)
        /\ mem'.target = "hop"
        /\ cache'.du = cache.du \/ cache'.du = api'.du
    BY <1>1, LoudSteps
  <2> QED BY <1>d, <1>g, <2>1 DEF LeftoverOK, Meet, Patched
<1>2. CASE PersistFinished
  <2>0. Components \subseteq Settled'
    BY <1>2, <1>g DEF PersistFinished, PassOK
  <2>1. CASE UNCHANGED <<mem, api, cache>> /\ pc' = "idle"
    BY <2>0, <2>1 DEF LeftoverOK, InPass, Collecting
  <2>2. CASE /\ api'.du.target = Patched(api.du.target, cache.du.target, mem.target)
             /\ mem'.target = mem.target
             /\ pc = "finish" /\ pc' = "clear"
             /\ cache'.du = cache.du \/ cache'.du = api'.du
    BY <1>d, <2>0, <2>2 DEF LeftoverOK, Meet, Patched, InPass, Collecting
  <2> QED BY <1>2, <2>1, <2>2, LoudSteps
<1>3. CASE Crash
  <2>1. /\ UNCHANGED api /\ cache' = api /\ pc' \in {"idle", "done", "aborted"}
    BY <1>3, LoudSteps
  <2> QED BY <1>d, <1>g, <2>1 DEF LeftoverOK, Meet, InPass, Collecting
<1>4. CASE QuietStep
  BY <1>d, <1>4, <1>g DEF LeftoverOK, Meet, QuietStep, SameHop
<1>5. CASE SyncStatus
  <2>1. /\ api'.du = cache.du \/ api'.du = api.du
        /\ cache'.du = api.du /\ mem' = mem
        /\ InPass' => InPass
    BY <1>5 DEF SyncStatus, pass, InPass, Collecting
  <2> QED BY <1>d, <1>g, <2>1 DEF LeftoverOK, Meet
<1> QED BY <1>1, <1>2, <1>3, <1>4, <1>5, QuietSteps

\* A hop is finished only when every component is settled.
LEMMA FinishedSettled == LeftoverOK /\ HopFinished => Components \subseteq Settled
BY DEF LeftoverOK, HopFinished

LEMMA AfterBatchSettled ==
    ASSUME TypeOK, AfterBatch, UNCHANGED passed,
           \A j \in 1 .. (batch - 1) : Batches[j] \subseteq Settled,
           stop \/ Batches[batch] \subseteq Settled
    PROVE  /\ pc' \in {"prepare", "finish", "failed"}
           /\ pc' = "prepare" =>
                  /\ \A j \in 1 .. (batch' - 1) : Batches[j] \subseteq Settled'
                  /\ items' = {}
                  /\ todo' = Batches[batch']
           /\ pc' = "finish" => Components \subseteq Settled'
<1>0. /\ batch \in 1 .. Len(Batches) /\ stop \in BOOLEAN /\ errs \in BOOLEAN
      /\ Settled' = Settled
  BY BatchFacts, TypeParts DEF PassType, Settled
<1>1. CASE stop
  BY <1>0, <1>1 DEF AfterBatch
<1>2. CASE ~stop /\ batch < Len(Batches)
  <2>1. /\ pc' = "prepare" /\ batch' = batch + 1 /\ items' = {}
        /\ todo' = Batches[batch + 1]
    BY <1>2 DEF AfterBatch
  <2>2. \A j \in 1 .. batch : Batches[j] \subseteq Settled
    <3> TAKE j \in 1 .. batch
    <3>1. j = batch \/ j \in 1 .. (batch - 1)
      BY <1>0, BatchFacts
    <3> QED BY <1>2, <3>1
  <2>3. (batch + 1) - 1 = batch
    BY <1>0, BatchFacts
  <2> QED BY <1>0, <2>1, <2>2, <2>3
<1>3. CASE ~stop /\ ~(batch < Len(Batches))
  <2>1. pc' \in {"finish", "failed"}
    BY <1>3 DEF AfterBatch, Verdict
  <2>2. \A j \in 1 .. Len(Batches) : Batches[j] \subseteq Settled
    <3> TAKE j \in 1 .. Len(Batches)
    <3>1. j = batch \/ j \in 1 .. (batch - 1)
      BY <1>0, <1>3, BatchFacts
    <3> QED BY <1>3, <3>1
  <2>3. Components \subseteq Settled
    BY <2>2, BatchFacts, BatchesAssumption
  <2> QED BY <1>0, <2>1, <2>3
<1> QED BY <1>1, <1>2, <1>3

LEMMA PassInit == Init => PassOK
BY DEF Init, PassOK, Collecting

LEMMA PassNext ==
    ASSUME FailFast = Components
    PROVE  TypeOK /\ RecordsOK /\ OrderInv /\ [Next]_vars => PassOK'
<1> SUFFICES ASSUME TypeOK, RecordsOK, OrderInv, [Next]_vars PROVE PassOK'
  OBVIOUS
<1>o. ~stopping /\ WorkersOK /\ DroppedOK /\ LeftoverOK /\ PassOK
  BY DEF OrderInv
<1>d. /\ PassType /\ worker \in [Components -> WorkerStates]
      /\ batch \in 1 .. Len(Batches) /\ items \subseteq Components
  BY TypeParts, BatchFacts DEF PassType
<1>g. passed \subseteq passed' /\ Settled \subseteq Settled'
  BY PassedGrows DEF Settled
\* The pass is over.
<1>e. ASSUME pc' \notin {"prepare", "run", "failures", "markFailed", "markInstalled"},
             pc' \in {"finish", "clear", "done"} => Components \subseteq Settled'
      PROVE  PassOK'
  BY <1>e DEF PassOK, Collecting
\* The results of the batch are collected.
<1>c. ASSUME pc \in {"run", "failures", "markFailed", "markInstalled"},
             pc' \in {"failures", "markFailed", "markInstalled"},
             UNCHANGED <<batch, items>>,
             pc' = "failures" => stop' \/ In("err")' \subseteq todo',
             pc' = "markFailed" => stop',
             pc' = "markInstalled" => stop' \/ In("err")' = {}
      PROVE  PassOK'
  <2>1. /\ \A j \in 1 .. (batch' - 1) : Batches[j] \subseteq Settled'
        /\ items' \subseteq Batches[batch']
        /\ Batches[batch'] \subseteq items' \cup Settled'
    BY <1>c, <1>o, <1>g DEF PassOK, Collecting
  <2> QED BY <1>c, <2>1 DEF PassOK, Collecting
\* The goroutines are running.
<1>r. ASSUME pc = "run", pc' = "run", UNCHANGED <<batch, items>>
      PROVE  PassOK'
  <2>1. /\ \A j \in 1 .. (batch' - 1) : Batches[j] \subseteq Settled'
        /\ items' \subseteq Batches[batch']
        /\ Batches[batch'] \subseteq items' \cup Settled'
    BY <1>r, <1>o, <1>g DEF PassOK
  <2> QED BY <1>r, <2>1 DEF PassOK, Collecting
\* A batch has begun.
<1>b. ASSUME pc' = "prepare",
             \A j \in 1 .. (batch' - 1) : Batches[j] \subseteq Settled',
             items' = {}, todo' = Batches[batch']
      PROVE  PassOK'
  BY <1>b DEF PassOK, Collecting
<1>s. ASSUME UNCHANGED <<pc, batch, todo, items, worker, errs, stop>>
      PROVE  PassOK'
  <2>1. UNCHANGED In("err")
    BY <1>s DEF In
  <2>2. CASE pc = "prepare"
    <3>1. /\ \A j \in 1 .. (batch' - 1) : Batches[j] \subseteq Settled'
          /\ items' \subseteq Batches[batch'] /\ todo' \subseteq Batches[batch']
          /\ Batches[batch'] \subseteq todo' \cup items' \cup Settled'
      BY <1>s, <1>o, <1>g, <2>2 DEF PassOK
    <3> QED BY <1>s, <2>2, <3>1 DEF PassOK, Collecting
  <2>3. CASE pc = "run"
    BY <1>s, <1>r, <2>3
  <2>4. CASE pc \in {"failures", "markFailed", "markInstalled"}
    BY <1>s, <1>c, <1>o, <2>1, <2>4 DEF PassOK
  <2>5. CASE pc \notin {"prepare", "run", "failures", "markFailed", "markInstalled"}
    BY <1>s, <1>e, <1>o, <1>g, <2>5 DEF PassOK
  <2> QED BY <2>2, <2>3, <2>4, <2>5
<1>1. CASE BeginPass
  <2>1. CASE pc' = "prepare" /\ todo' = Batches[1]
    <3>1. batch' = 1 /\ items' = {} /\ \A j \in 1 .. (1 - 1) : Batches[j] \subseteq Settled'
      BY <1>1 DEF BeginPass
    <3> QED BY <1>b, <2>1, <3>1
  <2>2. CASE UNCHANGED pc
    BY <1>1, <1>e, <2>2 DEF BeginPass
  <2> QED BY <1>1, <2>1, <2>2 DEF BeginPass
<1>2. ASSUME NEW c \in Components, ComponentStep(c) PROVE PassOK'
  <2>1. CASE Prepare(c)
    <3>0. pc = "prepare" /\ c \in todo /\ UNCHANGED batch
      BY <2>1 DEF Prepare, First
    <3>1. CASE PendingFailed(c)
      BY <1>e, <3>1 DEF PendingFailed
    <3>2. CASE /\ UNCHANGED pc /\ todo' = todo \ {c}
               /\ \/ Skipped(c) /\ UNCHANGED items
                  \/ items' = items \cup {c}
      <4>1. Skipped(c) => c \in Settled
        BY DEF Skipped, Settled, RecordsOK, CompletedHonest
      <4>2. /\ \A j \in 1 .. (batch - 1) : Batches[j] \subseteq Settled
            /\ items \subseteq Batches[batch] /\ todo \subseteq Batches[batch]
            /\ Batches[batch] \subseteq todo \cup items \cup Settled
        BY <1>o, <3>0 DEF PassOK
      <4>3. /\ \A j \in 1 .. (batch' - 1) : Batches[j] \subseteq Settled'
            /\ items' \subseteq Batches[batch'] /\ todo' \subseteq Batches[batch']
            /\ Batches[batch'] \subseteq todo' \cup items' \cup Settled'
        BY <1>g, <3>0, <3>2, <4>1, <4>2
      <4> QED BY <3>0, <3>2, <4>3 DEF PassOK, Collecting
    <3> QED BY <2>1, <3>1, <3>2 DEF Prepare
  <2>2. CASE Acquire(c)
    BY <2>2, <1>r DEF Acquire, pass
  <2>3. CASE Drop(c)
    BY <2>3, <1>r DEF Drop, pass
  <2>4. ASSUME NEW r \in {"ok", "skip", "err"}, Return(c, r) PROVE PassOK'
    BY <2>4, <1>r DEF Return, pass
  <2>5. CASE PersistSkip(c)
    <3>1. /\ pc = "failures" /\ pc' = "failures" /\ UNCHANGED <<batch, items, stop>>
          /\ todo' = todo \ {c} /\ worker[c] = "skip" /\ UNCHANGED worker
      BY <2>5 DEF PersistSkip, run
    <3>2. stop' \/ In("err")' \subseteq todo'
      BY <1>o, <3>1 DEF PassOK, In
    <3> QED BY <1>c, <3>1, <3>2
  <2>6. CASE PersistFailure(c)
    <3>1. stop' = TRUE
      BY <2>6 DEF PersistFailure, Stops
    <3> QED BY <2>6, <1>c, <3>1 DEF PersistFailure
  <2>7. CASE MarkLifecycleFailed(c)
    <3>1. stop' = stop /\ stop
      BY <2>7, <1>o DEF MarkLifecycleFailed, PassOK
    <3> QED BY <2>7, <1>c, <3>1 DEF MarkLifecycleFailed
  <2>8. CASE MarkLifecycleInstalled(c)
    <3>1. stop => stop'
      BY <2>8 DEF MarkLifecycleInstalled
    <3>2. UNCHANGED In("err")
      BY <2>8 DEF MarkLifecycleInstalled, run, In
    <3>3. stop \/ In("err") = {}
      BY <2>8, <1>o DEF MarkLifecycleInstalled, PassOK
    <3> QED BY <2>8, <1>c, <3>1, <3>2, <3>3 DEF MarkLifecycleInstalled
  <2> QED BY <1>2, <2>1, <2>2, <2>3, <2>4, <2>5, <2>6, <2>7, <2>8 DEF ComponentStep
<1>3. CASE StartBatch
  <2>0. /\ pc = "prepare" /\ todo = {} /\ UNCHANGED passed
        /\ \A j \in 1 .. (batch - 1) : Batches[j] \subseteq Settled
        /\ items \subseteq Batches[batch]
        /\ Batches[batch] \subseteq items \cup Settled
    BY <1>3, <1>o DEF StartBatch, PassOK, env
  <2>1. CASE items = {} /\ AfterBatch
    <3>1. /\ pc' \in {"prepare", "finish", "failed"}
          /\ pc' = "prepare" =>
                 /\ \A j \in 1 .. (batch' - 1) : Batches[j] \subseteq Settled'
                 /\ items' = {}
                 /\ todo' = Batches[batch']
          /\ pc' = "finish" => Components \subseteq Settled'
      BY <2>0, <2>1, AfterBatchSettled
    <3> QED BY <1>b, <1>e, <3>1
  <2>2. CASE pc' = "run" /\ UNCHANGED <<batch, items>>
    <3>1. /\ \A j \in 1 .. (batch' - 1) : Batches[j] \subseteq Settled'
          /\ items' \subseteq Batches[batch']
          /\ Batches[batch'] \subseteq items' \cup Settled'
      BY <1>g, <2>0, <2>2
    <3> QED BY <2>2, <3>1 DEF PassOK, Collecting
  <2> QED BY <1>3, <2>1, <2>2 DEF StartBatch
<1>4. CASE Wait
  <2>1. In("err")' \subseteq todo'
    BY <1>4 DEF Wait, run, In
  <2> QED BY <1>4, <1>c, <2>1 DEF Wait
<1>5. CASE PersistSuccesses
  <2>1. stop => stop'
    BY <1>5 DEF PersistSuccesses
  <2>2. UNCHANGED In("err")
    BY <1>5 DEF PersistSuccesses, run, In
  <2>3. stop \/ In("err") = {}
    BY <1>5, <1>o DEF PersistSuccesses, PassOK
  <2> QED BY <1>5, <1>c, <2>1, <2>2, <2>3 DEF PersistSuccesses
<1>6. CASE EndBatch
  <2>0. /\ pc = "markInstalled" /\ UNCHANGED passed /\ AfterBatch
        /\ \A j \in 1 .. (batch - 1) : Batches[j] \subseteq Settled
        /\ Batches[batch] \subseteq items \cup Settled
    BY <1>6, <1>o DEF EndBatch, PassOK, Collecting, env
  <2>1. stop \/ items \subseteq passed
    <3> SUFFICES ASSUME ~stop, NEW c \in items PROVE c \in passed
      OBVIOUS
    <3>1. In("err") = {} /\ In("dropped") = {}
      BY <1>o, <2>0 DEF PassOK, DroppedOK, Collecting
    <3>2. In("queued") = {} /\ Running = {}
      BY <1>o, <2>0 DEF WorkersOK, Collecting
    <3>3. c \in Components /\ worker[c] # "none"
      BY <1>o, <1>d, <2>0 DEF WorkersOK, Collecting
    <3>4. worker[c] \in {"ok", "skip"}
      BY <1>d, <3>1, <3>2, <3>3 DEF In, Running, WorkerStates
    <3>5. c \in In("ok") \cup In("skip")
      BY <3>3, <3>4 DEF In
    <3> QED BY <3>5 DEF RecordsOK
  <2>2. stop \/ Batches[batch] \subseteq Settled
    BY <2>0, <2>1 DEF Settled
  <2>3. /\ pc' \in {"prepare", "finish", "failed"}
        /\ pc' = "prepare" =>
               /\ \A j \in 1 .. (batch' - 1) : Batches[j] \subseteq Settled'
               /\ items' = {}
               /\ todo' = Batches[batch']
        /\ pc' = "finish" => Components \subseteq Settled'
    BY <2>0, <2>2, AfterBatchSettled
  <2> QED BY <1>b, <1>e, <2>3
<1>7. CASE HandleFailure
  BY <1>7, <1>e DEF HandleFailure
<1>8. CASE PersistFinished
  <2>1. Components \subseteq Settled
    BY <1>8, <1>o DEF PersistFinished, PassOK
  <2> QED BY <1>8, <1>e, <1>g, <2>1 DEF PersistFinished
<1>9. CASE ClearUpgradeReady
  <2>1. Components \subseteq Settled
    BY <1>9, <1>o DEF ClearUpgradeReady, PassOK
  <2> QED BY <1>9, <1>e, <1>g, <2>1 DEF ClearUpgradeReady
<1>10. CASE SyncStatus \/ CacheSync \/ Shutdown \/ UNCHANGED vars
  BY <1>10, <1>s DEF SyncStatus, CacheSync, Shutdown, vars, pass, run
<1>11. CASE Wake
  BY <1>11, <1>e DEF Wake
<1>12. CASE Crash
  <2>1. pc' = "idle"
    BY <1>12, <1>o DEF Crash
  <2> QED BY <1>e, <2>1
<1> QED BY <1>1, <1>2, <1>3, <1>4, <1>5, <1>6, <1>7, <1>8, <1>9, <1>10, <1>11,
           <1>12 DEF Next, SchedulerStep

LEMMA OrderInvariant ==
    ASSUME FailFast = Components, Shutdowns = FALSE
    PROVE  Spec => [](TypeOK /\ RecordsOK /\ OrderInv)
<1>1. Init => TypeOK /\ RecordsOK /\ OrderInv
  <2> SUFFICES ASSUME Init PROVE TypeOK /\ RecordsOK /\ OrderInv
    OBVIOUS
  <2>1. ~stopping /\ DroppedOK
    BY DEF Init, DroppedOK, Collecting
  <2> QED BY <2>1, TypeInit, RecordsInit, WorkersInit, LeftoverInit, PassInit
          DEF OrderInv
<1>2. TypeOK /\ RecordsOK /\ OrderInv /\ [Next]_vars => (TypeOK /\ RecordsOK /\ OrderInv)'
  <2> SUFFICES ASSUME TypeOK, RecordsOK, OrderInv, [Next]_vars
               PROVE  (TypeOK /\ RecordsOK /\ OrderInv)'
    OBVIOUS
  <2>1. TypeOK'
    <3>1. PassType' /\ DataType'
      BY PassTypeNext, DataTypeNext
    <3> QED BY <3>1 DEF TypeOK, PassType, DataType, StatusType, WorkerStates
  <2>2. RecordsOK'
    BY RecordsNext
  <2>3. ~stopping' /\ WorkersOK' /\ DroppedOK' /\ LeftoverOK' /\ PassOK'
    BY NoShutdown, WorkersNext, DroppedNext, LeftoverNext, PassNext DEF OrderInv
  <2> QED BY <2>1, <2>2, <2>3 DEF OrderInv
<1> QED BY <1>1, <1>2, PTL DEF Spec

(***************************************************************************)
(* FinishedAt is set, and the hop is done, only when every component that  *)
(* needed the upgrade has run without an error; proved for FailFast        *)
(* components and no shutdown, with failing calls, crashes and a cache     *)
(* that lags.                                                              *)
(***************************************************************************)
THEOREM FinishedIsTrue ==
    ASSUME FailFast = Components, Shutdowns = FALSE
    PROVE  Spec => []FinishedHonest
<1>1. OrderInv => FinishedHonest
  BY FinishedSettled DEF OrderInv, PassOK, FinishedHonest, Settled
<1> QED BY <1>1, OrderInvariant, PTL

\* A work item of the current batch: its prerequisites are in earlier batches.
LEMMA PrereqsSettled ==
    ASSUME TypeOK, OrderInv, NEW c \in Components, pc = "run", c \in items
    PROVE  Prereqs[c] \subseteq Settled
<1>0. batch \in DOMAIN Batches /\ batch \in 1 .. Len(Batches)
  BY TypeParts, BatchFacts DEF PassType
<1>1. /\ \A j \in 1 .. (batch - 1) : Batches[j] \subseteq Settled
      /\ c \in Batches[batch]
  BY DEF OrderInv, PassOK
<1>2. SUFFICES ASSUME NEW p \in Prereqs[c] PROVE p \in Settled
  OBVIOUS
<1>3. PICK j \in DOMAIN Batches : j < batch /\ p \in Batches[j]
  BY <1>0, <1>1, BatchesAssumption
<1>4. j \in 1 .. (batch - 1)
  BY <1>0, <1>3, BatchFacts
<1> QED BY <1>1, <1>3, <1>4

(***************************************************************************)
(* No component runs before those it depends on have run without an error  *)
(* or needed no upgrade: the order of graph.go:21, over failures, crashes, *)
(* restarts and passes that skip what is recorded as completed.            *)
(***************************************************************************)
THEOREM OrderKept ==
    ASSUME FailFast = Components, Shutdowns = FALSE
    PROVE  Spec => []DependencyOrder
<1>1. TypeOK /\ OrderInv => DependencyOrder
  <2> SUFFICES ASSUME TypeOK, OrderInv, NEW c \in Running
               PROVE  Prereqs[c] \cap FailFast \subseteq passed \cup Unneeded
    BY DEF DependencyOrder
  <2>1. c \in Components /\ worker[c] = "running"
    BY DEF Running, In
  <2>2. pc = "run"
    <3>1. ~Collecting
      BY <2>1 DEF OrderInv, WorkersOK
    <3>2. worker # IdleWorkers
      BY <2>1 DEF IdleWorkers
    <3> QED BY <3>1, <3>2 DEF OrderInv, WorkersOK
  <2>3. c \in items
    BY <2>1, <2>2 DEF OrderInv, WorkersOK
  <2> QED BY <2>1, <2>2, <2>3, PrereqsSettled DEF Settled
<1> QED BY <1>1, OrderInvariant, PTL

-----------------------------------------------------------------------------
(***************************************************************************)
(* The refinement of OrderedUpgrade.                                       *)
(***************************************************************************)
\* The steps that change no goroutine and pass no component.
LEMMA WorkersAlone ==
    ASSUME TypeOK, OrderInv, [Next]_vars,
           ~\E c \in Components : Acquire(c) \/ \E r \in {"ok", "skip", "err"} : Return(c, r),
           ~Crash
    PROVE  UNCHANGED <<Running, passed>>
<1>d. worker \in [Components -> WorkerStates] /\ PassType
  BY TypeParts DEF PassType
<1>s. ASSUME UNCHANGED <<worker, passed>> PROVE UNCHANGED <<Running, passed>>
  BY <1>s DEF Running, In
<1>1. CASE StartBatch
  <2>1. worker = IdleWorkers
    BY <1>1 DEF StartBatch, OrderInv, WorkersOK, Collecting
  <2>2. Running = {}
    BY <2>1 DEF Running, In, IdleWorkers
  <2>3. Running' = {}
    BY <1>1, <2>1 DEF StartBatch, Running, In, IdleWorkers
  <2> QED BY <1>1, <2>2, <2>3 DEF StartBatch, env
<1>2. CASE EndBatch
  <2>1. Running = {}
    BY <1>2 DEF EndBatch, OrderInv, WorkersOK, Collecting
  <2>2. Running' = {}
    BY <1>2 DEF EndBatch, Running, In, IdleWorkers
  <2> QED BY <1>2, <2>1, <2>2 DEF EndBatch, env
<1>3. ASSUME NEW c \in Components, Drop(c) PROVE UNCHANGED <<Running, passed>>
  BY <1>3, <1>d DEF Drop, Running, In, env
<1>4. CASE ~StartBatch /\ ~EndBatch /\ ~\E c \in Components : Drop(c)
  <2>1. UNCHANGED <<worker, passed>>
    BY <1>4 DEF Next, SchedulerStep, ComponentStep, BeginPass, Prepare, PersistSkip,
                PersistFailure, MarkLifecycleFailed, MarkLifecycleInstalled, Wait,
                PersistSuccesses, HandleFailure, PersistFinished,
                ClearUpgradeReady, SyncStatus, Wake, CacheSync, Shutdown, vars, run, env
  <2> QED BY <1>s, <2>1
<1> QED BY <1>1, <1>2, <1>3, <1>4

LEMMA RefinesNext ==
    ASSUME FailFast = Components, TypeOK, OrderInv, TypeOK', OrderInv', [Next]_vars
    PROVE  [Promise!Next]_(Promise!vars)
<1> USE DEF Promise!Next, Promise!vars
<1>d. worker \in [Components -> WorkerStates]
  BY TypeParts DEF PassType
<1>f. HopFinished \in BOOLEAN /\ HopFinished' \in BOOLEAN
  BY DEF HopFinished
<1>a. ASSUME UNCHANGED api PROVE UNCHANGED HopFinished
  BY <1>a DEF HopFinished
<1>1. ASSUME NEW c \in Components, Acquire(c) PROVE \E d \in Components : Promise!Start(d)
  <2>1. pc = "run" /\ worker[c] = "queued" /\ c \in items
    BY <1>1 DEF Acquire, OrderInv, WorkersOK
  <2>2. Prereqs[c] \subseteq Settled
    BY <2>1, PrereqsSettled
  <2>3. c \notin Running /\ Running' = Running \cup {c}
    BY <1>1, <1>d, <2>1 DEF Acquire, Running, In
  <2>4. UNCHANGED <<passed, HopFinished>>
    BY <1>1, <1>a DEF Acquire, env
  <2>5. Promise!Start(c)
    BY <2>2, <2>3, <2>4 DEF Promise!Start, Promise!Settled, Settled
  <2> QED BY <2>5
<1>2. ASSUME NEW c \in Components, NEW r \in {"ok", "skip", "err"}, Return(c, r)
      PROVE  \E S \in SUBSET Running : \E T \in SUBSET S : Promise!Settle(S, T)
  <2>1. c \in Running /\ Running' = Running \ {c}
    BY <1>2, <1>d DEF Return, Running, In
  <2>2. PICK T \in SUBSET {c} : passed' = passed \cup T
    <3>1. passed' = passed \cup {c} \/ passed' = passed \cup {}
      BY <1>2 DEF Return
    <3> QED BY <3>1
  <2>3. UNCHANGED HopFinished
    BY <1>2, <1>a DEF Return
  <2>4. Promise!Settle({c}, T)
    BY <2>1, <2>2, <2>3 DEF Promise!Settle
  <2> QED BY <2>1, <2>4
<1>3. ASSUME Crash
      PROVE  \E S \in SUBSET Running : \E T \in SUBSET S : Promise!Settle(S, T)
  <2>1. PICK T \in SUBSET Running : passed' = passed \cup T
    BY <1>3 DEF Crash
  <2>2. Running' = {}
    BY <1>3 DEF Crash, Running, In, IdleWorkers
  <2>3. UNCHANGED HopFinished
    BY <1>3, <1>a DEF Crash
  <2>4. Promise!Settle(Running, T)
    BY <2>1, <2>2, <2>3 DEF Promise!Settle
  <2> QED BY <2>4
<1>4. CASE /\ ~\E c \in Components : Acquire(c)
           /\ ~\E c \in Components, r \in {"ok", "skip", "err"} : Return(c, r)
           /\ ~Crash
  <2>1. UNCHANGED <<Running, passed>>
    BY <1>4, WorkersAlone
  <2>2. CASE HopFinished' = HopFinished
    BY <2>1, <2>2
  <2>3. CASE HopFinished' /\ ~HopFinished
    <3>1. Components \subseteq Settled'
      BY <2>3 DEF OrderInv, LeftoverOK, HopFinished
    <3>2. Promise!Finish
      BY <1>f, <2>1, <2>3, <3>1 DEF Promise!Finish, Promise!Settled, Settled
    <3> QED BY <3>2
  <2>4. CASE ~HopFinished' /\ HopFinished
    <3>1. Promise!Reopen
      BY <1>f, <2>1, <2>4 DEF Promise!Reopen
    <3> QED BY <3>1
  <2> QED BY <1>f, <2>2, <2>3, <2>4
<1> QED BY <1>1, <1>2, <1>3, <1>4

(***************************************************************************)
(* The controller implements the promise of OrderedUpgrade, for every DAG  *)
(* of FailFast components: it starts a component only when its             *)
(* prerequisites are settled, and reports the hop as finished only when    *)
(* every component is, whatever calls fail, however the cache lags and     *)
(* wherever the controller crashes.                                        *)
(***************************************************************************)
THEOREM Implements ==
    ASSUME FailFast = Components, Shutdowns = FALSE
    PROVE  Spec => ImplementsPromise
<1>1. Init => Promise!Init
  <2> SUFFICES ASSUME Init PROVE Promise!Init
    OBVIOUS
  <2>0. NoProgress.target = "none" /\ OldProgress.target = "old"
    BY DEF NoProgress, OldProgress
  <2>1. HopFinished = FALSE
    BY <2>0 DEF Init, HopFinished
  <2>2. Running = {} /\ passed = {}
    BY DEF Init, Running, In, IdleWorkers
  <2> QED BY <2>1, <2>2 DEF Promise!Init
<1>2. (TypeOK /\ RecordsOK /\ OrderInv) /\ (TypeOK /\ RecordsOK /\ OrderInv)' /\ [Next]_vars
          => [Promise!Next]_(Promise!vars)
  BY RefinesNext
<1> QED BY <1>1, <1>2, OrderInvariant, PTL DEF Spec, ImplementsPromise, Promise!Spec
=============================================================================
