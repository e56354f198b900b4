------------------------- MODULE AgentCommandProofs -------------------------
(***************************************************************************)
(* Theorems about the bkeagent command protocol, for any set of nodes, any *)
(* number of commands and any bound on tasks, crashes and failures.        *)
(***************************************************************************)
EXTENDS AgentCommand, TLAPS

LEMMA NoStatusType == NoStatus \in StatusEntry /\ InitialStatus \in StatusEntry
<1>1. <<>> \in Seq(Condition)
  OBVIOUS
<1> QED
  BY <1>1 DEF NoStatus, InitialStatus, StatusEntry, Phases, Results

LEMMA NoObjectType == NoObject \in Meta
BY DEF NoObject, Meta

LEMMA NoTaskType == NoTask \in Task
BY NoStatusType DEF NoTask, Task, TaskPc, Phases

LEMMA NoReconcileType == NoReconcile \in Reconciler
BY CommandAssumption, NoStatusType, NoObjectType DEF NoReconcile, Reconciler, RecPc

LEMMA EmptyCacheType == EmptyCache \in CacheEntry
BY NoStatusType, NoObjectType DEF EmptyCache, CacheEntry

\* ConditionCount and ReplaceCondition stay within their types
LEMMA ConditionCountType ==
    ASSUME NEW st \in StatusEntry
    PROVE  /\ ConditionCount(st) \in StatusEntry
           /\ ConditionCount(st).conds = st.conds
<1>1. CASE Len(st.conds) = 0
  BY <1>1 DEF ConditionCount, StatusEntry, Phases, Results
<1>2. CASE Len(st.conds) # 0
  <2> DEFINE n == Len(st.conds)
             latest == st.conds[n]
  <2>1. latest \in Condition
    BY <1>2 DEF StatusEntry
  <2>2. DeterminePhase(latest, n) \in Phases
    BY <2>1 DEF DeterminePhase, Phases
  <2>3. DetermineStatus(latest, n) \in Results
    BY <2>1 DEF DetermineStatus, Condition, Results
  <2> QED
    BY <1>2, <2>2, <2>3 DEF ConditionCount, StatusEntry, Results
<1> QED BY <1>1, <1>2

LEMMA ReplaceConditionType ==
    ASSUME NEW conds \in Seq(Condition), NEW i \in Nat, NEW c \in Condition
    PROVE  /\ ReplaceCondition(conds, i, c) \in Seq(Condition)
           /\ i \in 1..Len(conds) =>
                /\ Len(ReplaceCondition(conds, i, c)) = Len(conds)
                /\ \A j \in 1..Len(conds) :
                     ReplaceCondition(conds, i, c)[j] = IF j = i THEN c ELSE conds[j]
           /\ i \notin 1..Len(conds) =>
                /\ Len(ReplaceCondition(conds, i, c)) = Len(conds) + 1
                /\ \A j \in 1..(Len(conds) + 1) :
                     ReplaceCondition(conds, i, c)[j] =
                       IF j = Len(conds) + 1 THEN c ELSE conds[j]
BY DEF ReplaceCondition

LEMMA WithConditionType ==
    ASSUME NEW st \in StatusEntry, NEW i \in Nat, NEW c \in Condition
    PROVE  /\ WithCondition(st, i, c) \in StatusEntry
           /\ WithCondition(st, i, c).phase = st.phase
           /\ WithCondition(st, i, c).conds = ReplaceCondition(st.conds, i, c)
BY ReplaceConditionType DEF WithCondition, StatusEntry

LEMMA ConditionTypes ==
    /\ NewCondition \in Condition
    /\ \A i, o : ConditionAfter(i, o) \in Condition
BY DEF NewCondition, ConditionAfter, Condition, Phases, Results

LEMMA SafeCloseType ==
    ASSUME NEW k \in Task
    PROVE  /\ SafeClose(k) \in Task
           /\ SafeClose(k).pc = k.pc /\ SafeClose(k).idx = k.idx /\ SafeClose(k).st = k.st
           /\ Expired(SafeClose(k)) <=> Expired(k)
BY DEF SafeClose, Task, Expired

LEMMA SuspendTaskType ==
    ASSUME NEW k \in Task
    PROVE  /\ SuspendTask(k) \in Task
           /\ SuspendTask(k).pc = k.pc /\ SuspendTask(k).idx = k.idx
           /\ SuspendTask(k).st = k.st
           /\ Expired(SuspendTask(k)) <=> Expired(k)
BY DEF SuspendTask, SafeClose, Task, Expired, Phases

\* what the other updates of a task record leave alone
LEMMA TaskUpdates ==
    ASSUME NEW k \in Task, NEW st \in StatusEntry, NEW pc \in TaskPc
    PROVE  /\ [k EXCEPT !.pc = pc] \in Task
           /\ [k EXCEPT !.idx = @ + 1] \in Task
           /\ [k EXCEPT !.pc = pc, !.st = st] \in Task
           /\ [k EXCEPT !.flags = @ \cup {"timed"}] \in Task
<1>1. [k EXCEPT !.pc = pc] \in Task
  BY DEF Task
<1>2. [k EXCEPT !.idx = @ + 1] \in Task
  BY DEF Task
<1>3. [k EXCEPT !.pc = pc, !.st = st] \in Task
  BY DEF Task
<1>4. [k EXCEPT !.flags = @ \cup {"timed"}] \in Task
  BY DEF Task
<1> QED BY <1>1, <1>2, <1>3, <1>4

LEMMA AdvanceType ==
    ASSUME NEW k \in Task
    PROVE  LET a == [k EXCEPT !.pc = "loop", !.idx = @ + 1]
           IN  /\ a \in Task /\ a.pc = "loop" /\ a.idx = k.idx + 1
               /\ a.st = k.st /\ a.flags = k.flags
<1>1. k.idx + 1 \in Nat /\ "loop" \in TaskPc
  BY DEF Task, TaskPc
<1> QED BY <1>1, Zenon DEF Task

LEMMA LaunchType ==
    ASSUME NEW k \in Task, NEW st \in StatusEntry
    PROVE  LET a == [k EXCEPT !.pc = "loop", !.idx = 1, !.st = st]
           IN  /\ a \in Task /\ a.pc = "loop" /\ a.idx = 1
               /\ a.st = st /\ a.flags = k.flags
BY DEF Task, TaskPc

LEMMA ExecutedType ==
    ASSUME NEW k \in Task, NEW st \in StatusEntry, NEW late \in BOOLEAN
    PROVE  LET a == [k EXCEPT !.pc = "sync",
                              !.flags = IF late THEN @ \cup {"expired"} ELSE @, !.st = st]
           IN  /\ a \in Task /\ a.pc = "sync" /\ a.idx = k.idx /\ a.st = st
               /\ a.flags = IF late THEN k.flags \cup {"expired"} ELSE k.flags
BY DEF Task, TaskPc

\* the API server's updates of the metadata
LEMMA MetaUpdates ==
    ASSUME obj \in Meta, NEW flags \in SUBSET {"finalizer", "suspend"}
    PROVE  /\ [obj EXCEPT !.rv = @ + 1] \in Meta
           /\ [obj EXCEPT !.flags = flags, !.rv = @ + 1] \in Meta
           /\ [obj EXCEPT !.gen = @ + 1, !.rv = @ + 1, !.flags = flags] \in Meta
           /\ [obj EXCEPT !.life = "deleting", !.gen = @ + 1, !.rv = @ + 1] \in Meta
<1>1. obj.rv + 1 \in Nat /\ obj.gen + 1 \in Nat
  BY DEF Meta
<1>2. [obj EXCEPT !.flags = flags, !.rv = @ + 1] \in Meta
  BY <1>1, Zenon DEF Meta
<1>3. [obj EXCEPT !.gen = @ + 1, !.rv = @ + 1, !.flags = flags] \in Meta
  BY <1>1, Zenon DEF Meta
<1>4. [obj EXCEPT !.life = "deleting", !.gen = @ + 1, !.rv = @ + 1] \in Meta
  BY <1>1, Zenon DEF Meta
<1> QED BY <1>2, <1>3, <1>4 DEF Meta

\* A status write keeps the types of what it touches
LEMMA WriteStatusType ==
    ASSUME obj \in Meta, status \in [Nodes -> StatusEntry],
           NEW n \in Nodes, NEW st \in StatusEntry, WriteStatus(n, st)
    PROVE  obj' \in Meta /\ status' \in [Nodes -> StatusEntry]
BY DEF WriteStatus, apiVars, Meta

LEMMA VanishType == Vanish => obj' \in Meta /\ status' \in [Nodes -> StatusEntry]
BY NoStatusType, NoObjectType DEF Vanish

LEMMA RequestDeleteType ==
    ASSUME obj \in Meta, status \in [Nodes -> StatusEntry], RequestDelete
    PROVE  obj' \in Meta /\ status' \in [Nodes -> StatusEntry]
<1>1. [obj EXCEPT !.life = "deleting", !.gen = @ + 1, !.rv = @ + 1] \in Meta
  BY MetaUpdates
<1> QED BY <1>1, VanishType DEF RequestDelete

LEMMA GoToType ==
    ASSUME rec \in [Nodes -> Reconciler], NEW n \in Nodes, NEW pc \in RecPc, GoTo(n, pc)
    PROVE  rec' \in [Nodes -> Reconciler]
BY DEF GoTo, Reconciler

LEMMA UpdateType ==
    ASSUME tasks \in [Nodes -> [TaskIds -> Task]],
           NEW n \in Nodes, NEW t, NEW k, t \in TaskIds => k \in Task, Update(n, t, k)
    PROVE  tasks' \in [Nodes -> [TaskIds -> Task]]
BY DEF Update

-----------------------------------------------------------------------------
(* Type correctness                                                        *)

LEMMA TypeInit == Init => TypeOK
<1> SUFFICES ASSUME Init PROVE TypeOK
  OBVIOUS
<1>1. obj \in Meta
  BY CommandAssumption DEF Init, Meta, NoObject
<1>2. /\ status \in [Nodes -> StatusEntry]
      /\ cache \in [Nodes -> CacheEntry]
      /\ rec \in [Nodes -> Reconciler]
      /\ tasks \in [Nodes -> [TaskIds -> Task]]
  BY NoStatusType, NoTaskType, NoReconcileType, EmptyCacheType DEF Init
<1> QED
  BY <1>1, <1>2, CommandAssumption DEF Init, TypeOK

LEMMA TypeNext == TypeOK /\ EntriesOK /\ [Next]_vars => TypeOK'
<1> SUFFICES ASSUME TypeOK, EntriesOK, [Next]_vars PROVE TypeOK'
  OBVIOUS
<1>t. /\ obj \in Meta
      /\ status \in [Nodes -> StatusEntry]
      /\ cache \in [Nodes -> CacheEntry]
      /\ rec \in [Nodes -> Reconciler]
      /\ job \in [Nodes -> 0..MaxTasks]
      /\ tasks \in [Nodes -> [TaskIds -> Task]]
  BY DEF TypeOK
<1>1. CASE ToggleSuspend
  <2>1. \A f \in SUBSET {"finalizer", "suspend"} :
          [obj EXCEPT !.gen = @ + 1, !.rv = @ + 1, !.flags = f] \in Meta
    BY <1>t, MetaUpdates
  <2>2. obj.flags \in SUBSET {"finalizer", "suspend"}
    BY <1>t DEF Meta
  <2>3. obj' \in Meta
    BY <1>1, <2>1, <2>2 DEF ToggleSuspend
  <2> QED
    BY <1>1, <2>3 DEF TypeOK, ToggleSuspend, history, envVars
<1>2. CASE ManagerDelete
  <2>1. obj' \in Meta /\ status' \in [Nodes -> StatusEntry]
    BY <1>2, <1>t, RequestDeleteType DEF ManagerDelete
  <2> QED
    BY <1>2, <2>1 DEF TypeOK, ManagerDelete, history
<1>3. ASSUME NEW n \in Nodes, Deliver(n) PROVE TypeOK'
  <2>1. cache' \in [Nodes -> CacheEntry]
    BY <1>3, <1>t DEF Deliver, CacheEntry
  <2> QED
    BY <1>3, <2>1 DEF TypeOK, Deliver, apiVars, history, envVars
<1>4. ASSUME NEW n \in Nodes, Fetch(n) PROVE TypeOK'
  <2>1. rec' \in [Nodes -> Reconciler]
    BY <1>4, <1>t, NoStatusType, CommandAssumption DEF Fetch, RecPc, Reconciler, CacheEntry
  <2> QED
    BY <1>4, <2>1 DEF TypeOK, Fetch, apiVars, history, envVars
<1>5. ASSUME NEW n \in Nodes, InitStatus(n) PROVE TypeOK'
  <2>1. rec[n].st \in StatusEntry /\ "finalizer" \in RecPc
    BY <1>t DEF Reconciler, RecPc
  <2>2. obj' \in Meta /\ status' \in [Nodes -> StatusEntry] /\ rec' \in [Nodes -> Reconciler]
    BY <1>5, <1>t, <2>1, WriteStatusType, GoToType DEF InitStatus
  <2> QED
    BY <1>5, <2>2 DEF TypeOK, InitStatus, history, envVars
<1>6. ASSUME NEW n \in Nodes, EnsureFinalizer(n) PROVE TypeOK'
  <2>0. obj.flags \cup {"finalizer"} \in SUBSET {"finalizer", "suspend"}
    BY <1>t DEF Meta
  <2>1. [obj EXCEPT !.flags = obj.flags \cup {"finalizer"}, !.rv = @ + 1] \in Meta
    BY <1>t, <2>0, MetaUpdates
  <2>2. obj' \in Meta
    BY <1>6, <1>t, <2>1 DEF EnsureFinalizer
  <2>3. "idle" \in RecPc /\ "decide" \in RecPc
    BY DEF RecPc
  <2>4. rec' \in [Nodes -> Reconciler]
    BY <1>6, <1>t, <2>3, GoToType DEF EnsureFinalizer
  <2> QED
    BY <1>6, <2>2, <2>4 DEF TypeOK, EnsureFinalizer, history, envVars
<1>7. ASSUME NEW n \in Nodes, CleanupTask(n) PROVE TypeOK'
  <2>1. job[n] \in TaskIds => SafeClose(tasks[n][job[n]]) \in Task
    BY <1>t, SafeCloseType
  <2>2. tasks' \in [Nodes -> [TaskIds -> Task]]
    BY <1>7, <1>t, <2>1, UpdateType DEF CleanupTask
  <2>3. "idle" \in RecPc /\ "unfinalize" \in RecPc
    BY DEF RecPc
  <2>4. rec' \in [Nodes -> Reconciler]
    BY <1>7, <1>t, <2>3, GoToType DEF CleanupTask
  <2>5. job' \in [Nodes -> 0..MaxTasks]
    BY <1>7, <1>t, CommandAssumption DEF CleanupTask
  <2> QED
    BY <1>7, <2>2, <2>4, <2>5 DEF TypeOK, CleanupTask, apiVars, history, envVars
<1>8. ASSUME NEW n \in Nodes, RemoveFinalizer(n) PROVE TypeOK'
  <2>1. "idle" \in RecPc
    BY DEF RecPc
  <2>2. rec' \in [Nodes -> Reconciler]
    BY <1>8, <1>t, <2>1, GoToType DEF RemoveFinalizer
  <2>3. obj' \in Meta /\ status' \in [Nodes -> StatusEntry]
    BY <1>8, <1>t, VanishType DEF RemoveFinalizer, apiVars
  <2> QED
    BY <1>8, <2>2, <2>3 DEF TypeOK, RemoveFinalizer, history, envVars
<1>9. ASSUME NEW n \in Nodes, DecideNothing(n) PROVE TypeOK'
  <2>1. "idle" \in RecPc
    BY DEF RecPc
  <2>2. rec' \in [Nodes -> Reconciler]
    BY <1>9, <1>t, <2>1, GoToType DEF DecideNothing
  <2> QED
    BY <1>9, <2>2 DEF TypeOK, DecideNothing, apiVars, history, envVars
<1>10. ASSUME NEW n \in Nodes, DecideSuspend(n) PROVE TypeOK'
  <2>1. ConditionCount(rec[n].st) \in StatusEntry
    BY <1>t, ConditionCountType DEF Reconciler
  <2>2. SuspendEntry(rec[n].st) \in StatusEntry
    BY <2>1 DEF SuspendEntry, StatusEntry, Phases
  <2> DEFINE r == [rec[n] EXCEPT !.pc = "suspend", !.st = SuspendEntry(rec[n].st)]
  <2>r. rec[n] \in Reconciler
    BY <1>t
  <2>s. r \in Reconciler
    BY <2>r, <2>2 DEF RecPc, Reconciler
  <2>3. rec' \in [Nodes -> Reconciler]
    BY <1>10, <1>t, <2>s DEF DecideSuspend
  <2>4. job[n] \in TaskIds => SuspendTask(tasks[n][job[n]]) \in Task
    BY <1>t, SuspendTaskType
  <2>5. tasks' \in [Nodes -> [TaskIds -> Task]]
    BY <1>10, <1>t, <2>4, UpdateType DEF DecideSuspend
  <2> QED
    BY <1>10, <2>3, <2>5 DEF TypeOK, DecideSuspend, apiVars, history, envVars
<1>11. ASSUME NEW n \in Nodes, SyncSuspend(n) PROVE TypeOK'
  <2>1. rec[n].st \in StatusEntry /\ "idle" \in RecPc
    BY <1>t DEF Reconciler, RecPc
  <2>2. obj' \in Meta /\ status' \in [Nodes -> StatusEntry] /\ rec' \in [Nodes -> Reconciler]
    BY <1>11, <1>t, <2>1, WriteStatusType, GoToType DEF SyncSuspend
  <2> QED
    BY <1>11, <2>2 DEF TypeOK, SyncSuspend, history, envVars
<1>12. ASSUME NEW n \in Nodes, CreateTask(n) PROVE TypeOK'
  <2>1. rec[n].obj.gen \in Nat /\ rec[n].obj.rv \in Nat
    BY <1>t DEF Reconciler, Meta
  <2>2. [NoTask EXCEPT !.pc = "created", !.gen = rec[n].obj.gen, !.rv = rec[n].obj.rv] \in Task
    BY <2>1, NoTaskType DEF Task, TaskPc
  <2>3. \A u \in TaskIds : SafeClose(tasks[n][u]) \in Task
    BY <1>t, SafeCloseType
  <2>4. tasks' \in [Nodes -> [TaskIds -> Task]]
    BY <1>12, <1>t, <2>2, <2>3 DEF CreateTask
  <2>5. \A t \in TaskIds : t \in 0..MaxTasks
    BY CommandAssumption DEF TaskIds
  <2>r. rec[n] \in Reconciler
    BY <1>t
  <2>6. \A t \in 0..MaxTasks : [rec[n] EXCEPT !.pc = "start", !.task = t] \in Reconciler
    BY <2>r DEF RecPc, Reconciler
  <2>p. PICK t \in TaskIds :
          /\ job' = [job EXCEPT ![n] = t]
          /\ rec' = [rec EXCEPT ![n] = [@ EXCEPT !.pc = "start", !.task = t]]
    BY <1>12 DEF CreateTask
  <2>7. rec' \in [Nodes -> Reconciler] /\ job' \in [Nodes -> 0..MaxTasks]
    BY <1>t, <2>p, <2>5, <2>6
  <2> QED
    BY <1>12, <2>4, <2>7 DEF TypeOK, CreateTask, apiVars, history, envVars
<1>13. ASSUME NEW n \in Nodes, StartTask(n) PROVE TypeOK'
  <2>1. rec[n].st \in StatusEntry /\ "idle" \in RecPc
    BY <1>t DEF Reconciler, RecPc
  <2>2. obj' \in Meta /\ status' \in [Nodes -> StatusEntry] /\ rec' \in [Nodes -> Reconciler]
    BY <1>13, <1>t, <2>1, WriteStatusType, GoToType DEF StartTask
  <2>3. ASSUME rec[n].task \in TaskIds
        PROVE  [tasks[n][rec[n].task] EXCEPT
                  !.pc = "loop", !.idx = 1, !.st = rec[n].st] \in Task
    <3>1. tasks[n][rec[n].task] \in Task
      BY <1>t, <2>3
    <3> QED BY <3>1, <2>1, LaunchType
  <2>4. tasks' \in [Nodes -> [TaskIds -> Task]]
    BY <1>13, <1>t, <2>3, UpdateType DEF StartTask
  <2> QED
    BY <1>13, <2>2, <2>4 DEF TypeOK, StartTask, history, envVars
<1>14. ASSUME NEW n \in Nodes, ReconcileFails(n) PROVE TypeOK'
  <2>1. "idle" \in RecPc
    BY DEF RecPc
  <2>2. rec' \in [Nodes -> Reconciler]
    BY <1>14, <1>t, <2>1, GoToType DEF ReconcileFails
  <2> QED
    BY <1>14, <2>2 DEF TypeOK, ReconcileFails, apiVars, history
<1>15. ASSUME NEW n \in Nodes, NEW t \in TaskIds, TaskStopped(n, t) PROVE TypeOK'
  <2>1. tasks[n][t] \in Task /\ "done" \in TaskPc
    BY <1>t DEF TaskPc
  <2>2. [tasks[n][t] EXCEPT !.pc = "done"] \in Task
    BY <2>1 DEF Task
  <2>3. tasks' \in [Nodes -> [TaskIds -> Task]]
    BY <1>15, <1>t, <2>2, UpdateType DEF TaskStopped
  <2> QED
    BY <1>15, <2>3 DEF TypeOK, TaskStopped, apiVars, history, envVars
<1>16. ASSUME NEW n \in Nodes, NEW t \in TaskIds, TaskLoopEnds(n, t) PROVE TypeOK'
  <2>1. tasks[n][t] \in Task /\ "final" \in TaskPc
    BY <1>t DEF TaskPc
  <2>2. /\ [tasks[n][t] EXCEPT !.pc = "final"] \in Task
        /\ [tasks[n][t] EXCEPT !.pc = "final", !.flags = @ \cup {"expired"}] \in Task
    BY <2>1 DEF Task
  <2>3. tasks' \in [Nodes -> [TaskIds -> Task]]
    <3>1. CASE Update(n, t, [tasks[n][t] EXCEPT !.pc = "final"])
      BY <3>1, <1>t, <2>2, UpdateType
    <3>2. CASE Update(n, t, [tasks[n][t] EXCEPT !.pc = "final", !.flags = @ \cup {"expired"}])
      BY <3>2, <1>t, <2>2, UpdateType
    <3> QED
      BY <1>16, <3>1, <3>2 DEF TaskLoopEnds
  <2> QED
    BY <1>16, <2>3 DEF TypeOK, TaskLoopEnds, apiVars, history, envVars
<1>17. ASSUME NEW n \in Nodes, NEW t \in TaskIds, TaskSkipsCompleted(n, t) PROVE TypeOK'
  <2>1. tasks[n][t] \in Task
    BY <1>t
  <2>2. [tasks[n][t] EXCEPT !.idx = @ + 1] \in Task
    BY <2>1 DEF Task
  <2>3. tasks' \in [Nodes -> [TaskIds -> Task]]
    BY <1>17, <1>t, <2>2, UpdateType DEF TaskSkipsCompleted
  <2> QED
    BY <1>17, <2>3 DEF TypeOK, TaskSkipsCompleted, apiVars, history, envVars
<1>18. ASSUME NEW n \in Nodes, NEW t \in TaskIds, TaskBegins(n, t) PROVE TypeOK'
  <2> DEFINE k == tasks[n][t]
  <2>1. k \in Task /\ k.idx \in Nat /\ k.st \in StatusEntry /\ "exec" \in TaskPc
    BY <1>t DEF Task, TaskPc
  <2>2. WithCondition(k.st, k.idx, NewCondition) \in StatusEntry
    BY <2>1, WithConditionType, ConditionTypes
  <2>3. [k EXCEPT !.pc = "exec", !.st = WithCondition(k.st, k.idx, NewCondition)] \in Task
    BY <2>1, <2>2, TaskUpdates
  <2>4. tasks' \in [Nodes -> [TaskIds -> Task]]
    BY <1>18, <1>t, <2>3, UpdateType DEF TaskBegins
  <2> QED
    BY <1>18, <2>4 DEF TypeOK, TaskBegins, apiVars, history, envVars
<1>19. ASSUME NEW n \in Nodes, NEW t \in TaskIds, TaskExecutes(n, t) PROVE TypeOK'
  <2> DEFINE k == tasks[n][t]
             st(o) == WithCondition(k.st, k.idx, ConditionAfter(k.idx, o))
  <2>0. PICK o \in Outcomes :
          /\ Update(n, t, [k EXCEPT
               !.pc = "sync",
               !.flags = IF o \in {"late", "lateFailure"} THEN @ \cup {"expired"} ELSE @,
               !.st = st(o)])
          /\ succeeded' = IF o = "success"
                          THEN [succeeded EXCEPT ![n] = @ \cup {k.idx}] ELSE succeeded
          /\ tried' = IF o = "late" THEN tried ELSE [tried EXCEPT ![n] = @ \cup {k.idx}]
    BY <1>19 DEF TaskExecutes
  <2>1. k \in Task /\ k.idx \in Nat /\ k.st \in StatusEntry
    BY <1>t DEF Task
  <2>2. st(o) \in StatusEntry
    BY <2>1, WithConditionType, ConditionTypes
  <2>3. [k EXCEPT
           !.pc = "sync",
           !.flags = IF o \in {"late", "lateFailure"} THEN @ \cup {"expired"} ELSE @,
           !.st = st(o)] \in Task
    BY <2>1, <2>2, ExecutedType
  <2>4. tasks' \in [Nodes -> [TaskIds -> Task]]
    BY <1>t, <2>0, <2>3, UpdateType
  <2>5. /\ EntryOK(k.st, succeeded[n], tried[n]) /\ ProgressOK(k, succeeded[n], tried[n])
        /\ k.pc = "exec" /\ Len(k.st.conds) \in Nat
    BY <1>19, <2>1 DEF TaskExecutes, EntriesOK, TasksOK, StatusEntry
  <2>6. k.idx \in Commands
    BY <2>1, <2>5, CommandAssumption DEF ProgressOK, EntryOK, Commands
  <2>7. succeeded' \in [Nodes -> SUBSET Commands] /\ tried' \in [Nodes -> SUBSET Commands]
    BY <2>0, <2>6 DEF TypeOK
  <2> QED
    BY <1>19, <2>4, <2>7 DEF TypeOK, TaskExecutes, apiVars, envVars
<1>20. ASSUME NEW n \in Nodes, NEW t \in TaskIds, TaskSyncs(n, t) PROVE TypeOK'
  <2> DEFINE k == tasks[n][t]
  <2>1. k \in Task /\ k.st \in StatusEntry /\ "final" \in TaskPc
    BY <1>t DEF Task, TaskPc
  <2>2. obj' \in Meta /\ status' \in [Nodes -> StatusEntry]
    BY <1>20, <1>t, <2>1, WriteStatusType DEF TaskSyncs
  <2>3. [k EXCEPT !.pc = "final"] \in Task /\ [k EXCEPT !.pc = "loop", !.idx = @ + 1] \in Task
    BY <2>1, TaskUpdates, AdvanceType
  <2>4. tasks' \in [Nodes -> [TaskIds -> Task]]
    BY <1>20, <1>t, <2>3, UpdateType DEF TaskSyncs
  <2> QED
    BY <1>20, <2>2, <2>4 DEF TypeOK, TaskSyncs, history, envVars
<1>21. ASSUME NEW n \in Nodes, NEW t \in TaskIds, TaskFinalizes(n, t) PROVE TypeOK'
  <2> DEFINE k  == tasks[n][t]
             st == ConditionCount(k.st)
  <2>1. k \in Task /\ st \in StatusEntry /\ "settle" \in TaskPc
    BY <1>t, ConditionCountType DEF Task, TaskPc
  <2>2. obj' \in Meta /\ status' \in [Nodes -> StatusEntry]
    BY <1>21, <1>t, <2>1, WriteStatusType DEF TaskFinalizes
  <2>3. [k EXCEPT !.pc = "settle", !.st = st] \in Task
    BY <2>1, TaskUpdates
  <2>4. tasks' \in [Nodes -> [TaskIds -> Task]]
    BY <1>21, <1>t, <2>3, UpdateType DEF TaskFinalizes
  <2> QED
    BY <1>21, <2>2, <2>4 DEF TypeOK, TaskFinalizes, history, envVars
<1>22. ASSUME NEW n \in Nodes, NEW t \in TaskIds, TaskSettles(n, t) PROVE TypeOK'
  <2> DEFINE a(u) == [tasks[n][u] EXCEPT
                        !.pc    = IF u = t THEN "done" ELSE @,
                        !.phase = IF u = job[n] THEN tasks[n][t].st.phase ELSE @,
                        !.flags = IF u = job[n] THEN @ \cup {"closed"} ELSE @]
  <2>0. ASSUME NEW u \in TaskIds PROVE a(u) \in Task
    <3>1. tasks[n][u] \in Task /\ tasks[n][t] \in Task
      BY <1>t
    <3> QED BY <3>1 DEF Task, TaskPc, StatusEntry
  <2>1. tasks' \in [Nodes -> [TaskIds -> Task]]
    BY <1>22, <1>t, <2>0 DEF TaskSettles
  <2> QED
    BY <1>22, <2>1 DEF TypeOK, TaskSettles, apiVars, history, envVars
<1>23. ASSUME NEW n \in Nodes, NEW t \in TaskIds, TaskFails(n, t) PROVE TypeOK'
  <2>1. tasks[n][t] \in Task /\ "done" \in TaskPc
    BY <1>t DEF TaskPc
  <2>2. [tasks[n][t] EXCEPT !.pc = "done"] \in Task
    BY <2>1 DEF Task
  <2>3. tasks' \in [Nodes -> [TaskIds -> Task]]
    BY <1>23, <1>t, <2>2, UpdateType DEF TaskFails
  <2> QED
    BY <1>23, <2>3 DEF TypeOK, TaskFails, apiVars, history
<1>24. ASSUME NEW n \in Nodes, ProcessTTL(n) PROVE TypeOK'
  <2>1. job[n] # 0 => tasks[n][job[n]] \in Task
    BY <1>t, CommandAssumption DEF TaskIds
  <2>2. job[n] # 0 => [tasks[n][job[n]] EXCEPT !.flags = @ \cup {"timed"}] \in Task
    BY <2>1 DEF Task
  <2>3. tasks' \in [Nodes -> [TaskIds -> Task]]
    BY <1>24, <1>t, <2>2, UpdateType DEF ProcessTTL
  <2>4. job' \in [Nodes -> 0..MaxTasks] /\ timer' \subseteq Nodes
    BY <1>24, CommandAssumption DEF ProcessTTL, TypeOK
  <2> QED
    BY <1>24, <2>3, <2>4 DEF TypeOK, ProcessTTL, apiVars, history, envVars
<1>25. ASSUME NEW n \in Nodes, TimerFires(n) PROVE TypeOK'
  <2>1. obj' \in Meta /\ status' \in [Nodes -> StatusEntry]
    BY <1>25, <1>t, RequestDeleteType DEF TimerFires
  <2> QED
    BY <1>25, <2>1 DEF TypeOK, TimerFires, history, envVars
<1>26. ASSUME NEW n \in Nodes, Restart(n) PROVE TypeOK'
  <2>1. cache' \in [Nodes -> CacheEntry] /\ rec' \in [Nodes -> Reconciler]
    BY <1>26, <1>t, EmptyCacheType, NoReconcileType DEF Restart
  <2>2. job' \in [Nodes -> 0..MaxTasks] /\ tasks' \in [Nodes -> [TaskIds -> Task]]
    BY <1>26, <1>t, CommandAssumption, NoTaskType DEF Restart
  <2> QED
    BY <1>26, <2>1, <2>2 DEF TypeOK, Restart, apiVars, history
<1>27. CASE UNCHANGED vars
  BY <1>27 DEF TypeOK, vars
<1> QED
  BY <1>1, <1>2, <1>3, <1>4, <1>5, <1>6, <1>7, <1>8, <1>9, <1>10, <1>11, <1>12, <1>13,
     <1>14, <1>15, <1>16, <1>17, <1>18, <1>19, <1>20, <1>21, <1>22, <1>23, <1>24, <1>25,
     <1>26, <1>27 DEF Next, Reconcile, Goroutine

-----------------------------------------------------------------------------
(* Truthful status entries                                                 *)

LEMMA NoStatusOK ==
    ASSUME NEW S, NEW T
    PROVE  EntryOK(NoStatus, S, T) /\ EntryOK(InitialStatus, S, T)
BY CommandAssumption DEF EntryOK, NoStatus, InitialStatus

LEMMA NoTaskOK ==
    ASSUME NEW S, NEW T
    PROVE  EntryOK(NoTask.st, S, T) /\ ProgressOK(NoTask, S, T)
BY NoStatusOK DEF NoTask, ProgressOK

\* the history only grows, so what was truthful stays so
LEMMA EntryMonotone ==
    ASSUME NEW st, NEW S, NEW T, NEW S2, NEW T2, S \subseteq S2, T \subseteq T2,
           EntryOK(st, S, T)
    PROVE  EntryOK(st, S2, T2)
BY DEF EntryOK, Done

LEMMA ProgressMonotone ==
    ASSUME NEW k, NEW S, NEW T, NEW S2, NEW T2, S \subseteq S2, T \subseteq T2,
           ProgressOK(k, S, T)
    PROVE  ProgressOK(k, S2, T2)
BY DEF ProgressOK, Done

\* ConditionCount says Completed only of a finished run
LEMMA ConditionCountOK ==
    ASSUME NEW st \in StatusEntry, NEW S, NEW T, EntryOK(st, S, T)
    PROVE  EntryOK(ConditionCount(st), S, T)
<1> DEFINE c == ConditionCount(st)
           n == Len(st.conds)
<1>1. c \in StatusEntry /\ c.conds = st.conds /\ n \in Nat
  BY ConditionCountType DEF StatusEntry
<1>2. ASSUME c.phase = "Completed" PROVE \A i \in Commands : Done(i, S, T)
  <2>1. n # 0
    BY <1>2 DEF ConditionCount, StatusEntry
  <2>2. c.phase = DeterminePhase(st.conds[n], n)
    BY <2>1 DEF ConditionCount, StatusEntry
  <2>3. n = NumCommands /\ st.conds[n].phase \in {"Skip", "Completed"}
    BY <1>2, <2>2 DEF DeterminePhase
  <2>4. Done(n, S, T)
    BY <1>1, <2>1, <2>3 DEF EntryOK, Done
  <2>5. \A i \in 1..(n - 1) : Done(i, S, T)
    BY DEF EntryOK
  <2> QED
    BY <1>1, <2>3, <2>4, <2>5 DEF Commands
<1> QED
  BY <1>1, <1>2 DEF EntryOK

LEMMA SuspendEntryOK ==
    ASSUME NEW st \in StatusEntry, NEW S, NEW T, EntryOK(st, S, T)
    PROVE  EntryOK(SuspendEntry(st), S, T)
<1>1. /\ ConditionCount(st) \in StatusEntry
      /\ EntryOK(ConditionCount(st), S, T)
  BY ConditionCountType, ConditionCountOK
<1>2. /\ SuspendEntry(st).conds = ConditionCount(st).conds
      /\ SuspendEntry(st).phase = "Suspend"
  BY <1>1 DEF SuspendEntry, StatusEntry
<1> QED
  BY <1>1, <1>2 DEF EntryOK

\* replacing or appending the condition of the command the goroutine is at
LEMMA WithConditionOK ==
    ASSUME NEW st \in StatusEntry, NEW i \in 1..NumCommands, NEW c \in Condition,
           NEW S, NEW T, EntryOK(st, S, T),
           i <= Len(st.conds) + 1,
           \A j \in 1..(i - 1) : Done(j, S, T),
           c.phase = "Completed" => i \in S,
           c.phase = "Skip" => i \in Ignorable \cap T
    PROVE  /\ EntryOK(WithCondition(st, i, c), S, T)
           /\ i \in 1..Len(WithCondition(st, i, c).conds)
           /\ WithCondition(st, i, c).conds[i] = c
<1> DEFINE w == WithCondition(st, i, c)
           n == Len(st.conds)
<1>1. /\ w.conds = ReplaceCondition(st.conds, i, c) /\ w.phase = st.phase
      /\ n \in Nat /\ st.conds \in Seq(Condition) /\ NumCommands \in Nat /\ i \in Nat
  BY WithConditionType, CommandAssumption DEF StatusEntry
<1> HIDE DEF w
<1>2. CASE i \in 1..n
  <2>1. Len(w.conds) = n /\ \A j \in 1..n : w.conds[j] = IF j = i THEN c ELSE st.conds[j]
    BY <1>1, <1>2 DEF ReplaceCondition
  <2>2. \A j \in 1..Len(w.conds) : /\ w.conds[j].phase = "Completed" => j \in S
                                   /\ w.conds[j].phase = "Skip" => j \in Ignorable \cap T
    BY <1>2, <2>1 DEF EntryOK
  <2>3. EntryOK(w, S, T)
    BY <1>1, <2>1, <2>2 DEF EntryOK
  <2>4. i \in 1..Len(w.conds) /\ w.conds[i] = c
    BY <1>2, <2>1
  <2> QED
    BY <2>3, <2>4 DEF w
<1>3. CASE i \notin 1..n
  <2>1. /\ Len(w.conds) = n + 1
        /\ \A j \in 1..(n + 1) : w.conds[j] = IF j = n + 1 THEN c ELSE st.conds[j]
    BY <1>1, <1>3 DEF ReplaceCondition
  <2>2. i = n + 1
    BY <1>1, <1>3
  <2>3. \A j \in 1..Len(w.conds) : /\ w.conds[j].phase = "Completed" => j \in S
                                   /\ w.conds[j].phase = "Skip" => j \in Ignorable \cap T
    BY <1>1, <2>1, <2>2 DEF EntryOK
  <2>4. EntryOK(w, S, T)
    BY <1>1, <2>1, <2>2, <2>3 DEF EntryOK
  <2>5. i \in 1..Len(w.conds) /\ w.conds[i] = c
    BY <1>1, <2>1, <2>2
  <2> QED
    BY <2>4, <2>5 DEF w
<1> QED
  BY <1>2, <1>3

\* one status write, one update of a task record
LEMMA StatusWritten ==
    ASSUME StatusOK, status \in [Nodes -> StatusEntry], NEW n \in Nodes, NEW st,
           WriteStatus(n, st), EntryOK(st, succeeded[n], tried[n])
    PROVE  \A m \in Nodes : EntryOK(status'[m], succeeded[m], tried[m])
BY DEF StatusOK, WriteStatus, apiVars

LEMMA Vanished ==
    ASSUME Vanish
    PROVE  \A m \in Nodes : EntryOK(status'[m], succeeded[m], tried[m])
BY NoStatusOK DEF Vanish

LEMMA Deleted ==
    ASSUME StatusOK, RequestDelete
    PROVE  \A m \in Nodes : EntryOK(status'[m], succeeded[m], tried[m])
BY Vanished DEF StatusOK, RequestDelete

LEMMA TaskUpdated ==
    ASSUME TasksOK, tasks \in [Nodes -> [TaskIds -> Task]], NEW n \in Nodes, NEW t, NEW k,
           Update(n, t, k),
           t \in TaskIds => EntryOK(k.st, succeeded[n], tried[n])
                            /\ ProgressOK(k, succeeded[n], tried[n])
    PROVE  \A m \in Nodes, u \in TaskIds :
             /\ EntryOK(tasks'[m][u].st, succeeded[m], tried[m])
             /\ ProgressOK(tasks'[m][u], succeeded[m], tried[m])
BY DEF TasksOK, Update

\* closing a task changes nothing the invariant speaks of
LEMMA SafeCloseOK ==
    ASSUME NEW k \in Task, NEW S, NEW T, ProgressOK(k, S, T)
    PROVE  ProgressOK(SafeClose(k), S, T) /\ ProgressOK(SuspendTask(k), S, T)
BY SafeCloseType, SuspendTaskType DEF ProgressOK

LEMMA GoToOK ==
    ASSUME RecOK, rec \in [Nodes -> Reconciler], NEW n \in Nodes, NEW pc, GoTo(n, pc)
    PROVE  \A m \in Nodes : EntryOK(rec'[m].st, succeeded[m], tried[m])
BY DEF RecOK, GoTo, Reconciler

\* where a goroutine that looks at a command stands
LEMMA AtCommandFacts ==
    ASSUME NEW k \in Task, NEW S, NEW T, ProgressOK(k, S, T), AtCommand(k)
    PROVE  /\ k.idx \in 1..NumCommands /\ ~Expired(k) /\ Len(k.st.conds) \in Nat
           /\ k.idx <= Len(k.st.conds) + 1
           /\ \A i \in 1..(k.idx - 1) : Done(i, S, T)
<1>1. k.pc = "loop" /\ k.idx <= NumCommands /\ ~Expired(k)
  BY DEF AtCommand, Looping
<1>2. Len(k.st.conds) \in Nat /\ NumCommands \in Nat
  BY CommandAssumption DEF Task, StatusEntry
<1>3. k.idx \in 1..(NumCommands + 1)
  BY <1>1 DEF ProgressOK
<1> QED
  BY <1>1, <1>2, <1>3 DEF ProgressOK

\* where a goroutine that runs a command stands
LEMMA ExecFacts ==
    ASSUME NEW k \in Task, NEW S, NEW T, EntryOK(k.st, S, T), ProgressOK(k, S, T),
           k.pc \in {"exec", "sync"}
    PROVE  /\ k.idx \in 1..Len(k.st.conds) /\ Len(k.st.conds) \in Nat
           /\ Len(k.st.conds) <= NumCommands /\ k.idx \in 1..NumCommands
           /\ k.pc = "exec" => ~Expired(k)
           /\ ~Expired(k) => \A i \in 1..(k.idx - 1) : Done(i, S, T)
<1>1. k.idx \in 1..Len(k.st.conds) /\ Len(k.st.conds) \in Nat /\ NumCommands \in Nat
  BY CommandAssumption DEF Task, StatusEntry, ProgressOK
<1>2. Len(k.st.conds) <= NumCommands
  BY DEF EntryOK
<1>3. k.idx \in 1..NumCommands
  BY <1>1, <1>2
<1> QED
  BY <1>1, <1>2, <1>3 DEF ProgressOK

\* a goroutine that has dealt with command k.idx may stand before the next one
LEMMA NextCommandOK ==
    ASSUME NEW k \in Task, NEW a, NEW S, NEW T,
           a.st = k.st, a.pc = "loop", a.idx = k.idx + 1, a.flags = k.flags,
           k.idx \in 1..NumCommands, k.idx \in 1..Len(k.st.conds), Len(k.st.conds) \in Nat,
           ~Expired(k) => \A i \in 1..k.idx : Done(i, S, T)
    PROVE  ProgressOK(a, S, T)
<1>1. a.idx \in 1..(NumCommands + 1) /\ a.idx <= Len(a.st.conds) + 1 /\ a.idx - 1 = k.idx
  BY CommandAssumption
<1>2. Expired(a) <=> Expired(k)
  BY DEF Expired
<1> QED
  BY <1>1, <1>2 DEF ProgressOK

\* ProgressOK speaks of nothing but pc, idx, st and the expired flag
LEMMA SameProgress ==
    ASSUME NEW k, NEW a, NEW S, NEW T, ProgressOK(k, S, T),
           a.st = k.st, a.pc = k.pc, a.idx = k.idx, Expired(a) <=> Expired(k)
    PROVE  ProgressOK(a, S, T)
BY DEF ProgressOK

LEMMA EntriesInit == Init => EntriesOK
BY NoStatusOK, NoTaskOK
   DEF Init, EntriesOK, StatusOK, CacheOK, RecOK, TasksOK, EmptyCache, NoReconcile

LEMMA EntriesNext == TypeOK /\ EntriesOK /\ [Next]_vars => EntriesOK'
<1> SUFFICES ASSUME TypeOK, EntriesOK, [Next]_vars PROVE EntriesOK'
  OBVIOUS
<1>t. /\ status \in [Nodes -> StatusEntry]
      /\ cache \in [Nodes -> CacheEntry]
      /\ rec \in [Nodes -> Reconciler]
      /\ job \in [Nodes -> 0..MaxTasks]
      /\ tasks \in [Nodes -> [TaskIds -> Task]]
      /\ StatusOK /\ CacheOK /\ RecOK /\ TasksOK
  BY DEF TypeOK, EntriesOK
<1>k. \A n \in Nodes, t \in TaskIds :
        /\ tasks[n][t] \in Task /\ tasks[n][t].st \in StatusEntry /\ tasks[n][t].idx \in Nat
        /\ EntryOK(tasks[n][t].st, succeeded[n], tried[n])
        /\ ProgressOK(tasks[n][t], succeeded[n], tried[n])
  BY <1>t DEF Task, TasksOK
<1>r. \A n \in Nodes :
        /\ rec[n] \in Reconciler /\ rec[n].st \in StatusEntry
        /\ EntryOK(rec[n].st, succeeded[n], tried[n])
  BY <1>t DEF Reconciler, RecOK
<1>1. CASE ToggleSuspend
  BY <1>1, <1>t DEF EntriesOK, StatusOK, CacheOK, RecOK, TasksOK, ToggleSuspend, history
<1>2. CASE ManagerDelete
  <2>1. \A m \in Nodes : EntryOK(status'[m], succeeded[m], tried[m])
    BY <1>2, <1>t, Deleted DEF ManagerDelete
  <2> QED
    BY <1>2, <1>t, <2>1 DEF EntriesOK, StatusOK, CacheOK, RecOK, TasksOK, ManagerDelete, history
<1>3. ASSUME NEW n \in Nodes, Deliver(n) PROVE EntriesOK'
  <2>1. \A m, l \in Nodes : EntryOK(cache'[m].status[l], succeeded[l], tried[l])
    BY <1>3, <1>t DEF Deliver, StatusOK, CacheOK
  <2> QED
    BY <1>3, <1>t, <2>1
       DEF EntriesOK, StatusOK, CacheOK, RecOK, TasksOK, Deliver, apiVars, history
<1>4. ASSUME NEW n \in Nodes, Fetch(n) PROVE EntriesOK'
  <2>1. \A m \in Nodes : EntryOK(rec'[m].st, succeeded[m], tried[m])
    BY <1>4, <1>t, NoStatusOK DEF Fetch, CacheOK, RecOK
  <2> QED
    BY <1>4, <1>t, <2>1
       DEF EntriesOK, StatusOK, CacheOK, RecOK, TasksOK, Fetch, apiVars, history
<1>5. ASSUME NEW n \in Nodes, InitStatus(n) PROVE EntriesOK'
  <2>1. \A m \in Nodes : EntryOK(status'[m], succeeded[m], tried[m])
    BY <1>5, <1>t, <1>r, StatusWritten DEF InitStatus
  <2>2. \A m \in Nodes : EntryOK(rec'[m].st, succeeded[m], tried[m])
    BY <1>5, <1>t, GoToOK DEF InitStatus
  <2> QED
    BY <1>5, <1>t, <2>1, <2>2
       DEF EntriesOK, StatusOK, CacheOK, RecOK, TasksOK, InitStatus, history
<1>6. ASSUME NEW n \in Nodes, EnsureFinalizer(n) PROVE EntriesOK'
  <2>1. \A m \in Nodes : EntryOK(rec'[m].st, succeeded[m], tried[m])
    BY <1>6, <1>t, GoToOK DEF EnsureFinalizer
  <2> QED
    BY <1>6, <1>t, <2>1
       DEF EntriesOK, StatusOK, CacheOK, RecOK, TasksOK, EnsureFinalizer, history
<1>7. ASSUME NEW n \in Nodes, CleanupTask(n) PROVE EntriesOK'
  <2>1. \A m \in Nodes : EntryOK(rec'[m].st, succeeded[m], tried[m])
    BY <1>7, <1>t, GoToOK DEF CleanupTask
  <2> DEFINE k == SafeClose(tasks[n][job[n]])
  <2>2. job[n] \in TaskIds => /\ EntryOK(k.st, succeeded[n], tried[n])
                              /\ ProgressOK(k, succeeded[n], tried[n])
    BY <1>k, SafeCloseType, SafeCloseOK
  <2>3. \A m \in Nodes, u \in TaskIds :
          /\ EntryOK(tasks'[m][u].st, succeeded[m], tried[m])
          /\ ProgressOK(tasks'[m][u], succeeded[m], tried[m])
    BY <1>7, <1>t, <2>2, TaskUpdated DEF CleanupTask, TasksOK
  <2> QED
    BY <1>7, <1>t, <2>1, <2>3
       DEF EntriesOK, StatusOK, CacheOK, RecOK, TasksOK, CleanupTask, apiVars, history
<1>8. ASSUME NEW n \in Nodes, RemoveFinalizer(n) PROVE EntriesOK'
  <2>1. \A m \in Nodes : EntryOK(status'[m], succeeded[m], tried[m])
    BY <1>8, <1>t, Vanished DEF RemoveFinalizer, StatusOK, apiVars
  <2>2. \A m \in Nodes : EntryOK(rec'[m].st, succeeded[m], tried[m])
    BY <1>8, <1>t, GoToOK DEF RemoveFinalizer
  <2> QED
    BY <1>8, <1>t, <2>1, <2>2
       DEF EntriesOK, StatusOK, CacheOK, RecOK, TasksOK, RemoveFinalizer, history
<1>9. ASSUME NEW n \in Nodes, DecideNothing(n) PROVE EntriesOK'
  <2>1. \A m \in Nodes : EntryOK(rec'[m].st, succeeded[m], tried[m])
    BY <1>9, <1>t, GoToOK DEF DecideNothing
  <2> QED
    BY <1>9, <1>t, <2>1
       DEF EntriesOK, StatusOK, CacheOK, RecOK, TasksOK, DecideNothing, apiVars, history
<1>10. ASSUME NEW n \in Nodes, DecideSuspend(n) PROVE EntriesOK'
  <2> DEFINE r == [rec[n] EXCEPT !.pc = "suspend", !.st = SuspendEntry(rec[n].st)]
             k == SuspendTask(tasks[n][job[n]])
  <2>1. r.st = SuspendEntry(rec[n].st)
    BY <1>r DEF Reconciler
  <2>2. EntryOK(r.st, succeeded[n], tried[n])
    BY <1>r, <2>1, SuspendEntryOK
  <2>3. rec' = [rec EXCEPT ![n] = r]
    BY <1>10 DEF DecideSuspend
  <2>4. \A m \in Nodes : EntryOK(rec'[m].st, succeeded[m], tried[m])
    BY <1>t, <2>2, <2>3 DEF RecOK
  <2>5. job[n] \in TaskIds => /\ EntryOK(k.st, succeeded[n], tried[n])
                              /\ ProgressOK(k, succeeded[n], tried[n])
    BY <1>k, SuspendTaskType, SafeCloseOK
  <2>6. \A m \in Nodes, u \in TaskIds :
          /\ EntryOK(tasks'[m][u].st, succeeded[m], tried[m])
          /\ ProgressOK(tasks'[m][u], succeeded[m], tried[m])
    BY <1>10, <1>t, <2>5, TaskUpdated DEF DecideSuspend, TasksOK
  <2> QED
    BY <1>10, <1>t, <2>4, <2>6
       DEF EntriesOK, StatusOK, CacheOK, RecOK, TasksOK, DecideSuspend, apiVars, history
<1>11. ASSUME NEW n \in Nodes, SyncSuspend(n) PROVE EntriesOK'
  <2>1. \A m \in Nodes : EntryOK(status'[m], succeeded[m], tried[m])
    BY <1>11, <1>t, <1>r, StatusWritten DEF SyncSuspend
  <2>2. \A m \in Nodes : EntryOK(rec'[m].st, succeeded[m], tried[m])
    BY <1>11, <1>t, GoToOK DEF SyncSuspend
  <2> QED
    BY <1>11, <1>t, <2>1, <2>2
       DEF EntriesOK, StatusOK, CacheOK, RecOK, TasksOK, SyncSuspend, history
<1>12. ASSUME NEW n \in Nodes, CreateTask(n) PROVE EntriesOK'
  <2>1. PICK t \in TaskIds :
          /\ tasks' = [tasks EXCEPT ![n] =
                       [u \in TaskIds |->
                          IF u = t THEN [NoTask EXCEPT !.pc = "created",
                                           !.gen = rec[n].obj.gen, !.rv = rec[n].obj.rv]
                          ELSE IF u = job[n] THEN SafeClose(tasks[n][u])
                          ELSE tasks[n][u]]]
          /\ rec' = [rec EXCEPT ![n] = [@ EXCEPT !.pc = "start", !.task = t]]
    BY <1>12 DEF CreateTask
  <2> DEFINE k == [NoTask EXCEPT !.pc = "created",
                                 !.gen = rec[n].obj.gen, !.rv = rec[n].obj.rv]
  <2>2. k.st = NoTask.st /\ k.pc = "created"
    BY DEF NoTask
  <2>3. EntryOK(k.st, succeeded[n], tried[n]) /\ ProgressOK(k, succeeded[n], tried[n])
    BY <2>2, NoTaskOK DEF ProgressOK
  <2>4. \A u \in TaskIds : /\ EntryOK(SafeClose(tasks[n][u]).st, succeeded[n], tried[n])
                           /\ ProgressOK(SafeClose(tasks[n][u]), succeeded[n], tried[n])
    BY <1>k, SafeCloseType, SafeCloseOK
  <2>5. \A m \in Nodes, u \in TaskIds :
          /\ EntryOK(tasks'[m][u].st, succeeded[m], tried[m])
          /\ ProgressOK(tasks'[m][u], succeeded[m], tried[m])
    BY <1>t, <1>k, <2>1, <2>3, <2>4
  <2>6. [rec[n] EXCEPT !.pc = "start", !.task = t].st = rec[n].st
    BY <1>r DEF Reconciler
  <2>7. \A m \in Nodes : EntryOK(rec'[m].st, succeeded[m], tried[m])
    BY <1>t, <1>r, <2>1, <2>6
  <2> QED
    BY <1>12, <1>t, <2>5, <2>7
       DEF EntriesOK, StatusOK, CacheOK, RecOK, TasksOK, CreateTask, apiVars, history
<1>13. ASSUME NEW n \in Nodes, StartTask(n) PROVE EntriesOK'
  <2>1. \A m \in Nodes : EntryOK(status'[m], succeeded[m], tried[m])
    BY <1>13, <1>t, <1>r, StatusWritten DEF StartTask
  <2>2. \A m \in Nodes : EntryOK(rec'[m].st, succeeded[m], tried[m])
    BY <1>13, <1>t, GoToOK DEF StartTask
  <2> DEFINE k == [tasks[n][rec[n].task] EXCEPT !.pc = "loop", !.idx = 1, !.st = rec[n].st]
  <2>3. ASSUME rec[n].task \in TaskIds
        PROVE  EntryOK(k.st, succeeded[n], tried[n]) /\ ProgressOK(k, succeeded[n], tried[n])
    <3>1. tasks[n][rec[n].task] \in Task
      BY <1>k, <2>3
    <3>2. k.pc = "loop" /\ k.idx = 1 /\ k.st = rec[n].st
      BY <3>1, <1>r, LaunchType
    <3>3. Len(rec[n].st.conds) \in Nat
      BY <1>r DEF StatusEntry
    <3> QED
      BY <1>r, <3>2, <3>3, CommandAssumption, SMTT(30) DEF ProgressOK
  <2>4. \A m \in Nodes, u \in TaskIds :
          /\ EntryOK(tasks'[m][u].st, succeeded[m], tried[m])
          /\ ProgressOK(tasks'[m][u], succeeded[m], tried[m])
    BY <1>13, <1>t, <2>3, TaskUpdated DEF StartTask
  <2> QED
    BY <1>13, <1>t, <2>1, <2>2, <2>4
       DEF EntriesOK, StatusOK, CacheOK, RecOK, TasksOK, StartTask, history
<1>14. ASSUME NEW n \in Nodes, ReconcileFails(n) PROVE EntriesOK'
  <2>1. \A m \in Nodes : EntryOK(rec'[m].st, succeeded[m], tried[m])
    BY <1>14, <1>t, GoToOK DEF ReconcileFails
  <2> QED
    BY <1>14, <1>t, <2>1
       DEF EntriesOK, StatusOK, CacheOK, RecOK, TasksOK, ReconcileFails, apiVars, history
<1>15. ASSUME NEW n \in Nodes, NEW t \in TaskIds, TaskStopped(n, t) PROVE EntriesOK'
  <2> DEFINE k == [tasks[n][t] EXCEPT !.pc = "done"]
  <2>1. k.st = tasks[n][t].st /\ k.pc = "done"
    BY <1>k DEF Task
  <2>2. EntryOK(k.st, succeeded[n], tried[n]) /\ ProgressOK(k, succeeded[n], tried[n])
    BY <1>k, <2>1 DEF ProgressOK
  <2>3. \A m \in Nodes, u \in TaskIds :
          /\ EntryOK(tasks'[m][u].st, succeeded[m], tried[m])
          /\ ProgressOK(tasks'[m][u], succeeded[m], tried[m])
    BY <1>15, <1>t, <2>2, TaskUpdated DEF TaskStopped
  <2> QED
    BY <1>15, <1>t, <2>3
       DEF EntriesOK, StatusOK, CacheOK, RecOK, TasksOK, TaskStopped, apiVars, history
<1>16. ASSUME NEW n \in Nodes, NEW t \in TaskIds, TaskLoopEnds(n, t) PROVE EntriesOK'
  <2> DEFINE k == [tasks[n][t] EXCEPT !.pc = "final"]
             e == [tasks[n][t] EXCEPT !.pc = "final", !.flags = @ \cup {"expired"}]
  <2>1. /\ k.st = tasks[n][t].st /\ k.pc = "final"
        /\ e.st = tasks[n][t].st /\ e.pc = "final"
    BY <1>k DEF Task
  <2>2. /\ EntryOK(k.st, succeeded[n], tried[n]) /\ ProgressOK(k, succeeded[n], tried[n])
        /\ EntryOK(e.st, succeeded[n], tried[n]) /\ ProgressOK(e, succeeded[n], tried[n])
    BY <1>k, <2>1 DEF ProgressOK
  <2>3. \A m \in Nodes, u \in TaskIds :
          /\ EntryOK(tasks'[m][u].st, succeeded[m], tried[m])
          /\ ProgressOK(tasks'[m][u], succeeded[m], tried[m])
    <3>1. CASE Update(n, t, k)
      BY <3>1, <1>t, <2>2, TaskUpdated
    <3>2. CASE Update(n, t, e)
      BY <3>2, <1>t, <2>2, TaskUpdated
    <3> QED
      BY <1>16, <3>1, <3>2 DEF TaskLoopEnds
  <2> QED
    BY <1>16, <1>t, <2>3
       DEF EntriesOK, StatusOK, CacheOK, RecOK, TasksOK, TaskLoopEnds, apiVars, history
<1>17. ASSUME NEW n \in Nodes, NEW t \in TaskIds, TaskSkipsCompleted(n, t) PROVE EntriesOK'
  <2> DEFINE o == tasks[n][t]
             k == [o EXCEPT !.idx = @ + 1]
  <2>1. k.st = o.st /\ k.pc = o.pc /\ k.idx = o.idx + 1 /\ k.flags = o.flags
    BY <1>k DEF Task
  <2>2. /\ o.pc = "loop" /\ o.idx \in 1..NumCommands /\ ~Expired(o)
        /\ o.idx \in 1..Len(o.st.conds) /\ o.st.conds[o.idx].phase = "Completed"
        /\ Len(o.st.conds) \in Nat
    <3>1. /\ AtCommand(o) /\ IsCommandCompleted(o.st.conds, o.idx) /\ o \in Task
          /\ ProgressOK(o, succeeded[n], tried[n])
      BY <1>17, <1>k DEF TaskSkipsCompleted
    <3> HIDE DEF o
    <3>2. o.st.conds \in Seq(Condition) /\ o.pc = "loop"
      BY <3>1 DEF Task, StatusEntry, AtCommand, Looping
    <3> QED
      BY <3>1, <3>2, AtCommandFacts DEF IsCommandCompleted
  <2>3. Done(o.idx, succeeded[n], tried[n])
    BY <1>k, <2>2 DEF EntryOK, Done
  <2>4. \A i \in 1..(o.idx - 1) : Done(i, succeeded[n], tried[n])
    BY <1>k, <2>2 DEF ProgressOK
  <2>5. \A i \in 1..o.idx : Done(i, succeeded[n], tried[n])
    BY <2>2, <2>3, <2>4
  <2>6. EntryOK(k.st, succeeded[n], tried[n]) /\ ProgressOK(k, succeeded[n], tried[n])
    <3>1. o \in Task /\ EntryOK(o.st, succeeded[n], tried[n])
      BY <1>k
    <3> HIDE DEF o, k
    <3> QED
      BY <2>1, <2>2, <2>5, <3>1, NextCommandOK
  <2>7. \A m \in Nodes, u \in TaskIds :
          /\ EntryOK(tasks'[m][u].st, succeeded[m], tried[m])
          /\ ProgressOK(tasks'[m][u], succeeded[m], tried[m])
    BY <1>17, <1>t, <2>6, TaskUpdated DEF TaskSkipsCompleted
  <2> QED
    BY <1>17, <1>t, <2>7
       DEF EntriesOK, StatusOK, CacheOK, RecOK, TasksOK, TaskSkipsCompleted, apiVars, history
<1>18. ASSUME NEW n \in Nodes, NEW t \in TaskIds, TaskBegins(n, t) PROVE EntriesOK'
  <2> DEFINE o == tasks[n][t]
             w == WithCondition(o.st, o.idx, NewCondition)
             k == [o EXCEPT !.pc = "exec", !.st = w]
  <2>1. k.st = w /\ k.pc = "exec" /\ k.idx = o.idx /\ k.flags = o.flags
    BY <1>k DEF Task
  <2>2. /\ o.idx \in 1..NumCommands /\ ~Expired(o) /\ o.idx <= Len(o.st.conds) + 1
        /\ \A i \in 1..(o.idx - 1) : Done(i, succeeded[n], tried[n])
    <3>1. Looping(o) /\ ~Expired(o)
      BY <1>18, Zenon DEF TaskBegins, AtCommand
    <3>2. ProgressOK(o, succeeded[n], tried[n]) /\ o.idx \in Nat
      BY <1>k DEF Task
    <3> HIDE DEF o
    <3> QED BY <3>1, <3>2, CommandAssumption DEF Looping, ProgressOK
  <2>3. NewCondition \in Condition /\ NewCondition.phase = "Running"
    BY ConditionTypes DEF NewCondition
  <2>4. EntryOK(w, succeeded[n], tried[n]) /\ o.idx \in 1..Len(w.conds)
    BY <1>k, <2>2, <2>3, WithConditionOK
  <2>5. Len(w.conds) \in Nat /\ ~Expired(k)
    BY <1>k, <2>1, <2>2, <2>3, WithConditionType DEF StatusEntry, Expired
  <2> HIDE DEF w
  <2>6. EntryOK(k.st, succeeded[n], tried[n]) /\ ProgressOK(k, succeeded[n], tried[n])
    BY <2>1, <2>2, <2>4, <2>5, CommandAssumption, SMTT(30) DEF ProgressOK
  <2>7. \A m \in Nodes, u \in TaskIds :
          /\ EntryOK(tasks'[m][u].st, succeeded[m], tried[m])
          /\ ProgressOK(tasks'[m][u], succeeded[m], tried[m])
    BY <1>18, <1>t, <2>6, TaskUpdated DEF TaskBegins, w
  <2> QED
    BY <1>18, <1>t, <2>7
       DEF EntriesOK, StatusOK, CacheOK, RecOK, TasksOK, TaskBegins, apiVars, history
<1>19. ASSUME NEW n \in Nodes, NEW t \in TaskIds, TaskExecutes(n, t) PROVE EntriesOK'
  <2> DEFINE o == tasks[n][t]
             c(x) == ConditionAfter(o.idx, x)
             w(x) == WithCondition(o.st, o.idx, c(x))
             late(x) == x \in {"late", "lateFailure"}
             k(x) == [o EXCEPT !.pc = "sync",
                               !.flags = IF late(x) THEN @ \cup {"expired"} ELSE @,
                               !.st = w(x)]
             S2 == succeeded'[n]
             T2 == tried'[n]
  <2>0. PICK x \in Outcomes :
          /\ Update(n, t, k(x))
          /\ succeeded' = IF x = "success"
                          THEN [succeeded EXCEPT ![n] = @ \cup {o.idx}] ELSE succeeded
          /\ tried' = IF x = "late" THEN tried ELSE [tried EXCEPT ![n] = @ \cup {o.idx}]
    BY <1>19 DEF TaskExecutes
  <2>1. /\ \A m \in Nodes : succeeded[m] \subseteq succeeded'[m] /\ tried[m] \subseteq tried'[m]
        /\ x = "success" => o.idx \in S2
        /\ x # "late" => o.idx \in T2
    BY <2>0 DEF TypeOK
  <2>2. /\ o.idx \in 1..Len(o.st.conds) /\ ~Expired(o) /\ Len(o.st.conds) \in Nat
        /\ o.idx \in 1..NumCommands
        /\ \A i \in 1..(o.idx - 1) : Done(i, succeeded[n], tried[n])
    <3>1. /\ o.pc = "exec" /\ o \in Task /\ EntryOK(o.st, succeeded[n], tried[n])
          /\ ProgressOK(o, succeeded[n], tried[n])
      BY <1>19, <1>k DEF TaskExecutes
    <3> HIDE DEF o
    <3> QED
      BY <3>1, ExecFacts
  <2>3. /\ c(x) \in Condition
        /\ c(x).phase = "Completed" => o.idx \in S2
        /\ c(x).phase = "Skip" => o.idx \in Ignorable \cap T2
        /\ ~late(x) => c(x).phase \in {"Completed", "Skip", "Failed"}
    BY <2>1, ConditionTypes DEF ConditionAfter, NewCondition
  <2>4. EntryOK(o.st, S2, T2) /\ \A i \in 1..(o.idx - 1) : Done(i, S2, T2)
    BY <1>k, <2>1, <2>2, EntryMonotone DEF Done
  <2>5. /\ EntryOK(w(x), S2, T2) /\ o.idx \in 1..Len(w(x).conds) /\ w(x).conds[o.idx] = c(x)
    BY <1>k, <2>2, <2>3, <2>4, WithConditionOK
  <2>6. w(x) \in StatusEntry /\ Len(w(x).conds) \in Nat
    BY <1>k, <2>3, WithConditionType DEF StatusEntry
  <2>7. /\ k(x).pc = "sync" /\ k(x).idx = o.idx /\ k(x).st = w(x)
        /\ Expired(k(x)) <=> late(x)
    <3>1. o \in Task /\ w(x) \in StatusEntry /\ ~Expired(o)
      BY <1>k, <2>2, <2>6
    <3> HIDE DEF o, w, late
    <3>2. /\ k(x).pc = "sync" /\ k(x).idx = o.idx /\ k(x).st = w(x)
          /\ k(x).flags = IF late(x) THEN o.flags \cup {"expired"} ELSE o.flags
      BY <3>1 DEF Task
    <3> HIDE DEF k
    <3> QED
      BY <3>1, <3>2 DEF Expired
  <2> HIDE DEF c, w, k, late
  <2>8. EntryOK(k(x).st, S2, T2) /\ ProgressOK(k(x), S2, T2)
    BY <2>2, <2>3, <2>4, <2>5, <2>6, <2>7, CommandAssumption DEF ProgressOK
  <2>9. \A m \in Nodes : /\ EntryOK(status[m], succeeded'[m], tried'[m])
                         /\ EntryOK(rec[m].st, succeeded'[m], tried'[m])
                         /\ \A l \in Nodes : EntryOK(cache[l].status[m], succeeded'[m], tried'[m])
    BY <1>t, <2>1, EntryMonotone DEF StatusOK, CacheOK, RecOK
  <2>10. \A m \in Nodes, u \in TaskIds : /\ EntryOK(tasks[m][u].st, succeeded'[m], tried'[m])
                                         /\ ProgressOK(tasks[m][u], succeeded'[m], tried'[m])
    BY <1>k, <2>1, EntryMonotone, ProgressMonotone
  <2>11. \A m \in Nodes, u \in TaskIds : /\ EntryOK(tasks'[m][u].st, succeeded'[m], tried'[m])
                                         /\ ProgressOK(tasks'[m][u], succeeded'[m], tried'[m])
    BY <1>t, <2>0, <2>8, <2>10 DEF Update
  <2> QED
    BY <1>19, <2>9, <2>11
       DEF EntriesOK, StatusOK, CacheOK, RecOK, TasksOK, TaskExecutes, apiVars
<1>20. ASSUME NEW n \in Nodes, NEW t \in TaskIds, TaskSyncs(n, t) PROVE EntriesOK'
  <2> DEFINE o == tasks[n][t]
             f == [o EXCEPT !.pc = "final"]
             a == [o EXCEPT !.pc = "loop", !.idx = @ + 1]
             k == IF ShouldBreak(o) THEN f ELSE a
  <2>1. \A m \in Nodes : EntryOK(status'[m], succeeded[m], tried[m])
    BY <1>20, <1>t, <1>k, StatusWritten DEF TaskSyncs
  <2>2. f.st = o.st /\ f.pc = "final"
    BY <1>k DEF Task
  <2>3. a.st = o.st /\ a.pc = "loop" /\ a.idx = o.idx + 1 /\ a.flags = o.flags
    BY <1>k, AdvanceType
  <2>4. /\ o.pc = "sync" /\ o.idx \in 1..Len(o.st.conds) /\ Len(o.st.conds) \in Nat
        /\ Len(o.st.conds) <= NumCommands
    <3>1. o.pc = "sync"
      BY <1>20, Zenon DEF TaskSyncs
    <3>2. /\ ProgressOK(o, succeeded[n], tried[n])
          /\ EntryOK(o.st, succeeded[n], tried[n]) /\ o.st \in StatusEntry
      BY <1>k DEF Task
    <3> HIDE DEF o
    <3> QED BY <3>1, <3>2 DEF ProgressOK, EntryOK, StatusEntry
  <2>5. ProgressOK(f, succeeded[n], tried[n])
    BY <2>2 DEF ProgressOK
  <2>6. ASSUME ~ShouldBreak(o), ~Expired(o)
        PROVE  \A i \in 1..o.idx : Done(i, succeeded[n], tried[n])
    <3>1. o.st.conds[o.idx].phase \in {"Completed", "Skip"}
      BY <1>k, <2>4, <2>6 DEF ShouldBreak, ProgressOK
    <3>2. Done(o.idx, succeeded[n], tried[n])
      BY <1>k, <2>4, <3>1 DEF EntryOK, Done
    <3>3. \A i \in 1..(o.idx - 1) : Done(i, succeeded[n], tried[n])
      BY <1>k, <2>4, <2>6 DEF ProgressOK
    <3> QED
      BY <2>4, <3>2, <3>3
  <2>7. ~ShouldBreak(o) => ProgressOK(a, succeeded[n], tried[n])
    <3>1. o \in Task
      BY <1>k
    <3>2. o.idx \in 1..NumCommands
      BY <2>4, CommandAssumption
    <3> HIDE DEF o, a
    <3> QED
      BY <2>3, <2>4, <2>6, <3>1, <3>2, NextCommandOK
  <2>8. EntryOK(k.st, succeeded[n], tried[n]) /\ ProgressOK(k, succeeded[n], tried[n])
    BY <1>k, <2>2, <2>3, <2>5, <2>7
  <2>9. \A m \in Nodes, u \in TaskIds :
          /\ EntryOK(tasks'[m][u].st, succeeded[m], tried[m])
          /\ ProgressOK(tasks'[m][u], succeeded[m], tried[m])
    BY <1>20, <1>t, <2>8, TaskUpdated DEF TaskSyncs
  <2> QED
    BY <1>20, <1>t, <2>1, <2>9
       DEF EntriesOK, StatusOK, CacheOK, RecOK, TasksOK, TaskSyncs, history
<1>21. ASSUME NEW n \in Nodes, NEW t \in TaskIds, TaskFinalizes(n, t) PROVE EntriesOK'
  <2> DEFINE o  == tasks[n][t]
             st == ConditionCount(o.st)
             k  == [o EXCEPT !.pc = "settle", !.st = st]
  <2>1. EntryOK(st, succeeded[n], tried[n])
    BY <1>k, ConditionCountOK
  <2>2. \A m \in Nodes : EntryOK(status'[m], succeeded[m], tried[m])
    BY <1>21, <1>t, <2>1, StatusWritten DEF TaskFinalizes
  <2>3. k.st = st /\ k.pc = "settle"
    BY <1>k DEF Task
  <2>4. EntryOK(k.st, succeeded[n], tried[n]) /\ ProgressOK(k, succeeded[n], tried[n])
    BY <2>1, <2>3 DEF ProgressOK
  <2>5. \A m \in Nodes, u \in TaskIds :
          /\ EntryOK(tasks'[m][u].st, succeeded[m], tried[m])
          /\ ProgressOK(tasks'[m][u], succeeded[m], tried[m])
    BY <1>21, <1>t, <2>4, TaskUpdated DEF TaskFinalizes
  <2> QED
    BY <1>21, <1>t, <2>2, <2>5
       DEF EntriesOK, StatusOK, CacheOK, RecOK, TasksOK, TaskFinalizes, history
<1>22. ASSUME NEW n \in Nodes, NEW t \in TaskIds, TaskSettles(n, t) PROVE EntriesOK'
  <2> DEFINE a(u) == [tasks[n][u] EXCEPT
                        !.pc    = IF u = t THEN "done" ELSE @,
                        !.phase = IF u = job[n] THEN tasks[n][t].st.phase ELSE @,
                        !.flags = IF u = job[n] THEN @ \cup {"closed"} ELSE @]
  <2>1. ASSUME NEW u \in TaskIds
        PROVE  EntryOK(a(u).st, succeeded[n], tried[n]) /\ ProgressOK(a(u), succeeded[n], tried[n])
    <3>1. tasks[n][u] \in Task
      BY <1>k
    <3>2. /\ a(u).st = tasks[n][u].st /\ a(u).idx = tasks[n][u].idx
          /\ a(u).pc = IF u = t THEN "done" ELSE tasks[n][u].pc
          /\ Expired(a(u)) <=> Expired(tasks[n][u])
      BY <3>1 DEF Task, Expired
    <3>3. EntryOK(tasks[n][u].st, succeeded[n], tried[n]) /\ ProgressOK(tasks[n][u], succeeded[n], tried[n])
      BY <1>k
    <3> HIDE DEF a
    <3>4. CASE u = t
      BY <3>2, <3>3, <3>4 DEF ProgressOK
    <3>5. CASE u # t
      BY <3>2, <3>3, <3>5, SameProgress
    <3> QED
      BY <3>4, <3>5
  <2>2. tasks' = [tasks EXCEPT ![n] = [u \in TaskIds |-> a(u)]]
    BY <1>22 DEF TaskSettles
  <2> HIDE DEF a
  <2>3. \A m \in Nodes, u \in TaskIds :
          /\ EntryOK(tasks'[m][u].st, succeeded[m], tried[m])
          /\ ProgressOK(tasks'[m][u], succeeded[m], tried[m])
    BY <1>t, <1>k, <2>1, <2>2
  <2> QED
    BY <1>22, <1>t, <2>3
       DEF EntriesOK, StatusOK, CacheOK, RecOK, TasksOK, TaskSettles, apiVars, history
<1>23. ASSUME NEW n \in Nodes, NEW t \in TaskIds, TaskFails(n, t) PROVE EntriesOK'
  <2> DEFINE k == [tasks[n][t] EXCEPT !.pc = "done"]
  <2>1. k.st = tasks[n][t].st /\ k.pc = "done"
    BY <1>k DEF Task
  <2>2. EntryOK(k.st, succeeded[n], tried[n]) /\ ProgressOK(k, succeeded[n], tried[n])
    BY <1>k, <2>1 DEF ProgressOK
  <2>3. \A m \in Nodes, u \in TaskIds :
          /\ EntryOK(tasks'[m][u].st, succeeded[m], tried[m])
          /\ ProgressOK(tasks'[m][u], succeeded[m], tried[m])
    BY <1>23, <1>t, <2>2, TaskUpdated DEF TaskFails
  <2> QED
    BY <1>23, <1>t, <2>3
       DEF EntriesOK, StatusOK, CacheOK, RecOK, TasksOK, TaskFails, apiVars, history
<1>24. ASSUME NEW n \in Nodes, ProcessTTL(n) PROVE EntriesOK'
  <2> DEFINE o == tasks[n][job[n]]
             k == [o EXCEPT !.flags = @ \cup {"timed"}]
  <2>1. ASSUME job[n] \in TaskIds
        PROVE  EntryOK(k.st, succeeded[n], tried[n]) /\ ProgressOK(k, succeeded[n], tried[n])
    <3>1. o \in Task
      BY <1>k, <2>1
    <3>2. k.st = o.st /\ k.idx = o.idx /\ k.pc = o.pc /\ (Expired(k) <=> Expired(o))
      BY <3>1 DEF Task, Expired
    <3>3. EntryOK(o.st, succeeded[n], tried[n]) /\ ProgressOK(o, succeeded[n], tried[n])
      BY <1>k, <2>1
    <3> HIDE DEF o, k
    <3> QED
      BY <3>2, <3>3, SameProgress
  <2>2. \A m \in Nodes, u \in TaskIds :
          /\ EntryOK(tasks'[m][u].st, succeeded[m], tried[m])
          /\ ProgressOK(tasks'[m][u], succeeded[m], tried[m])
    BY <1>24, <1>t, <1>k, <2>1, TaskUpdated DEF ProcessTTL
  <2> QED
    BY <1>24, <1>t, <2>2
       DEF EntriesOK, StatusOK, CacheOK, RecOK, TasksOK, ProcessTTL, apiVars, history
<1>25. ASSUME NEW n \in Nodes, TimerFires(n) PROVE EntriesOK'
  <2>1. \A m \in Nodes : EntryOK(status'[m], succeeded[m], tried[m])
    BY <1>25, <1>t, Deleted DEF TimerFires
  <2> QED
    BY <1>25, <1>t, <2>1 DEF EntriesOK, StatusOK, CacheOK, RecOK, TasksOK, TimerFires, history
<1>26. ASSUME NEW n \in Nodes, Restart(n) PROVE EntriesOK'
  <2>1. \A m, l \in Nodes : EntryOK(cache'[m].status[l], succeeded[l], tried[l])
    BY <1>26, <1>t, NoStatusOK DEF Restart, EmptyCache, CacheOK
  <2>2. \A m \in Nodes : EntryOK(rec'[m].st, succeeded[m], tried[m])
    BY <1>26, <1>t, NoStatusOK DEF Restart, NoReconcile, RecOK
  <2>3. \A m \in Nodes, u \in TaskIds :
          /\ EntryOK(tasks'[m][u].st, succeeded[m], tried[m])
          /\ ProgressOK(tasks'[m][u], succeeded[m], tried[m])
    BY <1>26, <1>t, <1>k, NoTaskOK DEF Restart
  <2> QED
    BY <1>26, <1>t, <2>1, <2>2, <2>3
       DEF EntriesOK, StatusOK, CacheOK, RecOK, TasksOK, Restart, apiVars, history
<1>27. CASE UNCHANGED vars
  BY <1>27, <1>t DEF EntriesOK, StatusOK, CacheOK, RecOK, TasksOK, vars
<1> QED
  BY <1>1, <1>2, <1>3, <1>4, <1>5, <1>6, <1>7, <1>8, <1>9, <1>10, <1>11, <1>12, <1>13,
     <1>14, <1>15, <1>16, <1>17, <1>18, <1>19, <1>20, <1>21, <1>22, <1>23, <1>24, <1>25,
     <1>26, <1>27 DEF Next, Reconcile, Goroutine

-----------------------------------------------------------------------------
(* FinalizerOK                                                             *)

\* only the disappearance of the Command takes the finalizer away
LEMMA FinalizerKept ==
    ASSUME obj \in Meta, [Next]_vars, Exists', "finalizer" \notin obj'.flags
    PROVE  Exists /\ "finalizer" \notin obj.flags
<1> SUFFICES ASSUME \/ obj' = obj
                    \/ obj'.life = "gone"
                    \/ obj'.life \in {"live", "deleting"} /\ obj.life \in {"live", "deleting"}
                       /\ obj'.flags \cap {"finalizer"} = obj.flags \cap {"finalizer"}
                    \/ "finalizer" \in obj'.flags
             PROVE  Exists /\ "finalizer" \notin obj.flags
  <2> DEFINE Kept == \/ obj' = obj
                     \/ obj'.life = "gone"
                     \/ obj'.life \in {"live", "deleting"} /\ obj.life \in {"live", "deleting"}
                        /\ obj'.flags \cap {"finalizer"} = obj.flags \cap {"finalizer"}
                     \/ "finalizer" \in obj'.flags
  <2>1. ASSUME NEW n \in Nodes, NEW st, WriteStatus(n, st) PROVE Kept
    BY <2>1 DEF WriteStatus, apiVars, Exists, Meta
  <2>2. ASSUME Vanish PROVE Kept
    BY <2>2 DEF Vanish, NoObject
  <2>3. ASSUME RequestDelete PROVE Kept
    BY <2>2, <2>3 DEF RequestDelete, Meta
  <2>4. ASSUME ToggleSuspend PROVE Kept
    BY <2>4 DEF ToggleSuspend, Meta
  <2>5. ASSUME NEW n \in Nodes, EnsureFinalizer(n) PROVE Kept
    BY <2>5 DEF EnsureFinalizer, Meta
  <2>6. ASSUME NEW n \in Nodes, Reconcile(n) PROVE Kept
    BY <2>1, <2>2, <2>5, <2>6
       DEF Reconcile, Fetch, InitStatus, CleanupTask, RemoveFinalizer, DecideNothing,
           DecideSuspend, SyncSuspend, CreateTask, StartTask, apiVars
  <2>7. ASSUME NEW n \in Nodes, NEW t \in TaskIds, Goroutine(n, t) \/ TaskFails(n, t) PROVE Kept
    BY <2>1, <2>7
       DEF Goroutine, TaskFails, TaskStopped, TaskLoopEnds, TaskSkipsCompleted, TaskBegins,
           TaskExecutes, TaskSyncs, TaskFinalizes, TaskSettles, apiVars
  <2>8. ASSUME NEW n \in Nodes, \/ Deliver(n) \/ ReconcileFails(n) \/ ProcessTTL(n)
                                \/ TimerFires(n) \/ Restart(n)
        PROVE Kept
    BY <2>3, <2>8 DEF Deliver, ReconcileFails, ProcessTTL, TimerFires, Restart, apiVars
  <2>9. ASSUME ManagerDelete PROVE Kept
    BY <2>3, <2>9 DEF ManagerDelete
  <2> QED
    BY <2>4, <2>6, <2>7, <2>8, <2>9 DEF Next, vars
<1> QED
  BY DEF Exists, Meta

LEMMA FinalizerInit == Init => FinalizerOK
<1> SUFFICES ASSUME Init, NEW n \in Nodes
             PROVE  /\ job[n] = 0
                    /\ "finalizer" \notin cache[n].obj.flags
                    /\ "finalizer" \notin rec[n].obj.flags
                    /\ rec[n].pc \notin {"decide", "suspend", "start"}
  BY DEF FinalizerOK
<1>1. job[n] = 0 /\ cache[n] = EmptyCache /\ rec[n] = NoReconcile
  BY DEF Init
<1>2. EmptyCache.obj.flags = {}
  BY DEF EmptyCache, NoObject
<1>3. NoReconcile.obj.flags = {} /\ NoReconcile.pc = "idle"
  BY DEF NoReconcile, NoObject
<1> QED
  BY <1>1, <1>2, <1>3

LEMMA FinalizerNext == TypeOK /\ FinalizerOK /\ [Next]_vars => FinalizerOK'
<1> SUFFICES ASSUME TypeOK, FinalizerOK, [Next]_vars, Exists', "finalizer" \notin obj'.flags,
                    NEW m \in Nodes
             PROVE  /\ job'[m] = 0
                    /\ "finalizer" \notin cache'[m].obj.flags
                    /\ "finalizer" \notin rec'[m].obj.flags
                    /\ rec'[m].pc \notin {"decide", "suspend", "start"}
  BY DEF FinalizerOK
<1> DEFINE Goal == /\ job'[m] = 0
                   /\ "finalizer" \notin cache'[m].obj.flags
                   /\ "finalizer" \notin rec'[m].obj.flags
                   /\ rec'[m].pc \notin {"decide", "suspend", "start"}
<1>t. /\ obj \in Meta
      /\ cache \in [Nodes -> CacheEntry]
      /\ rec \in [Nodes -> Reconciler]
      /\ job \in [Nodes -> 0..MaxTasks]
  BY DEF TypeOK
<1>o. Exists /\ "finalizer" \notin obj.flags
  BY <1>t, FinalizerKept
<1>f. \A n \in Nodes : /\ job[n] = 0
                       /\ "finalizer" \notin cache[n].obj.flags
                       /\ "finalizer" \notin rec[n].obj.flags
                       /\ rec[n].pc \notin {"decide", "suspend", "start"}
  BY <1>o DEF FinalizerOK
<1>g. ASSUME NEW n \in Nodes, NEW pc, pc \notin {"decide", "suspend", "start"}, GoTo(n, pc),
             job' = job, cache' = cache
      PROVE  Goal
  BY <1>t, <1>f, <1>g DEF GoTo, Reconciler
<1>1. ASSUME ToggleSuspend \/ ManagerDelete PROVE Goal
  BY <1>1, <1>f DEF ToggleSuspend, ManagerDelete
<1>2. ASSUME NEW n \in Nodes, Deliver(n) PROVE Goal
  <2>1. obj'.flags = obj.flags
    BY <1>2 DEF Deliver, apiVars
  <2>2. cache'[m].obj.flags = cache[m].obj.flags \/ cache'[m].obj.flags = obj.flags
    BY <1>2, <1>t DEF Deliver, CacheEntry
  <2> QED
    BY <1>2, <1>f, <1>o, <2>2 DEF Deliver
<1>3. ASSUME NEW n \in Nodes, Fetch(n) PROVE Goal
  <2>1. \/ rec'[m] = rec[m]
        \/ rec'[m].obj = cache[m].obj /\ rec'[m].pc \in {"idle", "init", "finalizer"}
    BY <1>3, <1>t DEF Fetch
  <2> QED
    BY <1>3, <1>f, <2>1 DEF Fetch
<1>4. ASSUME NEW n \in Nodes, InitStatus(n) PROVE Goal
  BY <1>4, <1>g DEF InitStatus
<1>5. ASSUME NEW n \in Nodes, EnsureFinalizer(n) PROVE Goal
  <2>1. ASSUME Exists, "finalizer" \notin rec[n].obj.flags PROVE "finalizer" \in obj'.flags
    BY <1>5, <1>t, <2>1, ZenonT(30) DEF EnsureFinalizer, Meta
  <2> QED
    BY <1>f, <1>o, <2>1
<1>6. ASSUME NEW n \in Nodes, CleanupTask(n) PROVE Goal
  BY <1>6, <1>f, <1>g DEF CleanupTask
<1>7. ASSUME NEW n \in Nodes, RemoveFinalizer(n) \/ ReconcileFails(n) PROVE Goal
  BY <1>7, <1>g DEF RemoveFinalizer, ReconcileFails
<1>8. ASSUME NEW n \in Nodes, \/ DecideNothing(n) \/ DecideSuspend(n) \/ SyncSuspend(n)
                              \/ CreateTask(n) \/ StartTask(n)
      PROVE Goal
  BY <1>8, <1>f DEF DecideNothing, DecideSuspend, SyncSuspend, CreateTask, StartTask
<1>9. ASSUME NEW n \in Nodes, NEW t \in TaskIds, Goroutine(n, t) \/ TaskFails(n, t) PROVE Goal
  BY <1>9, <1>f
     DEF Goroutine, TaskFails, TaskStopped, TaskLoopEnds, TaskSkipsCompleted, TaskBegins,
         TaskExecutes, TaskSyncs, TaskFinalizes, TaskSettles
<1>10. ASSUME NEW n \in Nodes, ProcessTTL(n) \/ TimerFires(n) PROVE Goal
  BY <1>10, <1>f DEF ProcessTTL, TimerFires
<1>11. ASSUME NEW n \in Nodes, Restart(n) PROVE Goal
  BY <1>11, <1>t, <1>f DEF Restart, EmptyCache, NoReconcile, NoObject
<1>12. CASE UNCHANGED vars
  BY <1>12, <1>f DEF vars
<1> QED
  BY <1>1, <1>2, <1>3, <1>4, <1>5, <1>6, <1>7, <1>8, <1>9, <1>10, <1>11, <1>12
     DEF Next, Reconcile

-----------------------------------------------------------------------------
(* Theorems for any constants                                              *)

\* The inductive invariant holds of every behaviour of the protocol, for every set of
\* nodes, number of commands and bound on crashes, failures, pauses and deletions.
THEOREM Invariance == Spec => []IInv
<1>1. Init => IInv
  BY TypeInit, EntriesInit, FinalizerInit DEF IInv
<1>2. IInv /\ [Next]_vars => IInv'
  BY TypeNext, EntriesNext, FinalizerNext DEF IInv
<1> QED
  BY <1>1, <1>2, PTL DEF Spec

\* Every variable keeps its type: no action of an agent or of the manager writes a
\* phase, a condition or a task field outside the ones the Go types name.
THEOREM TypeCorrect == Spec => []TypeOK
<1>1. IInv => TypeOK
  BY DEF IInv
<1> QED
  BY <1>1, Invariance, PTL

\* A node reported Completed has really done every command, on any number of nodes
\* and after any number of crashes, pauses and lost writes.
THEOREM CompletionHonest == Spec => []HonestCompletion
<1>1. IInv => HonestCompletion
  BY DEF IInv, EntriesOK, StatusOK, EntryOK, HonestCompletion, Accomplished
<1> QED
  BY <1>1, Invariance, PTL

\* startTask takes the commands in order and never passes one that is not done.
THEOREM CommandsInOrder == Spec => []InOrderConditions
<1>1. IInv => InOrderConditions
  BY DEF IInv, EntriesOK, TasksOK, ProgressOK, InOrderConditions, Accomplished
<1> QED
  BY <1>1, Invariance, PTL

\* A task exists on an agent only while the Command carries the finalizer.
THEOREM FinalizerAlwaysHeld == Spec => []FinalizerHeld
<1>1. IInv => FinalizerHeld
  BY DEF IInv, FinalizerOK, FinalizerHeld
<1> QED
  BY <1>1, Invariance, PTL

-----------------------------------------------------------------------------
(***************************************************************************)
(* What the steps do, field by field, as far as the invariants below look  *)
(* at it.                                                                  *)
(***************************************************************************)
\* The memory of the agent n stays.
SameAgent(n) ==
    /\ cache'[n] = cache[n] /\ rec'[n] = rec[n] /\ job'[n] = job[n]
    /\ tasks'[n] = tasks[n] /\ (n \in queue' <=> n \in queue)

Aside(n) == \A m \in Nodes : m # n => SameAgent(m)

SameApi == obj' = obj /\ status' = status

SameMeta == obj'.life = obj.life /\ obj'.flags = obj.flags /\ obj'.gen = obj.gen

\* A status write of the agent n puts the phase p in its entry.
Wrote(n, p) ==
    /\ Exists => /\ SameMeta /\ status'[n].phase = p
                 /\ \A m \in Nodes : m # n => status'[m] = status[m]
    /\ ~Exists => SameApi

Vanishes == obj' = NoObject /\ \A n \in Nodes : status'[n].phase = "absent"

\* The reconcile of the agent n goes to pc with what it has read.
Moves(n, pc) ==
    /\ rec'[n].pc = pc /\ rec'[n].obj = rec[n].obj /\ rec'[n].task = rec[n].task
    /\ cache'[n] = cache[n]
    /\ Aside(n)

SameTasks(n) == job'[n] = job[n] /\ tasks'[n] = tasks[n]

SameQueue(n) == n \in queue' <=> n \in queue

ToggleStep ==
    /\ obj.life = "live" /\ obj.gen < MaxGeneration
    /\ obj'.life = "live" /\ obj'.gen = obj.gen + 1
    /\ obj'.flags \cap {"finalizer"} = obj.flags \cap {"finalizer"}
    /\ "suspend" \in obj'.flags <=> "suspend" \notin obj.flags
    /\ status' = status
    /\ \A n \in Nodes : SameAgent(n)

\* The manager or a timer asks for the deletion.
DeleteStep ==
    /\ \/ /\ Exists /\ "finalizer" \in obj.flags
          /\ obj'.life = "deleting" /\ obj'.flags = obj.flags /\ status' = status
          /\ obj.life = "deleting" => obj' = obj
       \/ (~Exists \/ "finalizer" \notin obj.flags) /\ Vanishes
    /\ \A n \in Nodes : SameAgent(n)

DeliverStep(n) ==
    /\ SameApi /\ cache[n].obj # obj
    /\ cache'[n].obj = obj /\ cache'[n].status = status
    /\ rec'[n] = rec[n] /\ SameTasks(n) /\ Aside(n)
    /\ n \in queue => n \in queue'
    /\ n \in queue' => n \in queue \/ Exists
    /\ Exists /\ ShouldReconcile(n, obj) => n \in queue'

FetchStep(n) ==
    /\ n \in queue /\ n \notin queue' /\ rec[n].pc = "idle"
    /\ SameApi /\ SameTasks(n) /\ Aside(n) /\ cache'[n] = cache[n]
    /\ rec'[n].obj = cache[n].obj
    /\ LET p == cache[n].status[n].phase
       IN  /\ rec'[n].st.phase = IF p = "absent" THEN "Running" ELSE p
           /\ rec'[n].pc = IF cache[n].obj.life = "gone" THEN "idle"
                           ELSE IF p = "absent" THEN "init" ELSE "finalizer"

InitStep(n) ==
    /\ rec[n].pc = "init" /\ Moves(n, "finalizer") /\ rec'[n].st = rec[n].st
    /\ Wrote(n, rec[n].st.phase) /\ SameTasks(n) /\ SameQueue(n)

EnsureStep(n) ==
    /\ rec[n].pc = "finalizer" /\ rec[n].obj.life = "live"
    /\ rec'[n].st = rec[n].st /\ SameTasks(n) /\ SameQueue(n) /\ status' = status
    /\ \/ /\ "finalizer" \in rec[n].obj.flags
          /\ obj' = obj /\ Moves(n, "decide")
       \/ /\ "finalizer" \notin rec[n].obj.flags /\ ~Exists
          /\ obj' = obj /\ Moves(n, "idle")
       \/ /\ "finalizer" \notin rec[n].obj.flags /\ Exists /\ Moves(n, "decide")
          /\ obj'.life = obj.life /\ obj'.gen = obj.gen
          /\ obj'.flags = obj.flags \cup {"finalizer"}

CleanupStep(n) ==
    /\ rec[n].pc = "finalizer" /\ rec[n].obj.life = "deleting"
    /\ rec'[n].st = rec[n].st /\ SameApi /\ SameQueue(n)
    /\ \/ "finalizer" \notin rec[n].obj.flags /\ Moves(n, "idle") /\ SameTasks(n)
       \/ Moves(n, "unfinalize") /\ job[n] = 0 /\ SameTasks(n)
       \/ /\ Moves(n, "unfinalize") /\ job[n] # 0 /\ job'[n] = 0
          /\ \A u \in TaskIds :
                 tasks'[n][u] = IF u = job[n] THEN SafeClose(tasks[n][u]) ELSE tasks[n][u]

RemoveStep(n) ==
    /\ rec[n].pc = "unfinalize" /\ Moves(n, "idle") /\ rec'[n].st = rec[n].st
    /\ SameTasks(n) /\ SameQueue(n)
    /\ IF obj.life = "deleting" THEN Vanishes ELSE SameApi

\* DecideNothing and DecideSuspend.
DecideStep(n) ==
    /\ rec[n].pc = "decide" /\ SameQueue(n) /\ SameApi
    /\ \/ /\ \/ rec[n].st.phase = "Completed"
             \/ Suspended(n) /\ rec[n].st.phase = "Suspend"
             \/ ~Suspended(n) /\ SkipOldTask(n)
          /\ Moves(n, "idle") /\ SameTasks(n) /\ rec'[n].st = rec[n].st
       \/ /\ Suspended(n) /\ Moves(n, "suspend") /\ job'[n] = job[n]
          /\ rec'[n].st.phase = "Suspend"
          /\ \A u \in TaskIds :
                 tasks'[n][u] = IF u = job[n] THEN SuspendTask(tasks[n][u])
                                ELSE tasks[n][u]

SyncSuspendStep(n) ==
    /\ rec[n].pc = "suspend" /\ Moves(n, "idle") /\ rec'[n].st = rec[n].st
    /\ SameTasks(n) /\ SameQueue(n) /\ Wrote(n, rec[n].st.phase)

CreateStep(n) ==
    /\ rec[n].pc = "decide" /\ ~Suspended(n)
    /\ rec[n].st.phase # "Completed" /\ ~SkipOldTask(n)
    /\ SameApi /\ SameQueue(n) /\ cache'[n] = cache[n] /\ Aside(n)
    /\ rec'[n].pc = "start" /\ rec'[n].obj = rec[n].obj /\ rec'[n].st = rec[n].st
    /\ job'[n] \in TaskIds /\ rec'[n].task = job'[n]
    /\ tasks[n][job'[n]].pc = "free"
    /\ tasks'[n][job'[n]].pc = "created" /\ tasks'[n][job'[n]].phase = "Running"
    /\ tasks'[n][job'[n]].gen = rec[n].obj.gen
    /\ tasks'[n][job'[n]].rv = rec[n].obj.rv
    /\ \A u \in TaskIds : u # job'[n] =>
           tasks'[n][u] = IF u = job[n] THEN SafeClose(tasks[n][u]) ELSE tasks[n][u]

StartStep(n) ==
    /\ rec[n].pc = "start" /\ Moves(n, "idle") /\ rec'[n].st = rec[n].st
    /\ Wrote(n, rec[n].st.phase) /\ SameQueue(n) /\ job'[n] = job[n]
    /\ \A u \in TaskIds :
           IF u = rec[n].task
           THEN /\ tasks'[n][u].pc = "loop" /\ tasks'[n][u].st = rec[n].st
                /\ tasks'[n][u].flags = tasks[n][u].flags
                /\ tasks'[n][u].phase = tasks[n][u].phase
                /\ tasks'[n][u].gen = tasks[n][u].gen
                /\ tasks'[n][u].rv = tasks[n][u].rv
           ELSE tasks'[n][u] = tasks[n][u]

FailStep(n) ==
    /\ rec[n].pc \in {"init", "finalizer", "unfinalize", "suspend", "start"}
    /\ rec[n].pc = "finalizer" => rec[n].obj.life = "live"
    /\ failures < MaxFailures
    /\ IF rec[n].pc \in {"init", "start"} THEN SameQueue(n) ELSE n \in queue'
    /\ Moves(n, "idle") /\ rec'[n].st = rec[n].st /\ SameApi /\ SameTasks(n)

\* A step of the goroutine of the task t before it settles.
WorkStep(n, t) ==
    LET k == tasks[n][t]
        l == tasks'[n][t]
    IN  /\ k.pc \in {"loop", "exec", "sync", "final"}
        /\ l.pc \in {"loop", "exec", "sync", "final", "settle", "done"}
        /\ k.pc = "final" => l.pc \in {"settle", "done"}
        /\ k.flags \subseteq l.flags /\ l.phase = k.phase
        /\ l.gen = k.gen /\ l.rv = k.rv
        /\ l.pc = "exec" => k.pc = "loop" /\ ~Closed(k)
        /\ k.pc # "final" => l.st.phase = k.st.phase /\ l.pc # "settle"
        /\ l.pc = "settle" => l.st.phase \notin {"absent", "Suspend"}
        /\ \/ SameApi
           \/ k.pc = "sync" /\ Wrote(n, k.st.phase)
           \/ k.pc = "final" /\ l.pc = "settle" /\ Wrote(n, l.st.phase)
        /\ cache'[n] = cache[n] /\ rec'[n] = rec[n] /\ job'[n] = job[n]
        /\ SameQueue(n) /\ Aside(n)
        /\ \A u \in TaskIds : u # t => tasks'[n][u] = tasks[n][u]

SettleStep(n, t) ==
    /\ tasks[n][t].pc = "settle"
    /\ SameApi /\ cache'[n] = cache[n] /\ rec'[n] = rec[n] /\ job'[n] = job[n]
    /\ SameQueue(n) /\ Aside(n)
    /\ \A u \in TaskIds :
           /\ tasks'[n][u].pc = IF u = t THEN "done" ELSE tasks[n][u].pc
           /\ tasks'[n][u].phase = IF u = job[n] THEN tasks[n][t].st.phase
                                   ELSE tasks[n][u].phase
           /\ tasks'[n][u].flags = IF u = job[n] THEN tasks[n][u].flags \cup {"closed"}
                                   ELSE tasks[n][u].flags
           /\ tasks'[n][u].gen = tasks[n][u].gen /\ tasks'[n][u].rv = tasks[n][u].rv
           /\ tasks'[n][u].st = tasks[n][u].st

TTLStep(n) ==
    /\ job[n] \in TaskIds /\ tasks[n][job[n]].phase = "Completed"
    /\ SameApi /\ cache'[n] = cache[n] /\ rec'[n] = rec[n] /\ SameQueue(n) /\ Aside(n)
    /\ \/ cache[n].obj.life = "gone" /\ job'[n] = 0 /\ tasks'[n] = tasks[n]
       \/ /\ job'[n] = job[n]
          /\ \A u \in TaskIds :
                 /\ tasks'[n][u].pc = tasks[n][u].pc /\ tasks'[n][u].phase = tasks[n][u].phase
                 /\ tasks[n][u].flags \subseteq tasks'[n][u].flags
                 /\ tasks'[n][u].gen = tasks[n][u].gen /\ tasks'[n][u].rv = tasks[n][u].rv
                 /\ tasks'[n][u].st = tasks[n][u].st

RestartStep(n) ==
    /\ SameApi /\ n \notin queue' /\ Aside(n)
    /\ cache'[n] = EmptyCache /\ rec'[n] = NoReconcile /\ job'[n] = 0
    /\ \A t \in TaskIds : tasks'[n][t] = NoTask

IdleStep == SameApi /\ \A n \in Nodes : SameAgent(n)

AgentStep(n) ==
    \/ DeliverStep(n) \/ FetchStep(n) \/ InitStep(n) \/ EnsureStep(n)
    \/ CleanupStep(n) \/ RemoveStep(n) \/ DecideStep(n) \/ SyncSuspendStep(n)
    \/ CreateStep(n) \/ StartStep(n) \/ FailStep(n)
    \/ \E t \in TaskIds : WorkStep(n, t) \/ SettleStep(n, t)
    \/ TTLStep(n) \/ RestartStep(n)

Step == ToggleStep \/ DeleteStep \/ IdleStep \/ \E n \in Nodes : AgentStep(n)

Types ==
    /\ obj \in Meta
    /\ status \in [Nodes -> StatusEntry]
    /\ cache \in [Nodes -> CacheEntry]
    /\ rec \in [Nodes -> Reconciler]
    /\ job \in [Nodes -> 0..MaxTasks]
    /\ tasks \in [Nodes -> [TaskIds -> Task]]

LEMMA TypesHold == TypeOK => Types
BY DEF TypeOK, Types

LEMMA SafeCloseIs ==
    ASSUME NEW k \in Task
    PROVE  /\ SafeClose(k).pc = k.pc /\ SafeClose(k).st = k.st
           /\ SafeClose(k).gen = k.gen /\ SafeClose(k).rv = k.rv
           /\ SafeClose(k).phase = k.phase
           /\ SafeClose(k).flags = k.flags \cup {"closed"}
BY DEF SafeClose, Task

LEMMA SuspendTaskIs ==
    ASSUME NEW k \in Task
    PROVE  /\ SuspendTask(k).pc = k.pc /\ SuspendTask(k).st = k.st
           /\ SuspendTask(k).gen = k.gen /\ SuspendTask(k).rv = k.rv
           /\ SuspendTask(k).phase = "Suspend"
           /\ SuspendTask(k).flags = k.flags \cup {"closed"}
BY DEF SuspendTask, SafeClose, Task

LEMMA WriteStatusIs ==
    ASSUME Types, NEW n \in Nodes, NEW st, WriteStatus(n, st)
    PROVE  Wrote(n, st.phase)
BY DEF Types, WriteStatus, Wrote, SameMeta, SameApi, apiVars, Meta

LEMMA VanishIs == Vanish => Vanishes
BY DEF Vanish, Vanishes, NoStatus

LEMMA GoToIs ==
    ASSUME Types, NEW n \in Nodes, NEW pc, GoTo(n, pc)
    PROVE  /\ rec'[n].pc = pc /\ rec'[n].obj = rec[n].obj /\ rec'[n].st = rec[n].st
           /\ rec'[n].task = rec[n].task
           /\ \A m \in Nodes : m # n => rec'[m] = rec[m]
BY DEF Types, GoTo, Reconciler

LEMMA UpdateIs ==
    ASSUME Types, NEW n \in Nodes, NEW t, NEW k, Update(n, t, k)
    PROVE  /\ \A m \in Nodes : m # n => tasks'[m] = tasks[m]
           /\ \A u \in TaskIds : tasks'[n][u] = IF u = t THEN k ELSE tasks[n][u]
BY DEF Types, Update

LEMMA ToggleIs == Types /\ ToggleSuspend => ToggleStep
<1> SUFFICES ASSUME Types, ToggleSuspend PROVE ToggleStep
  OBVIOUS
<1>1. /\ obj.life = "live" /\ obj.gen < MaxGeneration
      /\ obj'.life = "live" /\ obj'.gen = obj.gen + 1
      /\ obj'.flags \cap {"finalizer"} = obj.flags \cap {"finalizer"}
      /\ "suspend" \in obj'.flags <=> "suspend" \notin obj.flags
  BY DEF ToggleSuspend, Types, Meta
<1> QED BY <1>1 DEF ToggleSuspend, ToggleStep, SameAgent

LEMMA RequestDeleteIs ==
    Types /\ RequestDelete =>
       \/ /\ Exists /\ "finalizer" \in obj.flags
          /\ obj'.life = "deleting" /\ obj'.flags = obj.flags /\ status' = status
          /\ obj.life = "deleting" => obj' = obj
       \/ (~Exists \/ "finalizer" \notin obj.flags) /\ Vanishes
BY VanishIs DEF RequestDelete, Types, Meta

LEMMA DeletesAre ==
    Types /\ (ManagerDelete \/ \E n \in Nodes : TimerFires(n)) => DeleteStep
<1> SUFFICES ASSUME Types, ManagerDelete \/ \E n \in Nodes : TimerFires(n)
             PROVE DeleteStep
  OBVIOUS
<1>1. RequestDelete /\ \A n \in Nodes : SameAgent(n)
  BY DEF ManagerDelete, TimerFires, SameAgent
<1> QED BY <1>1, RequestDeleteIs DEF DeleteStep

LEMMA DeliverIs ==
    ASSUME Types, NEW n \in Nodes, Deliver(n)
    PROVE  DeliverStep(n)
BY DEF Types, Deliver, DeliverStep, SameApi, SameTasks, Aside, SameAgent, apiVars

LEMMA FetchIs ==
    ASSUME Types, NEW n \in Nodes, Fetch(n)
    PROVE  FetchStep(n)
BY DEF Types, Fetch, FetchStep, SameApi, SameTasks, Aside, SameAgent, apiVars,
       InitialStatus

LEMMA InitStatusIs ==
    ASSUME Types, NEW n \in Nodes, InitStatus(n)
    PROVE  InitStep(n)
BY WriteStatusIs, GoToIs
   DEF InitStatus, InitStep, Moves, Aside, SameAgent, SameTasks, SameQueue

LEMMA EnsureFinalizerIs ==
    ASSUME Types, NEW n \in Nodes, EnsureFinalizer(n)
    PROVE  EnsureStep(n)
<1>1. \A pc : GoTo(n, pc) => Moves(n, pc)
  BY GoToIs DEF EnsureFinalizer, Moves, Aside, SameAgent
<1>2. rec'[n].st = rec[n].st
  BY GoToIs DEF EnsureFinalizer
<1>3. CASE "finalizer" \in rec[n].obj.flags
  BY <1>1, <1>2, <1>3 DEF EnsureFinalizer, EnsureStep, SameTasks, SameQueue
<1>4. CASE "finalizer" \notin rec[n].obj.flags /\ ~Exists
  BY <1>1, <1>2, <1>4 DEF EnsureFinalizer, EnsureStep, SameTasks, SameQueue
<1>5. CASE "finalizer" \notin rec[n].obj.flags /\ Exists
  <2>1. /\ obj'.life = obj.life /\ obj'.gen = obj.gen
        /\ obj'.flags = obj.flags \cup {"finalizer"}
    BY <1>5 DEF EnsureFinalizer, Types, Meta
  <2> QED BY <1>1, <1>2, <1>5, <2>1
          DEF EnsureFinalizer, EnsureStep, SameTasks, SameQueue
<1> QED BY <1>3, <1>4, <1>5

LEMMA CleanupTaskIs ==
    ASSUME Types, NEW n \in Nodes, CleanupTask(n)
    PROVE  CleanupStep(n)
<1>1. SameApi /\ SameQueue(n) /\ rec'[n].st = rec[n].st
      /\ rec[n].pc = "finalizer" /\ rec[n].obj.life = "deleting"
  BY GoToIs DEF CleanupTask, SameApi, apiVars, SameQueue
<1>2. CASE "finalizer" \notin rec[n].obj.flags
  BY <1>1, <1>2, GoToIs
     DEF CleanupTask, CleanupStep, Moves, Aside, SameAgent, SameTasks
<1>3. CASE "finalizer" \in rec[n].obj.flags /\ job[n] = 0
  BY <1>1, <1>3, GoToIs
     DEF CleanupTask, CleanupStep, Moves, Aside, SameAgent, SameTasks
<1>4. CASE "finalizer" \in rec[n].obj.flags /\ job[n] # 0
  <2>1. Update(n, job[n], SafeClose(tasks[n][job[n]])) /\ job' = [job EXCEPT ![n] = 0]
        /\ GoTo(n, "unfinalize") /\ cache' = cache /\ queue' = queue
    BY <1>4 DEF CleanupTask
  <2>2. job'[n] = 0 /\ \A m \in Nodes : m # n => job'[m] = job[m]
    BY <2>1 DEF Types
  <2>3. Moves(n, "unfinalize")
    BY <2>1, <2>2, GoToIs, UpdateIs DEF Moves, Aside, SameAgent
  <2>4. \A u \in TaskIds :
           tasks'[n][u] = IF u = job[n] THEN SafeClose(tasks[n][u]) ELSE tasks[n][u]
    BY <2>1, UpdateIs
  <2> QED BY <1>1, <1>4, <2>2, <2>3, <2>4 DEF CleanupStep
<1> QED BY <1>2, <1>3, <1>4

LEMMA RemoveFinalizerIs ==
    ASSUME Types, NEW n \in Nodes, RemoveFinalizer(n)
    PROVE  RemoveStep(n)
BY VanishIs, GoToIs
   DEF RemoveFinalizer, RemoveStep, Moves, Aside, SameAgent, SameTasks, SameQueue,
       SameApi, apiVars

LEMMA DecideNothingIs ==
    ASSUME Types, NEW n \in Nodes, DecideNothing(n)
    PROVE  DecideStep(n)
BY GoToIs
   DEF DecideNothing, DecideStep, Moves, Aside, SameAgent, SameTasks, SameQueue,
       SameApi, apiVars

LEMMA DecideSuspendIs ==
    ASSUME Types, NEW n \in Nodes, DecideSuspend(n)
    PROVE  DecideStep(n)
<1> DEFINE e == SuspendEntry(rec[n].st)
<1>1. e.phase = "Suspend"
  <2>1. ConditionCount(rec[n].st) \in StatusEntry
    BY ConditionCountType DEF Types, Reconciler
  <2> QED BY <2>1 DEF SuspendEntry, StatusEntry
<1>2. rec' = [rec EXCEPT ![n] = [rec[n] EXCEPT !.pc = "suspend", !.st = e]]
  BY DEF DecideSuspend
<1> HIDE DEF e
<1>3. /\ rec'[n].pc = "suspend" /\ rec'[n].obj = rec[n].obj /\ rec'[n].st = e
      /\ rec'[n].task = rec[n].task
      /\ \A m \in Nodes : m # n => rec'[m] = rec[m]
  BY <1>2 DEF Types, Reconciler
<1>4. /\ \A m \in Nodes : m # n => tasks'[m] = tasks[m]
      /\ \A u \in TaskIds :
                 tasks'[n][u] = IF u = job[n] THEN SuspendTask(tasks[n][u])
                                ELSE tasks[n][u]
  <2>1. CASE job[n] = 0
    <3>1. \A u \in TaskIds : u # job[n]
      BY <2>1 DEF TaskIds
    <3> QED BY <2>1, <3>1 DEF DecideSuspend
  <2>2. CASE job[n] # 0
    BY <2>2, UpdateIs DEF DecideSuspend
  <2> QED BY <2>1, <2>2
<1> QED BY <1>1, <1>3, <1>4
        DEF DecideSuspend, DecideStep, Moves, Aside, SameAgent, SameQueue, SameApi, apiVars

LEMMA SyncSuspendIs ==
    ASSUME Types, NEW n \in Nodes, SyncSuspend(n)
    PROVE  SyncSuspendStep(n)
BY WriteStatusIs, GoToIs
   DEF SyncSuspend, SyncSuspendStep, Moves, Aside, SameAgent, SameTasks, SameQueue

LEMMA CreateTaskIs ==
    ASSUME Types, NEW n \in Nodes, CreateTask(n)
    PROVE  CreateStep(n)
<1>1. PICK t \in TaskIds :
         /\ tasks[n][t].pc = "free"
         /\ tasks' = [tasks EXCEPT ![n] =
                       [u \in TaskIds |->
                          IF u = t THEN [NoTask EXCEPT !.pc = "created",
                                           !.gen = rec[n].obj.gen, !.rv = rec[n].obj.rv]
                          ELSE IF u = job[n] THEN SafeClose(tasks[n][u])
                          ELSE tasks[n][u]]]
         /\ job' = [job EXCEPT ![n] = t]
         /\ rec' = [rec EXCEPT ![n] = [@ EXCEPT !.pc = "start", !.task = t]]
  BY Zenon DEF CreateTask
<1>2. job'[n] = t /\ \A m \in Nodes : m # n => job'[m] = job[m]
  BY <1>1 DEF Types
<1>3. /\ rec'[n].pc = "start" /\ rec'[n].obj = rec[n].obj /\ rec'[n].st = rec[n].st
      /\ rec'[n].task = t
      /\ \A m \in Nodes : m # n => rec'[m] = rec[m]
  BY <1>1 DEF Types, Reconciler
<1>4. /\ \A m \in Nodes : m # n => tasks'[m] = tasks[m]
      /\ \A u \in TaskIds :
           tasks'[n][u] = IF u = t THEN [NoTask EXCEPT !.pc = "created",
                                           !.gen = rec[n].obj.gen, !.rv = rec[n].obj.rv]
                          ELSE IF u = job[n] THEN SafeClose(tasks[n][u])
                          ELSE tasks[n][u]
  BY <1>1 DEF Types
<1>5. /\ rec[n].pc = "decide" /\ ~Suspended(n)
      /\ rec[n].st.phase # "Completed" /\ ~SkipOldTask(n)
      /\ SameApi /\ queue' = queue /\ cache' = cache
  BY DEF CreateTask, SameApi, apiVars
<1>6. Aside(n)
  BY <1>2, <1>3, <1>4, <1>5 DEF Aside, SameAgent
<1> DEFINE k == [NoTask EXCEPT !.pc = "created", !.gen = rec[n].obj.gen,
                                !.rv = rec[n].obj.rv]
<1>7. tasks'[n][t] = k
  BY <1>4
<1>8. k.pc = "created" /\ k.gen = rec[n].obj.gen /\ k.phase = "Running"
      /\ k.rv = rec[n].obj.rv
  BY DEF NoTask
<1> HIDE DEF k
<1>9. /\ tasks'[n][job'[n]].pc = "created" /\ tasks'[n][job'[n]].phase = "Running"
      /\ tasks'[n][job'[n]].gen = rec[n].obj.gen
      /\ tasks'[n][job'[n]].rv = rec[n].obj.rv
  BY <1>2, <1>7, <1>8
<1>10. \A u \in TaskIds : u # job'[n] =>
           tasks'[n][u] = IF u = job[n] THEN SafeClose(tasks[n][u]) ELSE tasks[n][u]
  BY <1>2, <1>4
<1> QED BY <1>1, <1>2, <1>3, <1>5, <1>6, <1>9, <1>10 DEF CreateStep, SameQueue

LEMMA StartTaskIs ==
    ASSUME Types, NEW n \in Nodes, StartTask(n)
    PROVE  StartStep(n)
<1> DEFINE t == rec[n].task
           k == [tasks[n][t] EXCEPT !.pc = "loop", !.idx = 1, !.st = rec[n].st]
<1>1. Update(n, t, k) /\ WriteStatus(n, rec[n].st) /\ GoTo(n, "idle")
      /\ rec[n].pc = "start" /\ cache' = cache /\ queue' = queue /\ job' = job
  BY DEF StartTask
<1>2. ASSUME t \in TaskIds
      PROVE /\ k.pc = "loop" /\ k.st = rec[n].st /\ k.flags = tasks[n][t].flags
            /\ k.phase = tasks[n][t].phase /\ k.gen = tasks[n][t].gen
            /\ k.rv = tasks[n][t].rv
  <2>1. tasks[n][t] \in Task
    BY <1>2 DEF Types
  <2> QED BY <2>1 DEF Task
<1> HIDE DEF k
<1>3. /\ \A m \in Nodes : m # n => tasks'[m] = tasks[m]
      /\ \A u \in TaskIds : tasks'[n][u] = IF u = t THEN k ELSE tasks[n][u]
  BY <1>1, UpdateIs
<1>4. Moves(n, "idle") /\ rec'[n].st = rec[n].st
  BY <1>1, <1>3, GoToIs DEF Moves, Aside, SameAgent
<1> QED BY <1>1, <1>2, <1>3, <1>4, WriteStatusIs DEF StartStep, SameQueue

LEMMA ReconcileFailsIs ==
    ASSUME Types, NEW n \in Nodes, ReconcileFails(n)
    PROVE  FailStep(n)
BY GoToIs
   DEF ReconcileFails, FailStep, Moves, Aside, SameAgent, SameTasks, SameQueue,
       SameApi, apiVars

\* The goroutine replaces its own task record only.
LEMMA WorkIs ==
    ASSUME Types, NEW n \in Nodes, NEW t \in TaskIds, NEW l,
           Update(n, t, l), cache' = cache, rec' = rec, job' = job,
           queue' = queue,
           tasks[n][t].pc \in {"loop", "exec", "sync", "final"},
           l.pc \in {"loop", "exec", "sync", "final", "settle", "done"},
           tasks[n][t].pc = "final" => l.pc \in {"settle", "done"},
           tasks[n][t].flags \subseteq l.flags,
           l.phase = tasks[n][t].phase, l.gen = tasks[n][t].gen, l.rv = tasks[n][t].rv,
           l.pc = "exec" => tasks[n][t].pc = "loop" /\ ~Closed(tasks[n][t]),
           tasks[n][t].pc # "final" =>
               l.st.phase = tasks[n][t].st.phase /\ l.pc # "settle",
           l.pc = "settle" => l.st.phase \notin {"absent", "Suspend"},
           \/ SameApi
           \/ tasks[n][t].pc = "sync" /\ Wrote(n, tasks[n][t].st.phase)
           \/ tasks[n][t].pc = "final" /\ l.pc = "settle" /\ Wrote(n, l.st.phase)
    PROVE  WorkStep(n, t)
<1>1. tasks'[n][t] = l
  BY UpdateIs
<1>2. \A u \in TaskIds : u # t => tasks'[n][u] = tasks[n][u]
  BY UpdateIs
<1>3. Aside(n)
  BY UpdateIs DEF Aside, SameAgent
<1> QED BY <1>1, <1>2, <1>3 DEF WorkStep, SameQueue

LEMMA FreeTaskWorks ==
    ASSUME Types, NEW n \in Nodes, NEW t \in TaskIds,
           TaskStopped(n, t) \/ TaskLoopEnds(n, t) \/ TaskFails(n, t)
    PROVE  WorkStep(n, t)
<1> DEFINE k == tasks[n][t]
<1>k. k \in Task
  BY DEF Types
<1>s. SameApi /\ cache' = cache /\ rec' = rec /\ job' = job
      /\ queue' = queue
  BY DEF TaskStopped, TaskLoopEnds, TaskFails, SameApi, apiVars
<1>1. PICK pc \in {"done", "final"}, f \in {k.flags, k.flags \cup {"expired"}} :
         /\ k.pc \in {"loop", "sync", "final"} /\ (k.pc = "final" => pc = "done")
         /\ Update(n, t, [k EXCEPT !.pc = pc, !.flags = f])
  <2>1. CASE TaskStopped(n, t)
    <3>1. [k EXCEPT !.pc = "done"] = [k EXCEPT !.pc = "done", !.flags = k.flags]
      BY <1>k DEF Task
    <3> QED BY <2>1, <3>1 DEF TaskStopped, Looping
  <2>2. CASE TaskFails(n, t)
    <3>1. [k EXCEPT !.pc = "done"] = [k EXCEPT !.pc = "done", !.flags = k.flags]
      BY <1>k DEF Task
    <3> QED BY <2>2, <3>1 DEF TaskFails
  <2>3. CASE TaskLoopEnds(n, t)
    <3>1. [k EXCEPT !.pc = "final"] = [k EXCEPT !.pc = "final", !.flags = k.flags]
      BY <1>k DEF Task
    <3> QED BY <2>3, <3>1 DEF TaskLoopEnds
  <2> QED BY <2>1, <2>2, <2>3
<1> DEFINE l == [k EXCEPT !.pc = pc, !.flags = f]
<1>2. /\ l.pc = pc /\ l.flags = f /\ l.phase = k.phase
      /\ l.gen = k.gen /\ l.rv = k.rv /\ l.st = k.st
  BY <1>k DEF Task
<1>3. Update(n, t, l)
  BY <1>1
<1> HIDE DEF l
<1> QED BY <1>s, <1>1, <1>2, <1>3, WorkIs

LEMMA TaskAdvances ==
    ASSUME Types, NEW n \in Nodes, NEW t \in TaskIds,
           TaskSkipsCompleted(n, t) \/ TaskBegins(n, t)
    PROVE  WorkStep(n, t)
<1> DEFINE k == tasks[n][t]
<1>k. k \in Task
  BY DEF Types
<1>s. SameApi /\ cache' = cache /\ rec' = rec /\ job' = job
      /\ queue' = queue
  BY DEF TaskSkipsCompleted, TaskBegins, SameApi, apiVars
<1>1. k.pc = "loop" /\ ~Closed(k)
  BY DEF TaskSkipsCompleted, TaskBegins, AtCommand, Looping
<1>2. CASE TaskSkipsCompleted(n, t)
  <2> DEFINE l == [k EXCEPT !.idx = @ + 1]
  <2>1. /\ l.pc = k.pc /\ l.flags = k.flags /\ l.phase = k.phase
        /\ l.gen = k.gen /\ l.rv = k.rv
        /\ l.st = k.st
    BY <1>k DEF Task
  <2>2. Update(n, t, l)
    BY <1>2 DEF TaskSkipsCompleted
  <2> HIDE DEF l
  <2> QED BY <1>s, <1>1, <2>1, <2>2, WorkIs
<1>3. CASE TaskBegins(n, t)
  <2> DEFINE st == WithCondition(k.st, k.idx, NewCondition)
             l == [k EXCEPT !.pc = "exec", !.st = st]
  <2>1. Update(n, t, l)
    BY <1>3 DEF TaskBegins
  <2>2. st.phase = k.st.phase
    BY <1>k, WithConditionType, ConditionTypes DEF Task
  <2> HIDE DEF st
  <2>3. /\ l.pc = "exec" /\ l.flags = k.flags /\ l.phase = k.phase
        /\ l.gen = k.gen /\ l.rv = k.rv
        /\ l.st = st
    BY <1>k DEF Task
  <2> HIDE DEF l
  <2> QED BY <1>s, <1>1, <2>1, <2>2, <2>3, WorkIs
<1> QED BY <1>2, <1>3

LEMMA TaskExecutesIs ==
    ASSUME Types, NEW n \in Nodes, NEW t \in TaskIds, TaskExecutes(n, t)
    PROVE  WorkStep(n, t)
<1> DEFINE k == tasks[n][t]
<1>k. k \in Task
  BY DEF Types
<1>s. SameApi /\ cache' = cache /\ rec' = rec /\ job' = job
      /\ queue' = queue
  BY DEF TaskExecutes, SameApi, apiVars
<1>1. PICK o \in Outcomes :
         Update(n, t, [k EXCEPT
                  !.pc = "sync",
                  !.flags = IF o \in {"late", "lateFailure"} THEN @ \cup {"expired"} ELSE @,
                  !.st = WithCondition(@, k.idx, ConditionAfter(k.idx, o))])
  BY DEF TaskExecutes
<1> DEFINE st == WithCondition(k.st, k.idx, ConditionAfter(k.idx, o))
           f == IF o \in {"late", "lateFailure"} THEN k.flags \cup {"expired"} ELSE k.flags
           l == [k EXCEPT !.pc = "sync", !.flags = f, !.st = st]
<1>2. Update(n, t, l)
  BY <1>1
<1>3. st.phase = k.st.phase
  <2>1. k.st \in StatusEntry /\ k.idx \in Nat
    BY <1>k DEF Task
  <2>2. ConditionAfter(k.idx, o) \in Condition
    BY ConditionTypes
  <2> QED BY <2>1, <2>2, WithConditionType
<1>4. k.flags \subseteq f
  OBVIOUS
<1> HIDE DEF st, f
<1>5. /\ l.pc = "sync" /\ l.flags = f /\ l.phase = k.phase
      /\ l.gen = k.gen /\ l.rv = k.rv
      /\ l.st = st
  BY <1>k DEF Task
<1>6. k.pc = "exec"
  BY DEF TaskExecutes
<1> HIDE DEF l
<1> QED BY <1>s, <1>2, <1>3, <1>4, <1>5, <1>6, WorkIs

LEMMA ConditionCountPhase ==
    ASSUME NEW st \in StatusEntry
    PROVE  ConditionCount(st).phase \notin {"absent", "Suspend"}
<1>1. CASE Len(st.conds) = 0
  BY <1>1 DEF ConditionCount, StatusEntry
<1>2. CASE Len(st.conds) # 0
  <2>1. DeterminePhase(st.conds[Len(st.conds)], Len(st.conds)) \notin {"absent", "Suspend"}
    BY DEF DeterminePhase
  <2> QED BY <1>2, <2>1 DEF ConditionCount, StatusEntry
<1> QED BY <1>1, <1>2

LEMMA TaskWrites ==
    ASSUME Types, NEW n \in Nodes, NEW t \in TaskIds,
           TaskSyncs(n, t) \/ TaskFinalizes(n, t)
    PROVE  WorkStep(n, t)
<1> DEFINE k == tasks[n][t]
<1>k. k \in Task
  BY DEF Types
<1>s. cache' = cache /\ rec' = rec /\ job' = job
      /\ queue' = queue
  BY DEF TaskSyncs, TaskFinalizes
<1>1. CASE TaskSyncs(n, t)
  <2>1. k.pc = "sync" /\ Wrote(n, k.st.phase)
    BY <1>1, WriteStatusIs DEF TaskSyncs
  <2>2. CASE ShouldBreak(k)
    <3> DEFINE l == [k EXCEPT !.pc = "final"]
    <3>1. Update(n, t, l)
      BY <1>1, <2>2 DEF TaskSyncs
    <3>2. /\ l.pc = "final" /\ l.flags = k.flags /\ l.phase = k.phase
          /\ l.gen = k.gen /\ l.rv = k.rv
          /\ l.st = k.st
      BY <1>k DEF Task
    <3> HIDE DEF l
    <3> QED BY <1>s, <2>1, <3>1, <3>2, WorkIs
  <2>3. CASE ~ShouldBreak(k)
    <3> DEFINE l == [k EXCEPT !.pc = "loop", !.idx = @ + 1]
    <3>1. Update(n, t, l)
      BY <1>1, <2>3 DEF TaskSyncs
    <3>2. /\ l.pc = "loop" /\ l.flags = k.flags /\ l.phase = k.phase
          /\ l.gen = k.gen /\ l.rv = k.rv
          /\ l.st = k.st
      BY <1>k DEF Task
    <3> HIDE DEF l
    <3> QED BY <1>s, <2>1, <3>1, <3>2, WorkIs
  <2> QED BY <2>2, <2>3
<1>2. CASE TaskFinalizes(n, t)
  <2> DEFINE st == ConditionCount(k.st)
             l == [k EXCEPT !.pc = "settle", !.st = st]
  <2>1. k.pc = "final" /\ WriteStatus(n, st) /\ Update(n, t, l)
    BY <1>2 DEF TaskFinalizes
  <2>4. st.phase \notin {"absent", "Suspend"}
    <3>1. k.st \in StatusEntry
      BY <1>k DEF Task
    <3> QED BY <3>1, ConditionCountPhase
  <2> HIDE DEF st
  <2>2. Wrote(n, st.phase)
    BY <2>1, WriteStatusIs
  <2>3. /\ l.pc = "settle" /\ l.flags = k.flags /\ l.phase = k.phase
        /\ l.gen = k.gen /\ l.rv = k.rv
        /\ l.st = st
    BY <1>k DEF Task
  <2> HIDE DEF l
  <2> QED BY <1>s, <2>1, <2>2, <2>3, <2>4, WorkIs
<1> QED BY <1>1, <1>2

LEMMA TaskSettlesIs ==
    ASSUME Types, NEW n \in Nodes, NEW t \in TaskIds, TaskSettles(n, t)
    PROVE  SettleStep(n, t)
<1>1. \A m \in Nodes : m # n => tasks'[m] = tasks[m]
  BY DEF TaskSettles, Types
<1>2. ASSUME NEW u \in TaskIds
      PROVE  /\ tasks'[n][u].pc = IF u = t THEN "done" ELSE tasks[n][u].pc
             /\ tasks'[n][u].phase = IF u = job[n] THEN tasks[n][t].st.phase
                                     ELSE tasks[n][u].phase
             /\ tasks'[n][u].flags = IF u = job[n] THEN tasks[n][u].flags \cup {"closed"}
                                     ELSE tasks[n][u].flags
             /\ tasks'[n][u].gen = tasks[n][u].gen /\ tasks'[n][u].rv = tasks[n][u].rv
             /\ tasks'[n][u].st = tasks[n][u].st
  <2> DEFINE k == tasks[n][u]
             pc == IF u = t THEN "done" ELSE k.pc
             p == IF u = job[n] THEN tasks[n][t].st.phase ELSE k.phase
             f == IF u = job[n] THEN k.flags \cup {"closed"} ELSE k.flags
  <2>1. tasks'[n][u] = [k EXCEPT !.pc = pc, !.phase = p, !.flags = f]
    BY DEF TaskSettles, Types
  <2>2. k \in Task
    BY DEF Types
  <2> HIDE DEF pc, p, f
  <2>3. /\ tasks'[n][u].pc = pc /\ tasks'[n][u].phase = p /\ tasks'[n][u].flags = f
        /\ tasks'[n][u].gen = k.gen /\ tasks'[n][u].rv = k.rv /\ tasks'[n][u].st = k.st
    BY <2>1, <2>2 DEF Task
  <2> QED BY <2>3 DEF pc, p, f
<1>3. /\ tasks[n][t].pc = "settle"
      /\ SameApi /\ cache' = cache /\ rec' = rec /\ job' = job /\ queue' = queue
  BY DEF TaskSettles, SameApi, apiVars
<1> QED BY <1>1, <1>2, <1>3 DEF SettleStep, SameQueue, Aside, SameAgent

LEMMA ProcessTTLIs ==
    ASSUME Types, NEW n \in Nodes, ProcessTTL(n)
    PROVE  TTLStep(n)
<1>1. job[n] \in TaskIds
  BY DEF ProcessTTL, Types, TaskIds
<1>2. /\ tasks[n][job[n]].phase = "Completed" /\ SameApi /\ cache' = cache
      /\ rec' = rec /\ queue' = queue
  BY DEF ProcessTTL, SameApi, apiVars
<1>3. CASE cache[n].obj.life = "gone"
  <2>1. job' = [job EXCEPT ![n] = 0] /\ tasks' = tasks
    BY <1>3 DEF ProcessTTL
  <2>2. job'[n] = 0 /\ \A m \in Nodes : m # n => job'[m] = job[m]
    BY <2>1 DEF Types
  <2>3. Aside(n)
    BY <1>2, <2>1, <2>2 DEF Aside, SameAgent
  <2> QED BY <1>1, <1>2, <1>3, <2>1, <2>2, <2>3 DEF TTLStep, SameQueue
<1>4. CASE cache[n].obj.life # "gone"
  <2> DEFINE k == tasks[n][job[n]]
             l == [k EXCEPT !.flags = @ \cup {"timed"}]
  <2>1. Update(n, job[n], l) /\ job' = job
    BY <1>4 DEF ProcessTTL
  <2>2. k \in Task
    BY <1>1 DEF Types
  <2>3. /\ l.pc = k.pc /\ l.phase = k.phase /\ k.flags \subseteq l.flags
        /\ l.gen = k.gen /\ l.rv = k.rv /\ l.st = k.st
    BY <2>2 DEF Task
  <2> HIDE DEF l
  <2>4. /\ \A m \in Nodes : m # n => tasks'[m] = tasks[m]
        /\ \A u \in TaskIds : tasks'[n][u] = IF u = job[n] THEN l ELSE tasks[n][u]
    BY <2>1, UpdateIs
  <2>5. Aside(n)
    BY <1>2, <2>1, <2>4 DEF Aside, SameAgent
  <2> QED BY <1>1, <1>2, <2>1, <2>3, <2>4, <2>5 DEF TTLStep, SameQueue
<1> QED BY <1>3, <1>4

LEMMA RestartIs ==
    ASSUME Types, NEW n \in Nodes, Restart(n)
    PROVE  RestartStep(n)
BY DEF Types, Restart, RestartStep, SameApi, apiVars, Aside, SameAgent

\* Every step of the protocol is one of these.
LEMMA StepsAre == TypeOK /\ [Next]_vars => Step
<1> SUFFICES ASSUME TypeOK, [Next]_vars PROVE Step
  OBVIOUS
<1>t. Types
  BY TypesHold
<1>1. CASE UNCHANGED vars
  BY <1>1 DEF vars, Step, IdleStep, SameApi, SameAgent
<1>2. ASSUME NEW n \in Nodes,
             Deliver(n) \/ Reconcile(n) \/ ReconcileFails(n) \/ ProcessTTL(n) \/ Restart(n)
      PROVE  AgentStep(n)
  BY <1>t, <1>2, DeliverIs, FetchIs, InitStatusIs, EnsureFinalizerIs, CleanupTaskIs,
     RemoveFinalizerIs, DecideNothingIs, DecideSuspendIs, SyncSuspendIs, CreateTaskIs,
     StartTaskIs, ReconcileFailsIs, ProcessTTLIs, RestartIs
     DEF Reconcile, AgentStep
<1>3. ASSUME NEW n \in Nodes, NEW t \in TaskIds, Goroutine(n, t) \/ TaskFails(n, t)
      PROVE  WorkStep(n, t) \/ SettleStep(n, t)
  BY <1>t, <1>3, FreeTaskWorks, TaskAdvances, TaskExecutesIs, TaskWrites, TaskSettlesIs
     DEF Goroutine
<1>4. ASSUME NEW n \in Nodes, NEW t \in TaskIds, WorkStep(n, t) \/ SettleStep(n, t)
      PROVE  AgentStep(n)
  BY <1>4 DEF AgentStep
<1>5. CASE ToggleSuspend \/ ManagerDelete \/ \E n \in Nodes : TimerFires(n)
  BY <1>t, <1>5, ToggleIs, DeletesAre DEF Step
<1>6. (\E n \in Nodes : AgentStep(n)) => Step
  BY DEF Step
<1> QED BY <1>1, <1>2, <1>3, <1>4, <1>5, <1>6 DEF Next

-----------------------------------------------------------------------------
(***************************************************************************)
(* The order in which an agent learns of things, for any constants: the    *)
(* deletion is known to the API server before the cache, and to the cache  *)
(* before the reconcile; a reconcile that creates tasks has read a live    *)
(* Command; an agent whose cache is empty has only just started, unless    *)
(* the Command is gone.                                                    *)
(***************************************************************************)
OrderAt(n) ==
    /\ cache[n].obj.life = "deleting" => obj.life # "live"
    /\ rec[n].pc # "idle" => rec[n].obj.life # "gone"
    /\ rec[n].pc # "idle" /\ rec[n].obj.life = "deleting" =>
         obj.life # "live" /\ cache[n].obj.life # "live"
    /\ rec[n].pc \in {"decide", "suspend", "start"} => rec[n].obj.life = "live"
    /\ rec[n].pc = "unfinalize" => rec[n].obj.life = "deleting" /\ job[n] = 0
    /\ rec[n].pc = "start" =>
         /\ rec[n].task \in TaskIds
         /\ tasks[n][rec[n].task].pc = "created"
         /\ rec[n].st.phase # "Completed"
    /\ cache[n].obj.life = "gone" =>
         \/ obj.life = "gone"
         \/ /\ rec[n].pc = "idle" /\ job[n] = 0
            /\ \A t \in TaskIds : tasks[n][t].pc = "free"

OrderOK == \A n \in Nodes : OrderAt(n)

(***************************************************************************)
(* A goroutine that may still start a command belongs to the task of the   *)
(* table, or has been told to stop; a task that is marked completed has    *)
(* been told so too.                                                       *)
(***************************************************************************)
StopAt(n) ==
    /\ job[n] \in TaskIds => tasks[n][job[n]].pc # "free"
    /\ \A t \in TaskIds :
           /\ tasks[n][t].pc \in {"created", "loop", "exec", "sync"} =>
                  t = job[n] \/ Closed(tasks[n][t])
           /\ tasks[n][t].phase = "Completed" => Closed(tasks[n][t])

StopOK == \A n \in Nodes : StopAt(n)

LEMMA LifeMoves ==
    ASSUME Types, Step
    PROVE  /\ obj'.life = "live" => obj.life = "live"
           /\ obj.life = "gone" => obj'.life = "gone"
<1>1. \A n \in Nodes : \A p : Wrote(n, p) => obj'.life = obj.life
  BY DEF Wrote, SameMeta, SameApi
<1>2. ASSUME NEW n \in Nodes, AgentStep(n)
      PROVE  \/ obj'.life = obj.life
             \/ obj.life = "deleting" /\ obj'.life = "gone"
  <2>1. CASE \/ DeliverStep(n) \/ FetchStep(n) \/ CleanupStep(n) \/ DecideStep(n)
             \/ CreateStep(n) \/ FailStep(n) \/ TTLStep(n) \/ RestartStep(n)
             \/ \E t \in TaskIds : SettleStep(n, t)
    BY <2>1 DEF DeliverStep, FetchStep, CleanupStep, DecideStep, CreateStep, FailStep,
       SettleStep, TTLStep, RestartStep, SameApi
  <2>2. CASE \/ InitStep(n) \/ SyncSuspendStep(n) \/ StartStep(n)
             \/ \E t \in TaskIds : WorkStep(n, t)
    BY <1>1, <2>2 DEF InitStep, SyncSuspendStep, StartStep, WorkStep, SameApi
  <2>3. CASE EnsureStep(n) \/ RemoveStep(n)
    BY <2>3 DEF EnsureStep, RemoveStep, SameApi, Vanishes, NoObject
  <2> QED BY <1>2, <2>1, <2>2, <2>3 DEF AgentStep
<1>3. ToggleStep => obj'.life = "live" /\ obj.life = "live"
  BY DEF ToggleStep
<1>4. DeleteStep => \/ obj'.life = "deleting" /\ obj.life # "gone"
                    \/ obj'.life = "gone"
  BY DEF DeleteStep, Vanishes, NoObject, Exists
<1>5. IdleStep => obj'.life = obj.life
  BY DEF IdleStep, SameApi
<1> QED BY <1>2, <1>3, <1>4, <1>5 DEF Step

\* What an agent knows is not touched by what others do.
LEMMA OthersAside ==
    ASSUME NEW n \in Nodes, AgentStep(n), NEW m \in Nodes, m # n
    PROVE  SameAgent(m)
<1>1. CASE \/ DeliverStep(n) \/ FetchStep(n) \/ InitStep(n) \/ EnsureStep(n)
           \/ CleanupStep(n) \/ RemoveStep(n) \/ DecideStep(n) \/ SyncSuspendStep(n)
  BY <1>1 DEF DeliverStep, FetchStep, InitStep, EnsureStep, CleanupStep,
     RemoveStep, DecideStep, SyncSuspendStep, Moves, Aside
<1>2. CASE \/ CreateStep(n) \/ StartStep(n) \/ FailStep(n)
           \/ (\E t \in TaskIds : WorkStep(n, t) \/ SettleStep(n, t))
           \/ TTLStep(n) \/ RestartStep(n)
  BY <1>2 DEF CreateStep, StartStep, FailStep, WorkStep, SettleStep, TTLStep,
     RestartStep, Moves, Aside
<1> QED BY <1>1, <1>2 DEF AgentStep

LEMMA OrderAside ==
    ASSUME Types, Step, NEW m \in Nodes, OrderAt(m), SameAgent(m)
    PROVE  OrderAt(m)'
BY LifeMoves DEF OrderAt, SameAgent

LEMMA StopAside ==
    ASSUME NEW m \in Nodes, StopAt(m), SameAgent(m)
    PROVE  StopAt(m)'
BY DEF StopAt, SameAgent, Closed

LEMMA NoTaskIs == NoTask.pc = "free" /\ NoTask.phase = "Running" /\ NoTask.flags = {}
BY DEF NoTask

LEMMA RestartedIs ==
    /\ NoReconcile.pc = "idle" /\ NoReconcile.obj.life = "gone"
    /\ EmptyCache.obj.life = "gone"
BY DEF NoReconcile, EmptyCache, NoObject

LEMMA OrderStep == Types /\ OrderOK /\ Step => OrderOK'
<1> SUFFICES ASSUME Types, OrderOK, Step, NEW m \in Nodes PROVE OrderAt(m)'
  BY DEF OrderOK
<1>m. OrderAt(m)
  BY DEF OrderOK
<1>l. /\ obj'.life = "live" => obj.life = "live"
      /\ obj.life = "gone" => obj'.life = "gone"
  BY LifeMoves
<1>t. \A u \in TaskIds : tasks[m][u] \in Task
  BY DEF Types
<1>0. CASE SameAgent(m)
  BY <1>m, <1>0, OrderAside
<1>1. CASE DeliverStep(m)
  BY <1>m, <1>l, <1>1 DEF OrderAt, DeliverStep, SameApi, SameTasks
<1>2. CASE FetchStep(m)
  BY <1>m, <1>l, <1>2 DEF OrderAt, FetchStep, SameApi, SameTasks
<1>3. CASE InitStep(m)
  BY <1>m, <1>l, <1>3 DEF OrderAt, InitStep, Moves, SameTasks
<1>4. CASE EnsureStep(m)
  BY <1>m, <1>l, <1>4 DEF OrderAt, EnsureStep, Moves, SameTasks
<1>5. CASE CleanupStep(m)
  <2>1. \A u \in TaskIds : SafeClose(tasks[m][u]).pc = tasks[m][u].pc
    BY <1>t, SafeCloseIs
  <2>2. \A u \in TaskIds : tasks'[m][u].pc = tasks[m][u].pc
    BY <1>5, <2>1 DEF CleanupStep, SameTasks
  <2> QED BY <1>m, <1>l, <1>5, <2>2 DEF OrderAt, CleanupStep, Moves, SameTasks
<1>6. CASE RemoveStep(m)
  BY <1>m, <1>l, <1>6 DEF OrderAt, RemoveStep, Moves, SameTasks
<1>7. CASE DecideStep(m)
  <2>1. \A u \in TaskIds : SuspendTask(tasks[m][u]).pc = tasks[m][u].pc
    BY <1>t, SuspendTaskIs
  <2>2. \A u \in TaskIds : tasks'[m][u].pc = tasks[m][u].pc
    BY <1>7, <2>1 DEF DecideStep, SameTasks
  <2> QED BY <1>m, <1>l, <1>7, <2>2 DEF OrderAt, DecideStep, Moves, SameTasks
<1>8. CASE SyncSuspendStep(m)
  BY <1>m, <1>l, <1>8 DEF OrderAt, SyncSuspendStep, Moves, SameTasks
<1>9. CASE CreateStep(m)
  BY <1>m, <1>l, <1>9 DEF OrderAt, CreateStep
<1>10. CASE StartStep(m)
  BY <1>m, <1>l, <1>10 DEF OrderAt, StartStep, Moves
<1>11. CASE FailStep(m)
  BY <1>m, <1>l, <1>11 DEF OrderAt, FailStep, Moves, SameTasks
<1>12. ASSUME NEW t \in TaskIds, WorkStep(m, t) PROVE OrderAt(m)'
  BY <1>m, <1>l, <1>12 DEF OrderAt, WorkStep
<1>13. ASSUME NEW t \in TaskIds, SettleStep(m, t) PROVE OrderAt(m)'
  BY <1>m, <1>l, <1>13, ZenonT(30) DEF OrderAt, SettleStep
<1>14. CASE TTLStep(m)
  BY <1>m, <1>l, <1>14 DEF OrderAt, TTLStep
<1>15. CASE RestartStep(m)
  BY <1>m, <1>l, <1>15, RestartedIs, NoTaskIs DEF OrderAt, RestartStep
<1>16. \A n \in Nodes : AgentStep(n) /\ n # m => SameAgent(m)
  BY OthersAside
<1>17. ToggleStep \/ DeleteStep \/ IdleStep => SameAgent(m)
  BY DEF ToggleStep, DeleteStep, IdleStep
<1>18. CASE AgentStep(m)
  BY <1>1, <1>2, <1>3, <1>4, <1>5, <1>6, <1>7, <1>8, <1>9, <1>10, <1>11, <1>12,
     <1>13, <1>14, <1>15, <1>18 DEF AgentStep
<1> QED BY <1>0, <1>16, <1>17, <1>18 DEF Step

LEMMA StopStep == Types /\ OrderOK /\ StopOK /\ Step => StopOK'
<1> SUFFICES ASSUME Types, OrderOK, StopOK, Step, NEW m \in Nodes PROVE StopAt(m)'
  BY DEF StopOK
<1>m. StopAt(m) /\ OrderAt(m)
  BY DEF StopOK, OrderOK
<1>t. \A u \in TaskIds : tasks[m][u] \in Task
  BY DEF Types
<1>0. CASE SameAgent(m)
  BY <1>m, <1>0, StopAside
<1>1. ASSUME SameTasks(m) PROVE StopAt(m)'
  BY <1>m, <1>1 DEF StopAt, SameTasks, Closed
<1>2. CASE CleanupStep(m)
  <2>1. \A u \in TaskIds : /\ SafeClose(tasks[m][u]).pc = tasks[m][u].pc
                           /\ SafeClose(tasks[m][u]).phase = tasks[m][u].phase
                           /\ Closed(SafeClose(tasks[m][u]))
    BY <1>t, SafeCloseIs DEF Closed
  <2>2. 0 \notin TaskIds
    BY DEF TaskIds
  <2> QED BY <1>1, <1>2, <1>m, <2>1, <2>2 DEF StopAt, CleanupStep, Closed
<1>3. CASE DecideStep(m)
  <2>1. \A u \in TaskIds : /\ SuspendTask(tasks[m][u]).pc = tasks[m][u].pc
                           /\ Closed(SuspendTask(tasks[m][u]))
    BY <1>t, SuspendTaskIs DEF Closed
  <2> QED BY <1>1, <1>3, <1>m, <2>1 DEF StopAt, DecideStep, Closed
<1>4. CASE CreateStep(m)
  <2>1. /\ tasks'[m][job'[m]].pc = "created" /\ tasks'[m][job'[m]].phase = "Running"
        /\ job'[m] \in TaskIds
    BY <1>4 DEF CreateStep
  <2>2. \A u \in TaskIds : /\ SafeClose(tasks[m][u]).pc = tasks[m][u].pc
                           /\ SafeClose(tasks[m][u]).phase = tasks[m][u].phase
                           /\ Closed(SafeClose(tasks[m][u]))
    BY <1>t, SafeCloseIs DEF Closed
  <2>3. \A u \in TaskIds : u # job'[m] =>
            tasks'[m][u] = IF u = job[m] THEN SafeClose(tasks[m][u]) ELSE tasks[m][u]
    BY <1>4 DEF CreateStep
  <2> QED BY <1>m, <2>1, <2>2, <2>3 DEF StopAt, Closed
<1>5. CASE StartStep(m)
  <2>1. rec[m].task \in TaskIds /\ tasks[m][rec[m].task].pc = "created"
    BY <1>m, <1>5 DEF OrderAt, StartStep
  <2> QED BY <1>m, <1>5, <2>1 DEF StopAt, StartStep, Closed
<1>6. ASSUME NEW t \in TaskIds, WorkStep(m, t) PROVE StopAt(m)'
  BY <1>m, <1>6 DEF StopAt, WorkStep, Closed
<1>7. ASSUME NEW t \in TaskIds, SettleStep(m, t) PROVE StopAt(m)'
  BY <1>m, <1>7, ZenonT(30) DEF StopAt, SettleStep, Closed
<1>8. CASE TTLStep(m)
  <2>1. 0 \notin TaskIds
    BY DEF TaskIds
  <2> QED BY <1>m, <1>8, <2>1 DEF StopAt, TTLStep, Closed
<1>9. CASE RestartStep(m)
  BY <1>9, NoTaskIs DEF StopAt, RestartStep, TaskIds
<1>10. \A n \in Nodes : AgentStep(n) /\ n # m => SameAgent(m)
  BY OthersAside
<1>11. ToggleStep \/ DeleteStep \/ IdleStep => SameAgent(m)
  BY DEF ToggleStep, DeleteStep, IdleStep
<1>12. CASE AgentStep(m)
  BY <1>1, <1>2, <1>3, <1>4, <1>5, <1>6, <1>7, <1>8, <1>9, <1>12
     DEF AgentStep, DeliverStep, FetchStep, InitStep, EnsureStep, RemoveStep,
         SyncSuspendStep, FailStep
<1> QED BY <1>0, <1>10, <1>11, <1>12 DEF Step

-----------------------------------------------------------------------------
(***************************************************************************)
(* One agent: once the Command is gone, it has no task and will not create *)
(* one, because what it has read of the Command is being deleted or has    *)
(* not got the finalizer.                                                  *)
(***************************************************************************)
OneAgent == \A m, n \in Nodes : m = n

Held(o) == o.life = "live" /\ "finalizer" \in o.flags

GoneAt(n) ==
    ~Exists =>
        /\ job[n] = 0
        /\ rec[n].pc \notin {"decide", "start"}
        /\ ~Held(cache[n].obj)
        /\ rec[n].pc # "idle" => ~Held(rec[n].obj)

GoneOK == \A n \in Nodes : GoneAt(n)

LEMMA GoneStep ==
    ASSUME OneAgent
    PROVE  Types /\ OrderOK /\ FinalizerOK /\ GoneOK /\ Step => GoneOK'
<1> SUFFICES ASSUME Types, OrderOK, FinalizerOK, GoneOK, Step, NEW m \in Nodes
             PROVE  GoneAt(m)'
  BY DEF GoneOK
<1>m. GoneAt(m) /\ OrderAt(m)
  BY DEF GoneOK, OrderOK
<1>o. \A n \in Nodes : n = m
  BY DEF OneAgent
<1>w. \A p : Wrote(m, p) => obj'.life = obj.life
  BY DEF Wrote, SameMeta, SameApi
<1>1. CASE ToggleStep \/ IdleStep
  BY <1>1, <1>m DEF ToggleStep, IdleStep, SameApi, SameAgent, GoneAt, Exists, Held
<1>2. CASE DeleteStep
  <2>1. SameAgent(m)
    BY <1>2 DEF DeleteStep
  <2>2. CASE Exists /\ "finalizer" \notin obj.flags
    BY <2>1, <2>2 DEF FinalizerOK, SameAgent, GoneAt, Held
  <2>3. CASE Exists /\ "finalizer" \in obj.flags
    BY <1>2, <2>3 DEF DeleteStep, GoneAt, Exists
  <2>4. CASE ~Exists
    BY <1>m, <2>1, <2>4 DEF SameAgent, GoneAt, Exists, Held
  <2> QED BY <2>2, <2>3, <2>4
<1>3. CASE DeliverStep(m)
  BY <1>m, <1>3 DEF GoneAt, DeliverStep, SameApi, SameTasks, Exists, Held
<1>4. CASE FetchStep(m)
  BY <1>m, <1>4 DEF GoneAt, FetchStep, SameApi, SameTasks, Exists, Held
<1>5. CASE InitStep(m)
  BY <1>m, <1>w, <1>5 DEF GoneAt, InitStep, Moves, SameTasks, Exists, Held
<1>6. CASE EnsureStep(m)
  BY <1>m, <1>6 DEF GoneAt, EnsureStep, Moves, SameTasks, Exists, Held
<1>7. CASE CleanupStep(m)
  BY <1>m, <1>7 DEF GoneAt, CleanupStep, Moves, SameTasks, SameApi, Exists, Held
<1>8. CASE RemoveStep(m)
  BY <1>m, <1>8
     DEF OrderAt, GoneAt, RemoveStep, Moves, SameTasks, SameApi, Exists, Held
<1>9. CASE DecideStep(m)
  BY <1>m, <1>9 DEF GoneAt, DecideStep, Moves, SameTasks, SameApi, Exists, Held
<1>10. CASE SyncSuspendStep(m)
  BY <1>m, <1>w, <1>10 DEF GoneAt, SyncSuspendStep, Moves, SameTasks, Exists, Held
<1>11. CASE CreateStep(m)
  BY <1>m, <1>11 DEF GoneAt, CreateStep, SameApi, Exists
<1>12. CASE StartStep(m)
  BY <1>m, <1>w, <1>12 DEF GoneAt, StartStep, Moves, Exists, Held
<1>13. CASE FailStep(m)
  BY <1>m, <1>13 DEF GoneAt, FailStep, Moves, SameTasks, SameApi, Exists, Held
<1>14. ASSUME NEW t \in TaskIds, WorkStep(m, t) PROVE GoneAt(m)'
  <2>1. obj'.life = obj.life
    BY <1>w, <1>14 DEF WorkStep, SameApi
  <2> QED BY <1>m, <1>14, <2>1 DEF GoneAt, WorkStep, Exists, Held
<1>15. ASSUME NEW t \in TaskIds, SettleStep(m, t) PROVE GoneAt(m)'
  BY <1>m, <1>15 DEF GoneAt, SettleStep, SameApi, Exists, Held
<1>16. CASE TTLStep(m)
  BY <1>m, <1>16 DEF GoneAt, TTLStep, SameApi, Exists, Held
<1>17. CASE RestartStep(m)
  BY <1>17, RestartedIs DEF GoneAt, RestartStep, Held
<1> QED BY <1>o, <1>1, <1>2, <1>3, <1>4, <1>5, <1>6, <1>7, <1>8, <1>9, <1>10, <1>11,
           <1>12, <1>13, <1>14, <1>15, <1>16, <1>17 DEF Step, AgentStep

-----------------------------------------------------------------------------
(***************************************************************************)
(* No spec change: an agent has at most one goroutine.  It is that of the  *)
(* task of the table, or the agent has cleaned up after the deletion and   *)
(* will never create a task again.                                         *)
(***************************************************************************)
OneGeneration == MaxGeneration = 1

FirstOnly(o) == o.life = "live" => o.gen = 1 /\ "suspend" \notin o.flags

Active(k) == k.pc \notin {"free", "done"}

\* The agent knows only of a deletion.
Over(n) ==
    /\ obj.life # "live" /\ cache[n].obj.life # "live"
    /\ rec[n].pc # "idle" => rec[n].obj.life # "live"

ReadFirst(n) ==
    /\ FirstOnly(cache[n].obj)
    /\ rec[n].pc # "idle" => FirstOnly(rec[n].obj)
    /\ rec[n].pc # "suspend"

SingleAt(n) ==
    /\ \A t \in TaskIds :
           /\ tasks[n][t].pc # "free" => tasks[n][t].gen = 1
           /\ tasks[n][t].phase = "Completed" => tasks[n][t].pc = "done"
           /\ Active(tasks[n][t]) => t = job[n] \/ (job[n] = 0 /\ Over(n))
    /\ \A t, u \in TaskIds : Active(tasks[n][t]) /\ Active(tasks[n][u]) => t = u

SingleOK ==
    /\ FirstOnly(obj)
    /\ \A n \in Nodes : ReadFirst(n) /\ SingleAt(n)

LEMMA FirstKept ==
    ASSUME OneGeneration
    PROVE  Types /\ FirstOnly(obj) /\ Step => FirstOnly(obj)' /\ ~ToggleStep
<1> SUFFICES ASSUME Types, FirstOnly(obj), Step PROVE FirstOnly(obj)' /\ ~ToggleStep
  OBVIOUS
<1>0. ~ToggleStep
  BY DEF ToggleStep, FirstOnly, OneGeneration
<1>1. \A n \in Nodes : \A p : Wrote(n, p) => FirstOnly(obj)'
  BY DEF Wrote, SameMeta, SameApi, FirstOnly
<1>2. ASSUME NEW n \in Nodes, AgentStep(n) PROVE FirstOnly(obj)'
  <2>1. CASE \/ DeliverStep(n) \/ FetchStep(n) \/ CleanupStep(n) \/ DecideStep(n)
             \/ CreateStep(n) \/ FailStep(n) \/ TTLStep(n) \/ RestartStep(n)
             \/ \E t \in TaskIds : SettleStep(n, t)
    BY <2>1 DEF DeliverStep, FetchStep, CleanupStep, DecideStep, CreateStep, FailStep,
       SettleStep, TTLStep, RestartStep, SameApi, FirstOnly
  <2>2. CASE \/ InitStep(n) \/ SyncSuspendStep(n) \/ StartStep(n)
             \/ \E t \in TaskIds : WorkStep(n, t)
    BY <1>1, <2>2 DEF InitStep, SyncSuspendStep, StartStep, WorkStep, SameApi, FirstOnly
  <2>3. CASE EnsureStep(n) \/ RemoveStep(n)
    BY <2>3 DEF EnsureStep, RemoveStep, SameApi, Vanishes, NoObject, FirstOnly
  <2> QED BY <1>2, <2>1, <2>2, <2>3 DEF AgentStep
<1>3. DeleteStep \/ IdleStep => FirstOnly(obj)'
  BY DEF DeleteStep, IdleStep, SameApi, Vanishes, NoObject, FirstOnly
<1> QED BY <1>0, <1>2, <1>3 DEF Step

LEMMA ReadFirstStep ==
    ASSUME Types, OrderOK, SingleOK, Step, ~ToggleStep, NEW m \in Nodes
    PROVE  ReadFirst(m)'
<1>m. ReadFirst(m) /\ OrderAt(m) /\ FirstOnly(obj)
  BY DEF SingleOK, OrderOK
<1>0. CASE SameAgent(m)
  BY <1>m, <1>0 DEF ReadFirst, SameAgent, FirstOnly
<1>1. CASE AgentStep(m)
  <2>1. CASE DeliverStep(m)
    BY <1>m, <2>1 DEF ReadFirst, FirstOnly, DeliverStep, SameTasks
  <2>2. CASE FetchStep(m)
    BY <1>m, <2>2 DEF ReadFirst, FirstOnly, FetchStep
  <2>3. CASE InitStep(m) \/ EnsureStep(m) \/ CleanupStep(m) \/ RemoveStep(m)
             \/ SyncSuspendStep(m) \/ StartStep(m) \/ FailStep(m)
    BY <1>m, <2>3 DEF ReadFirst, FirstOnly, InitStep, EnsureStep, CleanupStep, RemoveStep,
       SyncSuspendStep, StartStep, FailStep, Moves
  <2>4. CASE DecideStep(m)
    BY <1>m, <2>4 DEF ReadFirst, FirstOnly, DecideStep, Moves, Suspended, OrderAt
  <2>5. CASE CreateStep(m)
    BY <1>m, <2>5 DEF ReadFirst, FirstOnly, CreateStep
  <2>6. CASE TTLStep(m) \/ \E t \in TaskIds : WorkStep(m, t) \/ SettleStep(m, t)
    BY <1>m, <2>6 DEF ReadFirst, FirstOnly, TTLStep, WorkStep, SettleStep
  <2>7. CASE RestartStep(m)
    BY <2>7, RestartedIs DEF ReadFirst, FirstOnly, RestartStep
  <2> QED BY <1>1, <2>1, <2>2, <2>3, <2>4, <2>5, <2>6, <2>7 DEF AgentStep
<1> QED BY <1>0, <1>1, OthersAside DEF Step, DeleteStep, IdleStep

\* What is over stays over, until the agent is restarted.
LEMMA OverStays ==
    ASSUME Types, Step, NEW m \in Nodes, Over(m)
    PROVE  Over(m)'
<1>l. obj.life # "live" /\ obj'.life # "live"
  BY LifeMoves DEF Over
<1>0. CASE SameAgent(m)
  BY <1>l, <1>0 DEF Over, SameAgent
<1>1. CASE AgentStep(m)
  <2>1. CASE DeliverStep(m)
    BY <1>l, <2>1 DEF Over, DeliverStep
  <2>2. CASE FetchStep(m)
    BY <1>l, <2>2 DEF Over, FetchStep
  <2>3. CASE InitStep(m) \/ EnsureStep(m) \/ CleanupStep(m) \/ RemoveStep(m)
             \/ SyncSuspendStep(m) \/ StartStep(m) \/ FailStep(m) \/ DecideStep(m)
    BY <1>l, <2>3 DEF Over, InitStep, EnsureStep, CleanupStep, RemoveStep,
       SyncSuspendStep, StartStep, FailStep, DecideStep, Moves
  <2>4. CASE CreateStep(m)
    BY <1>l, <2>4 DEF Over, CreateStep
  <2>5. CASE TTLStep(m) \/ \E t \in TaskIds : WorkStep(m, t) \/ SettleStep(m, t)
    BY <1>l, <2>5 DEF Over, TTLStep, WorkStep, SettleStep
  <2>6. CASE RestartStep(m)
    BY <1>l, <2>6, RestartedIs DEF Over, RestartStep
  <2> QED BY <1>1, <2>1, <2>2, <2>3, <2>4, <2>5, <2>6 DEF AgentStep
<1> QED BY <1>0, <1>1, OthersAside DEF Step, ToggleStep, DeleteStep, IdleStep

\* A task is created when there is none to replace.
LEMMA CreatesOnce ==
    ASSUME Types, OrderOK, StopOK, SingleOK, NEW m \in Nodes, CreateStep(m)
    PROVE  /\ rec[m].obj.gen = 1 /\ ~Over(m) /\ job[m] = 0
           /\ \A u \in TaskIds : ~Active(tasks[m][u])
<1>m. ReadFirst(m) /\ SingleAt(m) /\ OrderAt(m) /\ StopAt(m)
  BY DEF SingleOK, OrderOK, StopOK
<1>z. 0 \notin TaskIds /\ (job[m] # 0 => job[m] \in TaskIds)
  BY DEF TaskIds, Types
<1>1. rec[m].obj.gen = 1 /\ ~Over(m)
  BY <1>m DEF OrderAt, ReadFirst, FirstOnly, CreateStep, Over
<1>2. job[m] = 0
  <2> SUFFICES ASSUME job[m] # 0 PROVE FALSE
    OBVIOUS
  <2>1. tasks[m][job[m]].gen = 1
    BY <1>m, <1>z DEF StopAt, SingleAt
  <2> QED BY <1>1, <2>1 DEF CreateStep, SkipOldTask
<1>3. \A u \in TaskIds : ~Active(tasks[m][u])
  BY <1>m, <1>z, <1>1, <1>2 DEF SingleAt
<1> QED BY <1>1, <1>2, <1>3

LEMMA SingleAgentStep ==
    ASSUME Types, OrderOK, StopOK, SingleOK, Step, ~ToggleStep, NEW m \in Nodes
    PROVE  SingleAt(m)'
<1>m. ReadFirst(m) /\ SingleAt(m) /\ OrderAt(m) /\ StopAt(m)
  BY DEF SingleOK, OrderOK, StopOK
<1>v. Over(m) => Over(m)'
  BY OverStays
<1>t. \A u \in TaskIds : tasks[m][u] \in Task
  BY DEF Types
<1>z. 0 \notin TaskIds /\ (job[m] # 0 => job[m] \in TaskIds)
  BY DEF TaskIds, Types
<1>0. ASSUME SameTasks(m) PROVE SingleAt(m)'
  BY <1>0, <1>m, <1>v DEF SingleAt, SameTasks, Active
<1>1. CASE SameAgent(m)
  BY <1>0, <1>1 DEF SameAgent, SameTasks
<1>2. CASE CleanupStep(m)
  <2>1. CASE SameTasks(m)
    BY <1>0, <2>1
  <2>2. CASE ~SameTasks(m)
    <3>1. \A u \in TaskIds : /\ SafeClose(tasks[m][u]).pc = tasks[m][u].pc
                             /\ SafeClose(tasks[m][u]).phase = tasks[m][u].phase
                             /\ SafeClose(tasks[m][u]).gen = tasks[m][u].gen
      BY <1>t, SafeCloseIs
    <3>2. /\ job'[m] = 0
          /\ \A u \in TaskIds : /\ tasks'[m][u].pc = tasks[m][u].pc
                                /\ tasks'[m][u].phase = tasks[m][u].phase
                                /\ tasks'[m][u].gen = tasks[m][u].gen
      BY <1>2, <2>2, <3>1 DEF CleanupStep
    <3>3. Over(m)
      BY <1>m, <1>2 DEF OrderAt, CleanupStep, Over
    <3> QED BY <1>m, <1>v, <3>2, <3>3 DEF SingleAt, Active
  <2> QED BY <2>1, <2>2
<1>3. CASE DecideStep(m)
  <2>1. ~Suspended(m)
    BY <1>m, <1>3 DEF OrderAt, ReadFirst, FirstOnly, Suspended, DecideStep
  <2> QED BY <1>0, <1>3, <2>1 DEF DecideStep
<1>4. CASE CreateStep(m)
  <2>1. rec[m].obj.gen = 1 /\ job[m] = 0
    BY <1>4, CreatesOnce
  <2>3. \A u \in TaskIds : ~Active(tasks[m][u])
    BY <1>4, CreatesOnce
  <2>4. \A u \in TaskIds : u # job'[m] => tasks'[m][u] = tasks[m][u]
    BY <1>4, <1>z, <2>1 DEF CreateStep
  <2>5. /\ tasks'[m][job'[m]].pc = "created" /\ tasks'[m][job'[m]].phase = "Running"
        /\ tasks'[m][job'[m]].gen = 1 /\ job'[m] \in TaskIds
    BY <1>4, <2>1 DEF CreateStep
  <2> QED BY <1>m, <2>3, <2>4, <2>5 DEF SingleAt, Active
<1>5. CASE StartStep(m)
  <2>1. rec[m].task \in TaskIds /\ tasks[m][rec[m].task].pc = "created"
    BY <1>m, <1>5 DEF OrderAt, StartStep
  <2>2. Active(tasks[m][rec[m].task])
    BY <2>1 DEF Active
  <2>3. \A u \in TaskIds : /\ Active(tasks'[m][u]) <=> Active(tasks[m][u])
                           /\ tasks'[m][u].phase = tasks[m][u].phase
                           /\ tasks'[m][u].gen = tasks[m][u].gen
                           /\ u = rec[m].task \/ tasks'[m][u] = tasks[m][u]
    BY <1>5, <2>1 DEF StartStep, Active
  <2>4. job'[m] = job[m]
    BY <1>5 DEF StartStep
  <2>5. \A u \in TaskIds : /\ tasks'[m][u].pc # "free" => tasks'[m][u].gen = 1
                           /\ tasks'[m][u].phase = "Completed" => tasks'[m][u].pc = "done"
    BY <1>m, <2>1, <2>3 DEF SingleAt
  <2> QED BY <1>m, <1>v, <2>3, <2>4, <2>5 DEF SingleAt
<1>6. ASSUME NEW t \in TaskIds, WorkStep(m, t) PROVE SingleAt(m)'
  <2>1. \A u \in TaskIds : /\ Active(tasks'[m][u]) => Active(tasks[m][u])
                           /\ tasks'[m][u].phase = tasks[m][u].phase
                           /\ tasks'[m][u].gen = tasks[m][u].gen
                           /\ u = t \/ tasks'[m][u] = tasks[m][u]
    BY <1>6 DEF WorkStep, Active
  <2>2. job'[m] = job[m] /\ tasks[m][t].pc \notin {"free", "done"}
    BY <1>6 DEF WorkStep
  <2>3. \A u \in TaskIds : /\ tasks'[m][u].pc # "free" => tasks'[m][u].gen = 1
                           /\ tasks'[m][u].phase = "Completed" => tasks'[m][u].pc = "done"
    BY <1>m, <2>1, <2>2 DEF SingleAt
  <2> QED BY <1>m, <1>v, <2>1, <2>2, <2>3 DEF SingleAt
<1>7. ASSUME NEW t \in TaskIds, SettleStep(m, t) PROVE SingleAt(m)'
  <2>1. Active(tasks[m][t])
    BY <1>7 DEF SettleStep, Active
  <2>2. t = job[m] \/ job[m] = 0
    BY <1>m, <2>1 DEF SingleAt
  <2>3. \A u \in TaskIds : /\ tasks'[m][u].pc = IF u = t THEN "done" ELSE tasks[m][u].pc
                           /\ u # t => tasks'[m][u].phase = tasks[m][u].phase
                           /\ tasks'[m][u].gen = tasks[m][u].gen
    <3>1. \A u \in TaskIds : u # t => u # job[m]
      BY <1>z, <2>2
    <3> QED BY <1>7, <3>1 DEF SettleStep
  <2>4. job'[m] = job[m]
    BY <1>7 DEF SettleStep
  <2>5. \A u \in TaskIds : /\ tasks'[m][u].pc # "free" => tasks'[m][u].gen = 1
                           /\ tasks'[m][u].phase = "Completed" => tasks'[m][u].pc = "done"
    BY <1>m, <2>1, <2>3 DEF SingleAt, Active
  <2>6. \A u \in TaskIds : Active(tasks'[m][u]) => Active(tasks[m][u])
    BY <2>3 DEF Active
  <2> QED BY <1>m, <1>v, <2>4, <2>5, <2>6 DEF SingleAt
<1>8. CASE TTLStep(m)
  <2>1. tasks[m][job[m]].pc = "done" /\ job[m] \in TaskIds
    BY <1>m, <1>8 DEF TTLStep, SingleAt
  <2>2. \A u \in TaskIds : ~Active(tasks[m][u])
    BY <1>m, <1>z, <2>1 DEF SingleAt, Active
  <2>3. \A u \in TaskIds : /\ tasks'[m][u].pc = tasks[m][u].pc
                           /\ tasks'[m][u].phase = tasks[m][u].phase
                           /\ tasks'[m][u].gen = tasks[m][u].gen
    BY <1>8 DEF TTLStep
  <2> QED BY <1>m, <2>2, <2>3 DEF SingleAt, Active
<1>9. CASE RestartStep(m)
  BY <1>9, NoTaskIs DEF SingleAt, RestartStep, Active
<1>10. CASE AgentStep(m)
  BY <1>0, <1>2, <1>3, <1>4, <1>5, <1>6, <1>7, <1>8, <1>9, <1>10
     DEF AgentStep, DeliverStep, FetchStep, InitStep, EnsureStep, RemoveStep,
         SyncSuspendStep, FailStep
<1> QED BY <1>1, <1>10, OthersAside DEF Step, DeleteStep, IdleStep

LEMMA SingleStep ==
    ASSUME OneGeneration
    PROVE  Types /\ OrderOK /\ StopOK /\ SingleOK /\ Step => SingleOK'
<1> SUFFICES ASSUME Types, OrderOK, StopOK, SingleOK, Step PROVE SingleOK'
  OBVIOUS
<1>1. FirstOnly(obj)' /\ ~ToggleStep
  BY FirstKept DEF SingleOK
<1> QED BY <1>1, ReadFirstStep, SingleAgentStep DEF SingleOK

-----------------------------------------------------------------------------
(***************************************************************************)
(* One agent, no spec change: a Completed entry that the API server shows  *)
(* has no goroutine that could still write, and nothing creates one: the   *)
(* task of the table is there, or the agent knows of the deletion only, or *)
(* it has read, or will read, that the entry is Completed.  An entry that  *)
(* is missing in the cache only was missing when the agent started; the    *)
(* reconcile that starts from it finds a node without tasks.               *)
(***************************************************************************)
FirstObject == [NoObject EXCEPT !.life = "live", !.gen = 1, !.rv = FirstRV]

Unrun(n) ==
    status[n].phase # "Completed" /\ \A t \in TaskIds : tasks[n][t].pc = "free"

Informed(n) ==
    /\ cache[n].obj.life = "gone" \/ cache[n].status[n].phase = "Completed"
    /\ rec[n].pc = "idle" \/ rec[n].st.phase = "Completed"

EntryAt(n) ==
    /\ Exists /\ status[n].phase = "absent" =>
         /\ obj = FirstObject
         /\ cache[n].obj.life = "gone" \/ cache[n].status[n].phase = "absent"
    /\ Exists /\ rec[n].pc \notin {"idle", "init"} => status[n].phase # "absent"
    /\ rec[n].pc # "idle" => rec[n].st.phase # "absent"

CacheAt(n) ==
    cache[n].obj.life # "gone" /\ cache[n].status[n].phase = "absent" =>
        /\ cache[n].obj = FirstObject
        /\ n \in queue => rec[n].pc = "idle" /\ Unrun(n)
        /\ rec[n].pc = "finalizer" => Unrun(n)

InitAt(n) == rec[n].pc = "init" => Unrun(n) /\ rec[n].st.phase = "Running"

DoneAt(n) ==
    /\ Exists /\ status[n].phase = "Completed" =>
         /\ \A t \in TaskIds : tasks[n][t].pc \in {"free", "settle", "done"}
         /\ job[n] # 0 \/ Over(n) \/ Informed(n)
    /\ \A t \in TaskIds : tasks[n][t].pc \in {"loop", "exec", "sync", "final"} =>
         tasks[n][t].st.phase \notin {"absent", "Completed"}

FinalOK == \A n \in Nodes : EntryAt(n) /\ CacheAt(n) /\ InitAt(n) /\ DoneAt(n)


\* Under the two assumptions there is nothing to suspend, and a status write is
\* that of the node.
LEMMA EntryStep ==
    ASSUME OneAgent, Types, OrderOK, SingleOK, FinalOK, Step, ~ToggleStep,
           NEW m \in Nodes
    PROVE  EntryAt(m)'
<1>m. EntryAt(m) /\ InitAt(m) /\ DoneAt(m) /\ OrderAt(m) /\ rec[m].pc # "suspend"
  BY DEF FinalOK, OrderOK, SingleOK, ReadFirst
<1>n. \A n \in Nodes : n = m
  BY DEF OneAgent
<1>g. Exists' => Exists
  BY LifeMoves DEF Exists
<1>1. CASE DeleteStep
  <2>1. SameAgent(m) /\ (Exists' => status' = status /\ (obj.life = "deleting" => obj' = obj))
    BY <1>1 DEF DeleteStep, Vanishes, NoObject, Exists
  <2>2. Exists' => "finalizer" \in obj.flags /\ Exists
    BY <1>1 DEF DeleteStep, Vanishes, NoObject, Exists
  <2>3. FirstObject.flags = {}
    BY DEF FirstObject, NoObject
  <2> QED BY <1>m, <2>1, <2>2, <2>3 DEF EntryAt, SameAgent
<1>2. CASE IdleStep
  BY <1>2, <1>m DEF IdleStep, SameApi, SameAgent, EntryAt, Exists
<1>3. CASE DeliverStep(m)
  BY <1>3, <1>m DEF DeliverStep, SameApi, EntryAt, Exists
<1>4. CASE FetchStep(m)
  BY <1>4, <1>m DEF FetchStep, SameApi, EntryAt, Exists
<1>5. CASE InitStep(m)
  BY <1>5, <1>m, <1>g DEF InitStep, Wrote, Moves, EntryAt, InitAt
<1>6. CASE EnsureStep(m)
  BY <1>6, <1>m, <1>g DEF EnsureStep, Moves, EntryAt
<1>7. CASE \/ CleanupStep(m) \/ FailStep(m) \/ CreateStep(m)
           \/ TTLStep(m) \/ \E t \in TaskIds : SettleStep(m, t)
  BY <1>7, <1>m DEF CleanupStep, FailStep, CreateStep, TTLStep, SettleStep,
     Moves, SameApi, EntryAt, Exists
<1>8. CASE DecideStep(m)
  BY <1>8, <1>m DEF DecideStep, Moves, SameApi, EntryAt, Exists
<1>9. CASE RemoveStep(m)
  BY <1>9, <1>m DEF RemoveStep, Moves, SameApi, Vanishes, NoObject, EntryAt, Exists
<1>10. CASE SyncSuspendStep(m)
  BY <1>10, <1>m DEF SyncSuspendStep
<1>11. CASE StartStep(m)
  BY <1>11, <1>m, <1>g DEF StartStep, Wrote, Moves, EntryAt
<1>12. ASSUME NEW t \in TaskIds, WorkStep(m, t) PROVE EntryAt(m)'
  <2>1. SameApi \/ (Exists => status'[m].phase # "absent")
    BY <1>12, <1>m DEF WorkStep, Wrote, DoneAt
  <2>2. cache'[m] = cache[m] /\ rec'[m] = rec[m]
    BY <1>12 DEF WorkStep
  <2> QED BY <1>m, <1>g, <2>1, <2>2 DEF EntryAt, SameApi
<1>13. CASE RestartStep(m)
  BY <1>13, <1>m, RestartedIs DEF RestartStep, SameApi, EntryAt, Exists
<1> QED BY <1>n, <1>1, <1>2, <1>3, <1>4, <1>5, <1>6, <1>7, <1>8, <1>9, <1>10, <1>11,
           <1>12, <1>13 DEF Step, AgentStep

LEMMA CacheStep ==
    ASSUME OneAgent, Types, OrderOK, SingleOK, FinalOK, Step, ~ToggleStep,
           NEW m \in Nodes
    PROVE  CacheAt(m)' /\ InitAt(m)'
<1>m. /\ EntryAt(m) /\ CacheAt(m) /\ InitAt(m) /\ OrderAt(m) /\ SingleAt(m)
      /\ rec[m].pc # "suspend"
  BY DEF FinalOK, OrderOK, SingleOK, ReadFirst
<1>n. \A n \in Nodes : n = m
  BY DEF OneAgent
<1>1. CASE DeleteStep
  <2>1. SameAgent(m) /\ (status' = status \/ status'[m].phase = "absent")
    BY <1>1 DEF DeleteStep, Vanishes
  <2> QED BY <1>m, <2>1 DEF CacheAt, InitAt, SameAgent, Unrun
<1>2. CASE IdleStep
  BY <1>2, <1>m DEF IdleStep, SameApi, SameAgent, CacheAt, InitAt, Unrun
<1>3. CASE DeliverStep(m)
  <2>1. InitAt(m)'
    BY <1>3, <1>m DEF DeliverStep, SameApi, SameTasks, InitAt, Unrun
  <2>2. ASSUME cache'[m].obj.life # "gone", cache'[m].status[m].phase = "absent"
        PROVE  /\ cache'[m].obj = FirstObject /\ rec'[m].pc = "idle"
               /\ (Unrun(m))'
    <3>1. obj = FirstObject /\ Exists /\ status[m].phase = "absent"
      BY <1>3, <1>m, <2>2 DEF DeliverStep, EntryAt, Exists
    <3>2. cache[m].obj.life = "gone"
      BY <1>3, <1>m, <3>1 DEF DeliverStep, EntryAt, CacheAt
    <3>3. rec[m].pc = "idle" /\ \A t \in TaskIds : tasks[m][t].pc = "free"
      BY <1>m, <3>1, <3>2 DEF OrderAt, Exists
    <3> QED BY <1>3, <3>1, <3>3 DEF DeliverStep, SameApi, SameTasks, Unrun
  <2> QED BY <2>1, <2>2 DEF CacheAt
<1>4. CASE FetchStep(m)
  BY <1>4, <1>m DEF FetchStep, SameApi, SameTasks, CacheAt, InitAt, Unrun
<1>5. CASE InitStep(m)
  <2>1. (Unrun(m))'
    BY <1>5, <1>m DEF InitStep, Wrote, SameApi, SameTasks, InitAt, Unrun
  <2> QED BY <1>5, <1>m, <2>1 DEF InitStep, Moves, SameQueue, CacheAt, InitAt
<1>6. CASE EnsureStep(m) \/ CleanupStep(m) \/ RemoveStep(m) \/ StartStep(m)
  BY <1>6, <1>m DEF EnsureStep, CleanupStep, RemoveStep, StartStep, Moves, SameQueue,
     CacheAt, InitAt
<1>7. CASE DecideStep(m) \/ CreateStep(m)
  BY <1>7, <1>m DEF DecideStep, CreateStep, Moves, SameQueue, CacheAt, InitAt
<1>8. CASE SyncSuspendStep(m)
  BY <1>8, <1>m DEF SyncSuspendStep
<1>9. CASE FailStep(m)
  <2>1. rec'[m].pc = "idle" /\ cache'[m] = cache[m] /\ (Unrun(m)' <=> Unrun(m))
    BY <1>9 DEF FailStep, Moves, SameApi, SameTasks, Unrun
  <2>2. CASE rec[m].pc \in {"init", "start"}
    BY <1>9, <1>m, <2>1, <2>2 DEF FailStep, SameQueue, CacheAt, InitAt
  <2>3. CASE rec[m].pc = "finalizer"
    BY <1>m, <2>1, <2>3 DEF CacheAt, InitAt
  <2>4. CASE rec[m].pc = "unfinalize"
    <3>1. cache[m].obj # FirstObject
      BY <1>m, <2>4 DEF OrderAt, FirstObject, NoObject
    <3> QED BY <1>m, <2>1, <3>1 DEF CacheAt, InitAt
  <2> QED BY <1>9, <1>m, <2>2, <2>3, <2>4 DEF FailStep
<1>10. ASSUME NEW t \in TaskIds, WorkStep(m, t) \/ SettleStep(m, t)
       PROVE  CacheAt(m)' /\ InitAt(m)'
  <2>1. ~Unrun(m)
    BY <1>10 DEF WorkStep, SettleStep, Unrun
  <2>2. cache'[m] = cache[m] /\ rec'[m] = rec[m] /\ (m \in queue' => m \in queue)
    BY <1>10 DEF WorkStep, SettleStep, SameQueue
  <2> QED BY <1>m, <2>1, <2>2 DEF CacheAt, InitAt
<1>11. CASE TTLStep(m)
  BY <1>11, <1>m DEF TTLStep, SameApi, SameQueue, CacheAt, InitAt, Unrun
<1>12. CASE RestartStep(m)
  BY <1>12, RestartedIs DEF RestartStep, CacheAt, InitAt
<1> QED BY <1>n, <1>1, <1>2, <1>3, <1>4, <1>5, <1>6, <1>7, <1>8, <1>9, <1>10, <1>11,
           <1>12 DEF Step, AgentStep

LEMMA DoneStep ==
    ASSUME OneAgent, Types, OrderOK, StopOK, SingleOK, FinalOK, Step, ~ToggleStep,
           NEW m \in Nodes
    PROVE  DoneAt(m)'
<1>m. /\ EntryAt(m) /\ InitAt(m) /\ DoneAt(m) /\ OrderAt(m) /\ SingleAt(m)
      /\ rec[m].pc # "suspend"
  BY DEF FinalOK, OrderOK, SingleOK, ReadFirst
<1>n. \A n \in Nodes : n = m
  BY DEF OneAgent
<1>v. Over(m) => Over(m)'
  BY OverStays
<1>g. Exists' => Exists
  BY LifeMoves DEF Exists
<1>t. \A u \in TaskIds : tasks[m][u] \in Task
  BY DEF Types
<1>1. CASE DeleteStep
  <2>1. SameAgent(m) /\ (Exists' => status' = status)
    BY <1>1 DEF DeleteStep, Vanishes, NoObject, Exists
  <2> QED BY <1>m, <1>g, <1>v, <2>1 DEF DoneAt, Informed, SameAgent
<1>2. CASE IdleStep
  BY <1>2, <1>m, <1>v DEF IdleStep, SameApi, SameAgent, DoneAt, Informed, Exists
<1>3. CASE DeliverStep(m)
  BY <1>3, <1>m, <1>v DEF DeliverStep, SameApi, SameTasks, DoneAt, Informed, Exists
<1>4. CASE FetchStep(m)
  BY <1>4, <1>m, <1>v DEF FetchStep, SameApi, SameTasks, DoneAt, Informed, Exists
<1>5. CASE InitStep(m)
  BY <1>5, <1>m, <1>g, <1>v DEF InitStep, Wrote, SameTasks, DoneAt, InitAt
<1>6. CASE EnsureStep(m)
  BY <1>6, <1>m, <1>g, <1>v DEF EnsureStep, Moves, SameTasks, DoneAt, Informed
<1>7. CASE CleanupStep(m)
  <2>1. CASE SameTasks(m)
    BY <1>7, <1>m, <1>v, <2>1
       DEF CleanupStep, Moves, SameTasks, SameApi, DoneAt, Informed, Exists
  <2>2. CASE ~SameTasks(m)
    <3>1. \A u \in TaskIds : /\ SafeClose(tasks[m][u]).pc = tasks[m][u].pc
                             /\ SafeClose(tasks[m][u]).st = tasks[m][u].st
      BY <1>t, SafeCloseIs
    <3>2. \A u \in TaskIds : /\ tasks'[m][u].pc = tasks[m][u].pc
                             /\ tasks'[m][u].st = tasks[m][u].st
      BY <1>7, <2>2, <3>1 DEF CleanupStep
    <3>3. Over(m)
      BY <1>m, <1>7 DEF OrderAt, CleanupStep, Over
    <3> QED BY <1>7, <1>m, <1>v, <3>2, <3>3 DEF CleanupStep, SameApi, DoneAt, Exists
  <2> QED BY <2>1, <2>2
<1>8. CASE RemoveStep(m)
  BY <1>8, <1>m, <1>g, <1>v
     DEF RemoveStep, Moves, SameApi, Vanishes, SameTasks, DoneAt, Informed
<1>9. CASE DecideStep(m)
  <2>1. ~Suspended(m)
    BY <1>m, <1>9 DEF OrderAt, SingleOK, ReadFirst, FirstOnly, Suspended, DecideStep
  <2> QED BY <1>9, <1>m, <1>v, <2>1
          DEF DecideStep, Moves, SameApi, SameTasks, DoneAt, Informed, Exists
<1>10. CASE SyncSuspendStep(m)
  BY <1>10, <1>m DEF SyncSuspendStep
<1>11. CASE CreateStep(m)
  <2>1. job[m] = 0 /\ ~Over(m)
    BY <1>11, CreatesOnce
  <2>2. ~(Exists /\ status[m].phase = "Completed")
    BY <1>11, <1>m, <2>1 DEF CreateStep, DoneAt, Informed
  <2>3. \A u \in TaskIds : u # job[m]
    BY <2>1 DEF TaskIds
  <2>4. \A u \in TaskIds : u # job'[m] => tasks'[m][u] = tasks[m][u]
    BY <1>11, <2>3 DEF CreateStep
  <2> QED BY <1>11, <1>m, <2>2, <2>4 DEF CreateStep, SameApi, DoneAt, Exists
<1>12. CASE StartStep(m)
  <2>1. rec[m].st.phase \notin {"absent", "Completed"}
    BY <1>12, <1>m DEF StartStep, OrderAt, EntryAt
  <2>2. Exists => status'[m].phase # "Completed"
    BY <1>12, <2>1 DEF StartStep, Wrote
  <2> QED BY <1>12, <1>m, <1>g, <2>1, <2>2 DEF StartStep, DoneAt
<1>13. CASE FailStep(m)
  BY <1>13, <1>m, <1>v DEF FailStep, Moves, SameApi, SameTasks, DoneAt, Informed, Exists
<1>14. ASSUME NEW t \in TaskIds, WorkStep(m, t) PROVE DoneAt(m)'
  <2>1. /\ \A u \in TaskIds : u # t => tasks'[m][u] = tasks[m][u]
        /\ cache'[m] = cache[m] /\ rec'[m] = rec[m] /\ job'[m] = job[m]
    BY <1>14 DEF WorkStep
  <2>2. tasks'[m][t].pc \in {"loop", "exec", "sync", "final"} =>
            tasks'[m][t].st.phase \notin {"absent", "Completed"}
    BY <1>14, <1>m DEF WorkStep, DoneAt
  <2>3. \A u \in TaskIds : tasks'[m][u].pc \in {"loop", "exec", "sync", "final"} =>
            tasks'[m][u].st.phase \notin {"absent", "Completed"}
    BY <1>m, <2>1, <2>2 DEF DoneAt
  <2>4. ~(Exists /\ status[m].phase = "Completed")
    BY <1>14, <1>m DEF WorkStep, DoneAt
  <2>5. CASE Exists' /\ status'[m].phase = "Completed"
    <3>1. tasks[m][t].pc = "final" /\ tasks'[m][t].pc = "settle"
      BY <1>14, <1>m, <1>g, <2>4, <2>5 DEF WorkStep, SameApi, Wrote, DoneAt
    <3>2. Active(tasks[m][t])
      BY <3>1 DEF Active
    <3>3. \A u \in TaskIds : u # t => ~Active(tasks[m][u])
      BY <1>m, <3>2 DEF SingleAt
    <3>4. \A u \in TaskIds : tasks'[m][u].pc \in {"free", "settle", "done"}
      BY <2>1, <3>1, <3>3 DEF Active
    <3>5. job[m] # 0 \/ Over(m)
      BY <1>m, <3>2 DEF SingleAt, TaskIds
    <3> QED BY <1>v, <2>1, <2>3, <3>4, <3>5 DEF DoneAt
  <2>6. CASE ~(Exists' /\ status'[m].phase = "Completed")
    BY <2>3, <2>6 DEF DoneAt
  <2> QED BY <2>5, <2>6
<1>15. ASSUME NEW t \in TaskIds, SettleStep(m, t) PROVE DoneAt(m)'
  BY <1>15, <1>m, <1>v DEF SettleStep, SameApi, DoneAt, Informed, Exists
<1>16. CASE TTLStep(m)
  <2>1. \A u \in TaskIds : /\ tasks'[m][u].pc = tasks[m][u].pc
                           /\ tasks'[m][u].st = tasks[m][u].st
    BY <1>16 DEF TTLStep
  <2>2. job'[m] = job[m] \/ ~Exists'
    BY <1>16, <1>m DEF TTLStep, OrderAt, SameApi, Exists, TaskIds
  <2> QED BY <1>16, <1>m, <1>v, <2>1, <2>2 DEF TTLStep, SameApi, DoneAt, Informed, Exists
<1>17. CASE RestartStep(m)
  BY <1>17, <1>m, RestartedIs, NoTaskIs
     DEF RestartStep, DoneAt, Informed
<1> QED BY <1>n, <1>1, <1>2, <1>3, <1>4, <1>5, <1>6, <1>7, <1>8, <1>9, <1>10, <1>11,
           <1>12, <1>13, <1>14, <1>15, <1>16, <1>17 DEF Step, AgentStep

LEMMA FinalStep ==
    ASSUME OneAgent, OneGeneration
    PROVE  Types /\ OrderOK /\ StopOK /\ SingleOK /\ FinalOK /\ Step => FinalOK'
<1> SUFFICES ASSUME Types, OrderOK, StopOK, SingleOK, FinalOK, Step PROVE FinalOK'
  OBVIOUS
<1>1. ~ToggleStep
  BY FirstKept DEF SingleOK
<1> QED BY <1>1, EntryStep, CacheStep, DoneStep DEF FinalOK

\* The steps that could take a Completed entry back are not there to be taken.
LEMMA FinalKept ==
    ASSUME OneAgent, Types, OrderOK, SingleOK, FinalOK, Step, NEW m \in Nodes,
           status[m].phase = "Completed", Exists'
    PROVE  status'[m].phase = "Completed"
<1>m. InitAt(m) /\ DoneAt(m) /\ OrderAt(m) /\ rec[m].pc # "suspend"
  BY DEF FinalOK, OrderOK, SingleOK, ReadFirst
<1>n. \A n \in Nodes : n = m
  BY DEF OneAgent
<1>g. Exists
  BY LifeMoves DEF Exists
<1>1. CASE ToggleStep \/ IdleStep
  BY <1>1 DEF ToggleStep, IdleStep, SameApi
<1>2. CASE DeleteStep
  BY <1>2 DEF DeleteStep, Vanishes, NoObject, Exists
<1>3. CASE \/ DeliverStep(m) \/ FetchStep(m) \/ CleanupStep(m) \/ DecideStep(m)
           \/ CreateStep(m) \/ FailStep(m) \/ TTLStep(m) \/ RestartStep(m)
           \/ \E t \in TaskIds : SettleStep(m, t)
  BY <1>3 DEF DeliverStep, FetchStep, CleanupStep, DecideStep, CreateStep, FailStep,
     SettleStep, TTLStep, RestartStep, SameApi
<1>4. CASE EnsureStep(m) \/ RemoveStep(m)
  BY <1>4 DEF EnsureStep, RemoveStep, SameApi, Vanishes, NoObject, Exists
<1>5. CASE InitStep(m) \/ SyncSuspendStep(m) \/ StartStep(m)
  BY <1>5, <1>m, <1>g DEF InitStep, SyncSuspendStep, StartStep, InitAt, Unrun, DoneAt,
     OrderAt
<1>6. ASSUME NEW t \in TaskIds, WorkStep(m, t) PROVE status'[m].phase = "Completed"
  BY <1>6, <1>m, <1>g DEF WorkStep, DoneAt
<1> QED BY <1>n, <1>1, <1>2, <1>3, <1>4, <1>5, <1>6 DEF Step, AgentStep

-----------------------------------------------------------------------------
(***************************************************************************)
(* From the first state on.                                                *)
(***************************************************************************)
LEMMA FirstIs ==
    ASSUME Init
    PROVE  /\ obj.life = "live" /\ obj.gen = 1 /\ obj.flags = {} /\ obj = FirstObject
           /\ \A n \in Nodes :
                  /\ status[n].phase = "absent" /\ cache[n] = EmptyCache
                  /\ rec[n] = NoReconcile /\ job[n] = 0
                  /\ \A t \in TaskIds : tasks[n][t] = NoTask
<1>1. obj.life = "live" /\ obj.gen = 1 /\ obj.flags = {} /\ obj = FirstObject
  BY DEF Init, NoObject, FirstObject
<1>2. NoStatus.phase = "absent"
  BY DEF NoStatus
<1> QED BY <1>1, <1>2 DEF Init

LEMMA BaseInit == Init => OrderOK /\ StopOK
BY FirstIs, RestartedIs, NoTaskIs DEF OrderOK, OrderAt, StopOK, StopAt, TaskIds

LEMMA BaseInvariance == Spec => [](IInv /\ OrderOK /\ StopOK)
<1> DEFINE I == IInv /\ OrderOK /\ StopOK
<1>1. Init => I
  BY TypeInit, EntriesInit, FinalizerInit, BaseInit DEF IInv
<1>2. I /\ [Next]_vars => I'
  <2> SUFFICES ASSUME I, [Next]_vars PROVE I'
    OBVIOUS
  <2>1. IInv'
    BY TypeNext, EntriesNext, FinalizerNext DEF IInv
  <2>2. Types /\ Step
    BY TypesHold, StepsAre DEF IInv
  <2> QED BY <2>1, <2>2, OrderStep, StopStep
<1> QED BY <1>1, <1>2, PTL DEF Spec

LEMMA GoneInvariance ==
    ASSUME OneAgent
    PROVE  Spec => []GoneOK
<1>1. Init => GoneOK
  BY FirstIs DEF GoneOK, GoneAt, Exists
<1>2. IInv /\ OrderOK /\ StopOK /\ GoneOK /\ [Next]_vars => GoneOK'
  <2> SUFFICES ASSUME IInv, OrderOK, GoneOK, [Next]_vars PROVE GoneOK'
    OBVIOUS
  <2>1. Types /\ Step /\ FinalizerOK
    BY TypesHold, StepsAre DEF IInv
  <2> QED BY <2>1, GoneStep
<1> QED BY <1>1, <1>2, BaseInvariance, PTL DEF Spec

LEMMA SingleInvariance ==
    ASSUME OneGeneration
    PROVE  Spec => []SingleOK
<1>1. Init => SingleOK
  BY FirstIs, RestartedIs, NoTaskIs
     DEF SingleOK, FirstOnly, ReadFirst, SingleAt, Active
<1>2. IInv /\ OrderOK /\ StopOK /\ SingleOK /\ [Next]_vars => SingleOK'
  <2> SUFFICES ASSUME IInv, OrderOK, StopOK, SingleOK, [Next]_vars PROVE SingleOK'
    OBVIOUS
  <2>1. Types /\ Step
    BY TypesHold, StepsAre DEF IInv
  <2> QED BY <2>1, SingleStep
<1> QED BY <1>1, <1>2, BaseInvariance, PTL DEF Spec

LEMMA FinalInvariance ==
    ASSUME OneAgent, OneGeneration
    PROVE  Spec => []FinalOK
<1>1. Init => FinalOK
  BY FirstIs, RestartedIs, NoTaskIs
     DEF FinalOK, EntryAt, CacheAt, InitAt, DoneAt, Exists
<1>2. IInv /\ OrderOK /\ StopOK /\ SingleOK /\ FinalOK /\ [Next]_vars => FinalOK'
  <2> SUFFICES ASSUME IInv, OrderOK, StopOK, SingleOK, FinalOK, [Next]_vars
               PROVE FinalOK'
    OBVIOUS
  <2>1. Types /\ Step
    BY TypesHold, StepsAre DEF IInv
  <2> QED BY <2>1, FinalStep
<1> QED BY <1>1, <1>2, BaseInvariance, SingleInvariance, PTL DEF Spec

\* With one agent, a Command that is gone leaves no goroutine behind that has not been
\* told to stop, whatever was paused, deleted, restarted or failed before.
THEOREM AgentsStop ==
    ASSUME OneAgent
    PROVE  Spec => []GoneMeansStopped
<1>1. GoneOK /\ StopOK => GoneMeansStopped
  BY DEF GoneOK, GoneAt, StopOK, StopAt, GoneMeansStopped, TaskIds
<1> QED BY <1>1, BaseInvariance, GoneInvariance, PTL

\* As long as the spec of the Command is not changed, no node ever has two goroutines
\* that run commands, on any number of nodes and after any number of restarts.
THEOREM RunnersAlone ==
    ASSUME OneGeneration
    PROVE  Spec => []OneRunner
<1>1. SingleOK => OneRunner
  BY DEF SingleOK, SingleAt, Active, OneRunner
<1> QED BY <1>1, SingleInvariance, PTL

\* With one agent and an unchanged spec, a Completed entry stays Completed while the
\* Command exists: no requeue, stale cache, restart or late goroutine reopens it.
THEOREM CompletionStays ==
    ASSUME OneAgent, OneGeneration
    PROVE  Spec => CompletionIsFinal
<1>1. IInv /\ OrderOK /\ StopOK /\ SingleOK /\ FinalOK /\ [Next]_vars
          => [\A n \in Nodes : status[n].phase = "Completed" /\ Exists' =>
                  status'[n].phase = "Completed"]_vars
  <2> SUFFICES ASSUME IInv, OrderOK, SingleOK, FinalOK, [Next]_vars,
                      NEW n \in Nodes, status[n].phase = "Completed", Exists'
               PROVE  status'[n].phase = "Completed"
    OBVIOUS
  <2>1. Types /\ Step
    BY TypesHold, StepsAre DEF IInv
  <2> QED BY <2>1, FinalKept
<1> QED BY <1>1, BaseInvariance, SingleInvariance, FinalInvariance, PTL
        DEF Spec, CompletionIsFinal

-----------------------------------------------------------------------------
(***************************************************************************)
(* shouldReconcileCommand compares resource versions as strings.  As long  *)
(* as all have three digits that is their order as numbers.                *)
(***************************************************************************)
Hundreds == 100..999

ThreeDigits == Exists => obj.rv \in Hundreds

LEMMA DigitsAre ==
    \A v \in 100..999 : Digits(v) = <<v \div 100, (v \div 10) % 10, v % 10>>
BY DEF Digits

LEMMA DigitsValue ==
    \A v \in 100..999 :
        /\ v \div 100 \in 1..9 /\ (v \div 10) % 10 \in 0..9 /\ v % 10 \in 0..9
        /\ v = (100 * (v \div 100)) + (10 * ((v \div 10) % 10)) + (v % 10)
BY SMTT(60)

Decimal(v, a, b, c) ==
    /\ a \in 1..9 /\ b \in 0..9 /\ c \in 0..9
    /\ v = (100 * a) + (10 * b) + c
    /\ Digits(v) = <<a, b, c>>

LEMMA DigitsCompare ==
    ASSUME NEW a1, NEW b1, NEW c1, NEW a2, NEW b2, NEW c2, NEW v, NEW w,
           Decimal(v, a1, b1, c1), Decimal(w, a2, b2, c2), StringLeq(v, w)
    PROVE  v <= w
<1> DEFINE a == <<a1, b1, c1>>
           b == <<a2, b2, c2>>
<1>0. /\ a1 \in 1..9 /\ b1 \in 0..9 /\ c1 \in 0..9
      /\ a2 \in 1..9 /\ b2 \in 0..9 /\ c2 \in 0..9
      /\ v = (100 * a1) + (10 * b1) + c1
      /\ w = (100 * a2) + (10 * b2) + c2
      /\ Digits(v) = <<a1, b1, c1>> /\ Digits(w) = <<a2, b2, c2>>
  BY DEF Decimal
<1>1. \/ \E k \in 1..3 : a[k] < b[k] /\ \A j \in 1..(k-1) : a[j] = b[j]
      \/ \A j \in 1..3 : a[j] = b[j]
  BY <1>0 DEF StringLeq
<1>2. a[1] = a1 /\ a[2] = b1 /\ a[3] = c1 /\ b[1] = a2 /\ b[2] = b2 /\ b[3] = c2
  OBVIOUS
<1>3. CASE \A j \in 1..3 : a[j] = b[j]
  BY <1>0, <1>2, <1>3
<1>4. CASE \E k \in 1..3 : a[k] < b[k] /\ \A j \in 1..(k-1) : a[j] = b[j]
  <2>1. PICK k \in 1..3 : a[k] < b[k] /\ \A j \in 1..(k-1) : a[j] = b[j]
    BY <1>4
  <2>2. k = 1 \/ (k = 2 /\ a[1] = b[1]) \/ (k = 3 /\ a[1] = b[1] /\ a[2] = b[2])
    BY <2>1
  <2> HIDE DEF a, b
  <2>3. \/ a1 < a2
        \/ a1 = a2 /\ b1 < b2
        \/ a1 = a2 /\ b1 = b2 /\ c1 < c2
    BY <1>0, <1>2, <2>1, <2>2
  <2> QED BY <1>0, <2>3
<1> QED BY <1>1, <1>3, <1>4

LEMMA DecimalIs ==
    ASSUME NEW v \in Hundreds
    PROVE  Decimal(v, v \div 100, (v \div 10) % 10, v % 10)
<1>1. Digits(v) = <<v \div 100, (v \div 10) % 10, v % 10>>
  BY DigitsAre, ZenonT(30) DEF Hundreds
<1>2. /\ v \div 100 \in 1..9 /\ (v \div 10) % 10 \in 0..9 /\ v % 10 \in 0..9
      /\ v = (100 * (v \div 100)) + (10 * ((v \div 10) % 10)) + (v % 10)
  BY DigitsValue DEF Hundreds
<1> QED BY <1>1, <1>2, Zenon DEF Decimal

LEMMA StringOrder ==
    ASSUME NEW v \in Hundreds, NEW w \in Hundreds, StringLeq(v, w)
    PROVE  v <= w
BY DecimalIs, DigitsCompare, Zenon

(***************************************************************************)
(* No failed calls: an agent whose work queue is empty and whose cache     *)
(* shows a live Command holds a task for that spec, or the reconcile that  *)
(* runs has read just that spec and will see to it.  Whatever the agent    *)
(* knows of the Command is an earlier version of it.                       *)
(***************************************************************************)
\* k carries the generation and the resource version of o or of an earlier version.
Older(k, o) ==
    /\ k.rv \in Hundreds
    /\ k.gen <= o.gen /\ k.rv <= o.rv /\ (k.rv = o.rv => k.gen = o.gen)

VersionAt(n) ==
    Exists =>
      /\ cache[n].obj.life # "gone" => Older(cache[n].obj, obj)
      /\ rec[n].pc # "idle" => Older(rec[n].obj, obj)
      /\ \A t \in TaskIds : tasks[n][t].pc # "free" => Older(tasks[n][t], obj)

Handled(n) ==
    \/ "suspend" \in cache[n].obj.flags \/ cache[n].status[n].phase = "Completed"
    \/ job[n] # 0 /\ tasks[n][job[n]].gen >= cache[n].obj.gen

Handling(n) ==
    /\ rec[n].pc \in {"init", "finalizer", "decide"}
    /\ rec[n].obj = cache[n].obj
    /\ rec[n].st.phase = "Completed" => cache[n].status[n].phase = "Completed"

HandledAt(n) ==
    obj.life = "live" /\ cache[n].obj.life = "live" /\ n \notin queue =>
        Handled(n) \/ Handling(n)

ChangesOK == \A n \in Nodes : VersionAt(n) /\ HandledAt(n)

LEMMA VersionMoves ==
    ASSUME Types, [Next]_vars
    PROVE  Exists' => /\ Exists
                      /\ \/ SameApi
                         \/ obj'.gen >= obj.gen /\ obj'.rv > obj.rv
<1> DEFINE Moved == Exists' => /\ Exists
                               /\ \/ SameApi
                                  \/ obj'.gen >= obj.gen /\ obj'.rv > obj.rv
<1>t. obj \in Meta /\ obj.gen \in Nat /\ obj.rv \in Nat
  BY DEF Types, Meta
<1>0. SameApi => Moved
  BY DEF SameApi, Exists
<1>1. ASSUME NEW n \in Nodes, NEW st, WriteStatus(n, st) PROVE Moved
  BY <1>1, <1>t DEF WriteStatus, apiVars, SameApi, Exists, Meta
<1>2. ASSUME Vanish PROVE Moved
  BY <1>2 DEF Vanish, NoObject, Exists
<1>3. ASSUME RequestDelete PROVE Moved
  <2>1. CASE ~(Exists /\ "finalizer" \in obj.flags)
    BY <1>2, <1>3, <2>1 DEF RequestDelete
  <2>2. CASE (Exists /\ "finalizer" \in obj.flags) /\ obj.life = "deleting"
    BY <1>0, <1>3, <2>2 DEF RequestDelete, SameApi
  <2>3. CASE (Exists /\ "finalizer" \in obj.flags) /\ obj.life # "deleting"
    <3>1. obj' = [obj EXCEPT !.life = "deleting", !.gen = @ + 1, !.rv = @ + 1]
      BY <1>3, <2>3 DEF RequestDelete
    <3>2. obj'.gen = obj.gen + 1 /\ obj'.rv = obj.rv + 1
      BY <3>1, <1>t DEF Meta
    <3> QED BY <1>t, <2>3, <3>2
  <2> QED BY <2>1, <2>2, <2>3
<1>4. ASSUME ToggleSuspend PROVE Moved
  <2>1. obj'.gen = obj.gen + 1 /\ obj'.rv = obj.rv + 1 /\ Exists
    BY <1>4, <1>t DEF ToggleSuspend, Meta, Exists
  <2> QED BY <1>t, <2>1
<1>5. ASSUME NEW n \in Nodes, EnsureFinalizer(n) PROVE Moved
  <2>1. CASE obj' = obj
    BY <1>0, <1>5, <2>1 DEF EnsureFinalizer, SameApi
  <2>2. CASE obj' # obj
    <3>1. Exists /\ obj' = [obj EXCEPT !.flags = @ \cup {"finalizer"}, !.rv = @ + 1]
      BY <1>5, <2>2 DEF EnsureFinalizer
    <3>2. obj'.gen = obj.gen /\ obj'.rv = obj.rv + 1
      BY <3>1, <1>t DEF Meta
    <3> QED BY <1>t, <3>1, <3>2
  <2> QED BY <2>1, <2>2
<1> HIDE DEF Moved
<1>6. ASSUME NEW n \in Nodes, Reconcile(n) PROVE Moved
  BY <1>0, <1>1, <1>2, <1>5, <1>6
     DEF Reconcile, Fetch, InitStatus, CleanupTask, RemoveFinalizer, DecideNothing,
         DecideSuspend, SyncSuspend, CreateTask, StartTask, apiVars, SameApi
<1>7. ASSUME NEW n \in Nodes, NEW t \in TaskIds, Goroutine(n, t) \/ TaskFails(n, t)
      PROVE Moved
  BY <1>0, <1>1, <1>7
     DEF Goroutine, TaskFails, TaskStopped, TaskLoopEnds, TaskSkipsCompleted, TaskBegins,
         TaskExecutes, TaskSyncs, TaskFinalizes, TaskSettles, apiVars, SameApi
<1>8. ASSUME NEW n \in Nodes, \/ Deliver(n) \/ ReconcileFails(n) \/ ProcessTTL(n)
                              \/ TimerFires(n) \/ Restart(n)
      PROVE Moved
  BY <1>0, <1>3, <1>8 DEF Deliver, ReconcileFails, ProcessTTL, TimerFires, Restart, apiVars,
     SameApi
<1>9. ASSUME ManagerDelete PROVE Moved
  BY <1>3, <1>9 DEF ManagerDelete
<1>10. ASSUME UNCHANGED vars PROVE Moved
  BY <1>0, <1>10 DEF vars, SameApi
<1>11. Moved
  BY <1>4, <1>6, <1>7, <1>8, <1>9, <1>10 DEF Next
<1> QED BY <1>11 DEF Moved

\* shouldReconcileCommand drops an event only if the task is of its generation.
LEMMA DroppedIsKnown ==
    ASSUME NEW k, NEW o, k.gen \in Nat, o.gen \in Nat, o.rv \in Hundreds, Older(k, o),
           o.gen <= k.gen \/ StringLeq(o.rv, k.rv)
    PROVE  k.gen >= o.gen
<1>1. \A v, w \in Hundreds : v <= w /\ w <= v => v = w
  BY DEF Hundreds
<1>2. k.rv \in Hundreds /\ k.rv <= o.rv /\ (k.rv = o.rv => k.gen = o.gen)
  BY DEF Older
<1>3. CASE o.gen <= k.gen
  BY <1>3
<1>4. CASE StringLeq(o.rv, k.rv)
  <2>1. o.rv <= k.rv
    BY <1>2, <1>4, StringOrder, Zenon
  <2>2. k.rv = o.rv
    BY <1>1, <1>2, <2>1, Zenon
  <2> QED BY <1>2, <2>2
<1> QED BY <1>3, <1>4

LEMMA OlderSame ==
    ASSUME NEW k, NEW l, NEW o, l.gen = k.gen, l.rv = k.rv, Older(k, o)
    PROVE  Older(l, o)
BY DEF Older

\* A version that was seen stays an earlier version.
LEMMA OlderStays ==
    ASSUME Types, Types', [Next]_vars, Exists',
           NEW k, k.gen \in Nat, Older(k, obj)
    PROVE  Older(k, obj')
<1>1. /\ obj \in Meta /\ obj.gen \in Nat /\ obj.rv \in Nat
      /\ obj' \in Meta /\ obj'.gen \in Nat /\ obj'.rv \in Nat
  BY DEF Types, Meta
<1>2. \A g, v, o, w, p, x \in Nat :
         /\ g <= o /\ v <= w /\ (v = w => g = o)
         /\ \/ p = o /\ x = w
            \/ p >= o /\ x > w
         => g <= p /\ v <= x /\ (v = x => g = p)
  OBVIOUS
<1>3. \/ obj'.gen = obj.gen /\ obj'.rv = obj.rv
      \/ obj'.gen >= obj.gen /\ obj'.rv > obj.rv
  BY VersionMoves DEF SameApi
<1>4. k.rv \in Hundreds /\ k.rv \in Nat
  BY DEF Older, Hundreds
<1> QED BY <1>1, <1>2, <1>3, <1>4 DEF Older

\* What an agent knows of the Command it has read from the API server.
LEMMA Learns ==
    ASSUME Types, OrderOK, Step, NEW m \in Nodes
    PROVE  /\ \/ cache'[m].obj = cache[m].obj \/ cache'[m].obj.life = "gone"
              \/ cache'[m].obj = obj /\ obj' = obj
           /\ rec'[m].pc # "idle" =>
                \/ rec[m].pc # "idle" /\ rec'[m].obj = rec[m].obj
                \/ rec'[m].obj = cache[m].obj /\ cache[m].obj.life # "gone"
           /\ \A t \in TaskIds : tasks'[m][t].pc # "free" =>
                \/ /\ tasks[m][t].pc # "free"
                   /\ tasks'[m][t].gen = tasks[m][t].gen /\ tasks'[m][t].rv = tasks[m][t].rv
                \/ /\ rec[m].pc # "idle"
                   /\ tasks'[m][t].gen = rec[m].obj.gen /\ tasks'[m][t].rv = rec[m].obj.rv
<1> DEFINE G == /\ \/ cache'[m].obj = cache[m].obj \/ cache'[m].obj.life = "gone"
                   \/ cache'[m].obj = obj /\ obj' = obj
                /\ rec'[m].pc # "idle" =>
                     \/ rec[m].pc # "idle" /\ rec'[m].obj = rec[m].obj
                     \/ rec'[m].obj = cache[m].obj /\ cache[m].obj.life # "gone"
           K(t) == tasks'[m][t].pc # "free" =>
                \/ /\ tasks[m][t].pc # "free"
                   /\ tasks'[m][t].gen = tasks[m][t].gen /\ tasks'[m][t].rv = tasks[m][t].rv
                \/ /\ rec[m].pc # "idle"
                   /\ tasks'[m][t].gen = rec[m].obj.gen /\ tasks'[m][t].rv = rec[m].obj.rv
<1>m. OrderAt(m)
  BY DEF OrderOK
<1>t. \A u \in TaskIds :
        /\ SafeClose(tasks[m][u]).pc = tasks[m][u].pc
        /\ SafeClose(tasks[m][u]).gen = tasks[m][u].gen
        /\ SafeClose(tasks[m][u]).rv = tasks[m][u].rv
        /\ SuspendTask(tasks[m][u]).pc = tasks[m][u].pc
        /\ SuspendTask(tasks[m][u]).gen = tasks[m][u].gen
        /\ SuspendTask(tasks[m][u]).rv = tasks[m][u].rv
  <2>1. \A u \in TaskIds : tasks[m][u] \in Task
    BY DEF Types
  <2> QED BY <2>1, SafeCloseIs, SuspendTaskIs
<1>0. ASSUME SameAgent(m) PROVE G /\ \A t \in TaskIds : K(t)
  BY <1>0 DEF SameAgent
<1>1. ASSUME \/ DeliverStep(m) \/ FetchStep(m) \/ InitStep(m) \/ EnsureStep(m)
             \/ RemoveStep(m) \/ SyncSuspendStep(m) \/ FailStep(m)
      PROVE G /\ \A t \in TaskIds : K(t)
  <2>1. tasks'[m] = tasks[m]
    BY <1>1 DEF DeliverStep, FetchStep, InitStep, EnsureStep, RemoveStep,
       SyncSuspendStep, FailStep, SameTasks
  <2>2. G
    BY <1>1 DEF DeliverStep, FetchStep, InitStep, EnsureStep, RemoveStep,
       SyncSuspendStep, FailStep, Moves, SameApi
  <2> HIDE DEF G
  <2> QED BY <2>1, <2>2
<1>2. ASSUME CleanupStep(m) \/ DecideStep(m) PROVE G /\ \A t \in TaskIds : K(t)
  <2>1. G
    BY <1>2 DEF CleanupStep, DecideStep, Moves
  <2>2. \A t \in TaskIds : K(t)
    BY <1>2, <1>t DEF CleanupStep, DecideStep, SameTasks
  <2> QED BY <2>1, <2>2
<1>3. ASSUME CreateStep(m) PROVE G /\ \A t \in TaskIds : K(t)
  <2>1. G
    BY <1>3 DEF CreateStep
  <2>2. ASSUME NEW t \in TaskIds PROVE K(t)
    <3>1. CASE t = job'[m]
      BY <1>3, <3>1 DEF CreateStep
    <3>2. CASE t # job'[m]
      BY <1>3, <1>t, <3>2 DEF CreateStep
    <3> QED BY <3>1, <3>2
  <2> QED BY <2>1, <2>2
<1>4. ASSUME StartStep(m) PROVE G /\ \A t \in TaskIds : K(t)
  <2>1. G
    BY <1>4 DEF StartStep, Moves
  <2>2. ASSUME NEW t \in TaskIds PROVE K(t)
    BY <1>4, <1>m DEF StartStep, OrderAt
  <2> QED BY <2>1, <2>2
<1>5. ASSUME NEW u \in TaskIds, WorkStep(m, u) \/ SettleStep(m, u)
      PROVE G /\ \A t \in TaskIds : K(t)
  <2>1. G
    BY <1>5 DEF WorkStep, SettleStep
  <2>2. ASSUME NEW t \in TaskIds PROVE K(t)
    BY <1>5 DEF WorkStep, SettleStep
  <2> QED BY <2>1, <2>2
<1>6. ASSUME TTLStep(m) \/ RestartStep(m) PROVE G /\ \A t \in TaskIds : K(t)
  <2>1. G
    BY <1>6, RestartedIs DEF TTLStep, RestartStep
  <2>2. ASSUME NEW t \in TaskIds PROVE K(t)
    BY <1>6, NoTaskIs DEF TTLStep, RestartStep
  <2> QED BY <2>1, <2>2
<1>7. \A n \in Nodes : AgentStep(n) /\ n # m => SameAgent(m)
  BY OthersAside
<1>8. ToggleStep \/ DeleteStep \/ IdleStep => SameAgent(m)
  BY DEF ToggleStep, DeleteStep, IdleStep
<1>9. SameAgent(m) \/ AgentStep(m)
  BY <1>7, <1>8 DEF Step
<1> HIDE DEF G, K
<1>10. G /\ \A t \in TaskIds : K(t)
  BY <1>0, <1>1, <1>2, <1>3, <1>4, <1>5, <1>6, <1>9 DEF AgentStep
<1> QED BY <1>10 DEF G, K

LEMMA VersionStep ==
    ASSUME Types, Types', ThreeDigits, OrderOK, Step, [Next]_vars,
           \A n \in Nodes : VersionAt(n), NEW m \in Nodes
    PROVE  VersionAt(m)'
<1> SUFFICES ASSUME Exists'
             PROVE  /\ cache'[m].obj.life # "gone" => Older(cache'[m].obj, obj')
                    /\ rec'[m].pc # "idle" => Older(rec'[m].obj, obj')
                    /\ \A t \in TaskIds : tasks'[m][t].pc # "free" =>
                           Older(tasks'[m][t], obj')
  BY DEF VersionAt
<1>1. Exists
  BY VersionMoves
<1>2. /\ cache[m].obj.life # "gone" => Older(cache[m].obj, obj)
      /\ rec[m].pc # "idle" => Older(rec[m].obj, obj)
      /\ \A t \in TaskIds : tasks[m][t].pc # "free" => Older(tasks[m][t], obj)
  BY <1>1 DEF VersionAt
<1>3. /\ cache[m].obj.gen \in Nat /\ rec[m].obj.gen \in Nat /\ obj.gen \in Nat /\ obj.rv \in Nat
      /\ \A t \in TaskIds : tasks[m][t].gen \in Nat
  BY DEF Types, CacheEntry, Reconciler, Meta, Task
<1>4. Older(obj, obj)
  BY <1>1, <1>3 DEF Older, ThreeDigits
<1>5. /\ cache[m].obj.life # "gone" => Older(cache[m].obj, obj')
      /\ rec[m].pc # "idle" => Older(rec[m].obj, obj')
      /\ \A t \in TaskIds : tasks[m][t].pc # "free" => Older(tasks[m][t], obj')
  BY <1>2, <1>3, OlderStays
<1>6. cache'[m].obj.life # "gone" => Older(cache'[m].obj, obj')
  BY <1>4, <1>5, Learns
<1>7. rec'[m].pc # "idle" => Older(rec'[m].obj, obj')
  BY <1>5, Learns
<1>8. ASSUME NEW t \in TaskIds, tasks'[m][t].pc # "free"
      PROVE  Older(tasks'[m][t], obj')
  <2>1. CASE /\ tasks[m][t].pc # "free"
             /\ tasks'[m][t].gen = tasks[m][t].gen /\ tasks'[m][t].rv = tasks[m][t].rv
    BY <1>5, <2>1, OlderSame
  <2>2. CASE /\ rec[m].pc # "idle"
             /\ tasks'[m][t].gen = rec[m].obj.gen /\ tasks'[m][t].rv = rec[m].obj.rv
    BY <1>5, <2>2, OlderSame
  <2> QED BY <1>8, <2>1, <2>2, Learns
<1> QED BY <1>6, <1>7, <1>8

LEMMA HandledStep ==
    ASSUME MaxFailures = 0, failures \in Nat, Types, OrderOK, StopOK, ChangesOK, ThreeDigits,
           Step, NEW m \in Nodes
    PROVE  HandledAt(m)'
<1> SUFFICES ASSUME obj'.life = "live", cache'[m].obj.life = "live", m \notin queue'
             PROVE  Handled(m)' \/ Handling(m)'
  BY DEF HandledAt
<1>m. OrderAt(m) /\ StopAt(m) /\ VersionAt(m) /\ HandledAt(m)
  BY DEF OrderOK, StopOK, ChangesOK
<1>l. obj.life = "live" /\ Exists
  BY LifeMoves DEF Exists
<1>j. job[m] # 0 => job[m] \in TaskIds /\ tasks[m][job[m]] \in Task
  <2>1. job[m] # 0 => job[m] \in TaskIds
    BY CommandAssumption DEF Types, TaskIds
  <2> QED BY <2>1 DEF Types
<1>g. \A t \in TaskIds :
        /\ SafeClose(tasks[m][t]).gen = tasks[m][t].gen
        /\ SuspendTask(tasks[m][t]).gen = tasks[m][t].gen
  BY SafeCloseIs, SuspendTaskIs DEF Types
\* the cache and the tasks' generations stay: what was handled still is
<1>h. ASSUME Handled(m), cache'[m] = cache[m], job'[m] = job[m],
             \A t \in TaskIds : tasks'[m][t].gen = tasks[m][t].gen
      PROVE  Handled(m)'
  BY <1>h, <1>j DEF Handled
<1>k. m \notin queue /\ cache'[m] = cache[m] => Handled(m) \/ Handling(m)
  BY <1>m, <1>l DEF HandledAt
<1>0. CASE SameAgent(m)
  <2>1. Handled(m) => Handled(m)'
    BY <1>0, <1>h DEF SameAgent
  <2>2. Handling(m) => Handling(m)'
    BY <1>0 DEF SameAgent, Handling
  <2> QED BY <1>0, <1>k, <2>1, <2>2 DEF SameAgent
<1>1. CASE DeliverStep(m)
  <2> DEFINE k == tasks[m][job[m]]
  <2>1. ~ShouldReconcile(m, obj)
    BY <1>l, <1>1 DEF DeliverStep
  <2>2. job[m] # 0 /\ (obj.gen <= k.gen \/ StringLeq(obj.rv, k.rv))
    BY <2>1 DEF ShouldReconcile
  <2>3. Older(k, obj) /\ obj.rv \in Hundreds
    BY <1>m, <1>l, <1>j, <2>2 DEF StopAt, VersionAt, ThreeDigits
  <2>4. obj.gen \in Nat /\ k.gen \in Nat
    BY <1>j, <2>2 DEF Types, Meta, Task
  <2>5. k.gen >= obj.gen
    BY <2>2, <2>3, <2>4, DroppedIsKnown
  <2>6. job'[m] # 0 /\ tasks'[m][job'[m]].gen >= cache'[m].obj.gen
    BY <1>1, <2>2, <2>5 DEF DeliverStep, SameTasks
  <2> QED BY <2>6 DEF Handled
<1>2. CASE FetchStep(m)
  BY <1>2 DEF FetchStep, Handling
<1>3. CASE InitStep(m)
  <2>1. Handled(m) => Handled(m)'
    BY <1>3, <1>h DEF InitStep, Moves, SameTasks
  <2>2. Handling(m) => Handling(m)'
    BY <1>3 DEF InitStep, Moves, Handling
  <2> QED BY <1>3, <1>k, <2>1, <2>2 DEF InitStep, Moves, SameQueue
<1>4. CASE EnsureStep(m)
  <2>1. Handled(m) => Handled(m)'
    BY <1>4, <1>h DEF EnsureStep, Moves, SameTasks
  <2>2. Handling(m) => Handling(m)'
    BY <1>4, <1>l DEF EnsureStep, Moves, Handling
  <2> QED BY <1>4, <1>k, <2>1, <2>2 DEF EnsureStep, Moves, SameQueue
<1>5. CASE CleanupStep(m) \/ RemoveStep(m)
  BY <1>5, <1>m, <1>l DEF CleanupStep, RemoveStep, OrderAt
<1>6. CASE DecideStep(m)
  <2>1. Handled(m) => Handled(m)'
    <3>1. \A t \in TaskIds : tasks'[m][t].gen = tasks[m][t].gen
      BY <1>6, <1>g DEF DecideStep, SameTasks
    <3> QED BY <1>6, <1>h, <3>1 DEF DecideStep, Moves, SameTasks
  <2>2. Handling(m) => Handled(m)
    <3>1. SkipOldTask(m) => job[m] # 0 /\ rec[m].obj.gen <= tasks[m][job[m]].gen
      BY DEF SkipOldTask
    <3>2. rec[m].obj.gen \in Nat /\ (job[m] # 0 => tasks[m][job[m]].gen \in Nat)
      BY <1>j DEF Types, Reconciler, Meta, Task
    <3> QED BY <1>6, <3>1, <3>2 DEF DecideStep, Handled, Handling, Suspended
  <2> QED BY <1>6, <1>k, <2>1, <2>2 DEF DecideStep, Moves, SameQueue
<1>7. CASE SyncSuspendStep(m) \/ StartStep(m)
  <2>1. Handled(m) => Handled(m)'
    <3>1. \A t \in TaskIds : tasks'[m][t].gen = tasks[m][t].gen
      BY <1>7 DEF SyncSuspendStep, StartStep, SameTasks
    <3> QED BY <1>7, <1>h, <3>1 DEF SyncSuspendStep, StartStep, Moves, SameTasks
  <2>2. ~Handling(m)
    BY <1>7 DEF SyncSuspendStep, StartStep, Handling
  <2> QED BY <1>7, <1>k, <2>1, <2>2 DEF SyncSuspendStep, StartStep, Moves, SameQueue
<1>8. CASE CreateStep(m)
  <2>1. cache'[m] = cache[m] /\ m \notin queue
    BY <1>8 DEF CreateStep, SameQueue
  <2>2. CASE "suspend" \in cache[m].obj.flags \/ cache[m].status[m].phase = "Completed"
    BY <2>1, <2>2 DEF Handled
  <2>3. CASE job[m] # 0 /\ tasks[m][job[m]].gen >= cache[m].obj.gen
    <3>1. ~(rec[m].obj.gen <= tasks[m][job[m]].gen)
      BY <1>8, <2>3 DEF CreateStep, SkipOldTask
    <3>2. /\ rec[m].obj.gen \in Nat /\ cache[m].obj.gen \in Nat
          /\ tasks[m][job[m]].gen \in Nat
      BY <1>j, <2>3 DEF Types, Reconciler, CacheEntry, Meta, Task
    <3>3. rec[m].obj.gen >= cache[m].obj.gen
      BY <2>3, <3>1, <3>2
    <3>4. job'[m] # 0 /\ tasks'[m][job'[m]].gen >= cache'[m].obj.gen
      BY <1>8, <2>1, <3>3 DEF CreateStep, TaskIds
    <3> QED BY <3>4 DEF Handled
  <2>4. CASE Handling(m)
    <3>1. cache[m].obj.gen \in Nat
      BY DEF Types, CacheEntry, Meta
    <3>2. job'[m] # 0 /\ tasks'[m][job'[m]].gen >= cache'[m].obj.gen
      BY <1>8, <2>1, <2>4, <3>1 DEF CreateStep, TaskIds, Handling
    <3> QED BY <3>2 DEF Handled
  <2> QED BY <1>k, <2>1, <2>2, <2>3, <2>4 DEF Handled
<1>9. CASE FailStep(m)
  BY <1>9 DEF FailStep
<1>10. ASSUME NEW t \in TaskIds, WorkStep(m, t) \/ SettleStep(m, t)
       PROVE  Handled(m)' \/ Handling(m)'
  <2>1. \A u \in TaskIds : tasks'[m][u].gen = tasks[m][u].gen
    BY <1>10 DEF WorkStep, SettleStep
  <2>2. /\ cache'[m] = cache[m] /\ rec'[m] = rec[m] /\ job'[m] = job[m]
        /\ m \notin queue
    BY <1>10 DEF WorkStep, SettleStep, SameQueue
  <2>3. Handling(m) => Handling(m)'
    BY <2>2 DEF Handling
  <2> QED BY <1>h, <1>k, <2>1, <2>2, <2>3
<1>11. CASE TTLStep(m)
  <2>1. /\ cache'[m] = cache[m] /\ rec'[m] = rec[m] /\ job'[m] = job[m]
        /\ m \notin queue
        /\ \A u \in TaskIds : tasks'[m][u].gen = tasks[m][u].gen
    BY <1>11 DEF TTLStep, SameQueue
  <2>2. Handling(m) => Handling(m)'
    BY <2>1 DEF Handling
  <2> QED BY <1>h, <1>k, <2>1, <2>2
<1>12. CASE RestartStep(m)
  BY <1>12, RestartedIs DEF RestartStep
<1>13. \A n \in Nodes : AgentStep(n) /\ n # m => SameAgent(m)
  BY OthersAside
<1>14. ToggleStep \/ DeleteStep \/ IdleStep => SameAgent(m)
  BY DEF ToggleStep, DeleteStep, IdleStep
<1>15. SameAgent(m) \/ AgentStep(m)
  BY <1>13, <1>14 DEF Step
<1> QED BY <1>0, <1>1, <1>2, <1>3, <1>4, <1>5, <1>6, <1>7, <1>8, <1>9, <1>10, <1>11,
           <1>12, <1>15 DEF AgentStep

LEMMA ChangesInit == Init => ChangesOK
BY FirstIs, RestartedIs, NoTaskIs DEF ChangesOK, VersionAt, HandledAt

(***************************************************************************)
(* THEOREM: while the resource versions have three digits and no API call  *)
(* fails for good, SpecChangeHandled holds: shouldReconcileCommand and     *)
(* shouldSkipOldTask never drop the event or the reconcile that brings a   *)
(* spec the agent has not acted on.                                        *)
(***************************************************************************)
THEOREM SpecChangesHandled ==
    ASSUME MaxFailures = 0
    PROVE  Spec /\ []ThreeDigits => []SpecChangeHandled
<1> DEFINE I == IInv /\ OrderOK /\ StopOK
<1>1. Init => ChangesOK
  BY ChangesInit
<1>2. I /\ I' /\ ThreeDigits /\ ChangesOK /\ [Next]_vars => ChangesOK'
  <2> SUFFICES ASSUME I, I', ThreeDigits, ChangesOK, [Next]_vars, NEW m \in Nodes
               PROVE  VersionAt(m)' /\ HandledAt(m)'
    BY DEF ChangesOK
  <2>1. Types /\ Step /\ failures \in Nat
    BY TypesHold, StepsAre DEF IInv, TypeOK
  <2>2. Types'
    BY DEF IInv, TypeOK, Types
  <2>3. \A n \in Nodes : VersionAt(n)
    BY DEF ChangesOK
  <2>4. VersionAt(m)'
    BY <2>1, <2>2, <2>3, VersionStep
  <2>5. HandledAt(m)'
    BY <2>1, HandledStep
  <2> QED BY <2>4, <2>5
<1>3. I /\ ChangesOK => SpecChangeHandled
  <2> SUFFICES ASSUME I, ChangesOK, NEW n \in Nodes, obj.life = "live", cache[n].obj = obj,
                      n \notin queue, rec[n].pc = "idle"
               PROVE  \/ "suspend" \in obj.flags \/ cache[n].status[n].phase = "Completed"
                      \/ job[n] # 0 /\ tasks[n][job[n]].gen = obj.gen
    BY DEF SpecChangeHandled
  <2>1. Handled(n)
    BY DEF ChangesOK, HandledAt, Handling
  <2>2. CASE job[n] # 0 /\ tasks[n][job[n]].gen >= cache[n].obj.gen
    <3>1. job[n] \in TaskIds /\ tasks[n][job[n]].pc # "free"
      <4>1. job[n] \in TaskIds
        BY <2>2, CommandAssumption DEF IInv, TypeOK, TaskIds
      <4> QED BY <4>1 DEF StopOK, StopAt
    <3>2. tasks[n][job[n]].gen <= obj.gen
      <4>1. VersionAt(n) /\ Exists
        BY DEF ChangesOK, Exists
      <4>2. Older(tasks[n][job[n]], obj)
        BY <3>1, <4>1 DEF VersionAt
      <4> QED BY <4>2 DEF Older
    <3>3. obj.gen \in Nat /\ tasks[n][job[n]].gen \in Nat
      BY <3>1 DEF IInv, TypeOK, Meta, Task
    <3> QED BY <2>2, <3>2, <3>3
  <2> QED BY <2>1, <2>2 DEF Handled
<1> HIDE DEF I
<1>4. Spec => []I
  BY BaseInvariance DEF I
<1> QED BY <1>1, <1>2, <1>3, <1>4, PTL DEF Spec

-----------------------------------------------------------------------------
(***************************************************************************)
(* One pause and one resume.  Until the Command is resumed (Unresumed) the *)
(* agents create tasks for its first generation only, one at a time.       *)
(***************************************************************************)
OnePause == MaxGeneration <= 3

Paused(o) == "suspend" \in o.flags

\* A reconcile that has read o may create a task.
Fresh(o) == o.life = "live" /\ ~Paused(o)

SpecOK ==
    /\ obj.life = "live" => obj.gen \in 1..3 /\ (Paused(obj) <=> obj.gen = 2)
    /\ obj.life = "deleting" => "finalizer" \in obj.flags
    /\ Exists /\ Paused(obj) => obj.gen >= 2

\* The Command has neither been resumed nor deleted before the pause.
Unresumed == Exists /\ (Paused(obj) \/ (obj.life = "live" /\ obj.gen = 1))

\* The agent knows of nothing to create a task for.
Unread(n) ==
    /\ ~Fresh(obj) /\ ~Fresh(cache[n].obj)
    /\ rec[n].pc # "idle" => ~Fresh(rec[n].obj)

ReadAt(n) ==
    /\ Fresh(cache[n].obj) => cache[n].obj.gen = 1
    /\ cache[n].obj.life # "gone" /\ ~Fresh(cache[n].obj) => ~Fresh(obj)
    /\ rec[n].pc # "idle" =>
         /\ Fresh(rec[n].obj) => rec[n].obj.gen = 1
         /\ ~Fresh(rec[n].obj) => Unread(n)
         /\ rec[n].pc = "suspend" => ~Fresh(rec[n].obj)
         /\ rec[n].pc = "start" => Fresh(rec[n].obj)

LoneAt(n) ==
    /\ \A t \in TaskIds :
           /\ tasks[n][t].pc # "free" => tasks[n][t].gen = 1
           /\ Active(tasks[n][t]) => t = job[n] \/ (job[n] = 0 /\ Unread(n))
    /\ \A t, u \in TaskIds : Active(tasks[n][t]) /\ Active(tasks[n][u]) => t = u

(***************************************************************************)
(* An entry of phase Completed or Suspend means, wherever the node has it, *)
(* that no goroutine of the node will begin another command, and that none *)
(* is going to be started: there is a task, or whatever the agent may act  *)
(* on is paused, being deleted, or completed.                              *)
(***************************************************************************)
Final(p) == p \in {"Completed", "Suspend"}

Halted(n) ==
    \A t \in TaskIds : tasks[n][t].pc \in {"loop", "exec", "sync"} => Closed(tasks[n][t])

Quiet(o, p) == ~Fresh(o) \/ p = "Completed"

Ended(n) ==
    \/ Final(status[n].phase) \/ Final(cache[n].status[n].phase)
    \/ rec[n].pc # "idle" /\ Final(rec[n].st.phase)

Sealed(n) ==
    /\ Halted(n) /\ rec[n].pc # "start"
    /\ \/ job[n] # 0
       \/ /\ Quiet(obj, status[n].phase)
          /\ Quiet(cache[n].obj, cache[n].status[n].phase)
          /\ rec[n].pc # "idle" => Quiet(rec[n].obj, rec[n].st.phase)

SealAt(n) == Ended(n) => Sealed(n)

\* What is going to be written, and who has written Suspend.
WriterAt(n) ==
    /\ \A t \in TaskIds : tasks[n][t].pc \in {"loop", "exec", "sync", "final"} =>
           ~Final(tasks[n][t].st.phase)
    /\ status[n].phase = "Suspend" => Paused(obj)
    /\ cache[n].status[n].phase = "Suspend" => Paused(obj)
    /\ rec[n].pc # "idle" /\ rec[n].st.phase = "Suspend" => Paused(obj)

EraAt(n) == ReadAt(n) /\ LoneAt(n) /\ WriterAt(n) /\ SealAt(n)

EraOK == SpecOK /\ (Unresumed => \A n \in Nodes : EraAt(n))

LEMMA SpecMoves ==
    ASSUME Types, Step, [Next]_vars, Exists'
    PROVE  /\ Exists
           /\ \/ /\ obj'.life = obj.life /\ obj'.gen = obj.gen
                 /\ Paused(obj') <=> Paused(obj)
                 /\ "finalizer" \in obj.flags => "finalizer" \in obj'.flags
              \/ /\ obj.life = "live" /\ obj'.life = "live" /\ obj.gen < MaxGeneration
                 /\ obj'.gen = obj.gen + 1 /\ (Paused(obj') <=> ~Paused(obj))
              \/ /\ obj'.life = "deleting" /\ obj'.gen >= obj.gen
                 /\ Paused(obj') <=> Paused(obj)
                 /\ "finalizer" \in obj'.flags
<1> DEFINE Same == /\ obj'.life = obj.life /\ obj'.gen = obj.gen
                   /\ Paused(obj') <=> Paused(obj)
                   /\ "finalizer" \in obj.flags => "finalizer" \in obj'.flags
<1>1. Exists
  BY LifeMoves DEF Exists
<1>2. \A n \in Nodes : \A p : Wrote(n, p) => Same
  BY <1>1 DEF Wrote, SameMeta, Paused
<1>3. SameApi => Same
  BY DEF SameApi, Paused
<1>4. ~Vanishes
  BY DEF Vanishes, NoObject, Exists
<1>5. ASSUME NEW n \in Nodes, EnsureStep(n) PROVE Same
  BY <1>5 DEF EnsureStep, Paused
<1> HIDE DEF Same
<1>6. ASSUME NEW n \in Nodes, AgentStep(n) PROVE Same
  BY <1>2, <1>3, <1>4, <1>5, <1>6
     DEF AgentStep, DeliverStep, FetchStep, InitStep, CleanupStep, RemoveStep,
         DecideStep, SyncSuspendStep, CreateStep, StartStep, FailStep, WorkStep,
         SettleStep, TTLStep, RestartStep
<1>7. ToggleStep => /\ obj.life = "live" /\ obj'.life = "live" /\ obj.gen < MaxGeneration
                    /\ obj'.gen = obj.gen + 1 /\ (Paused(obj') <=> ~Paused(obj))
  BY DEF ToggleStep, Paused
<1>8. obj'.gen >= obj.gen
  BY VersionMoves DEF SameApi, Types, Meta
<1>9. DeleteStep => /\ obj'.life = "deleting" /\ (Paused(obj') <=> Paused(obj))
                    /\ "finalizer" \in obj'.flags
  BY <1>4 DEF DeleteStep, Paused
<1>10. IdleStep => Same
  BY <1>3 DEF IdleStep
<1>11. Same \/ ToggleStep \/ DeleteStep
  BY <1>6, <1>10 DEF Step
<1> QED BY <1>1, <1>7, <1>8, <1>9, <1>11 DEF Same

\* What a step may do to the object when it is not the resumption.
EraMove ==
    /\ Exists /\ Exists'
    /\ Fresh(obj) => obj.gen = 1
    /\ Fresh(obj') => Fresh(obj)
    /\ ~Fresh(obj) => Paused(obj)
    /\ Paused(obj) => Paused(obj')

\* There is no way back to the first generation, nor out of the pause.
LEMMA SpecStep ==
    ASSUME OnePause, Types, Types', SpecOK, Step, [Next]_vars
    PROVE  SpecOK' /\ (Unresumed' => Unresumed /\ EraMove)
<1>1. CASE ~Exists'
  BY <1>1 DEF SpecOK, Exists, Unresumed
<1>2. CASE Exists'
  <2>1. obj.gen \in Nat /\ obj'.gen \in Nat /\ MaxGeneration \in Nat
    BY CommandAssumption DEF Types, Meta
  <2>2. Exists
    BY <1>2, SpecMoves
  <2>3. obj.life \in {"live", "deleting"} /\ obj'.life \in {"live", "deleting"}
    BY <1>2, <2>2 DEF Types, Meta, Exists
  <2>4. CASE /\ obj'.life = obj.life /\ obj'.gen = obj.gen
             /\ Paused(obj') <=> Paused(obj)
             /\ "finalizer" \in obj.flags => "finalizer" \in obj'.flags
    BY <1>2, <2>2, <2>3, <2>4 DEF SpecOK, Unresumed, Fresh, EraMove
  <2>5. CASE /\ obj.life = "live" /\ obj'.life = "live" /\ obj.gen < MaxGeneration
             /\ obj'.gen = obj.gen + 1 /\ (Paused(obj') <=> ~Paused(obj))
    <3>1. obj.gen \in 1..2 /\ (Paused(obj) <=> obj.gen = 2)
      BY <2>1, <2>5 DEF SpecOK, OnePause
    <3> QED BY <1>2, <2>1, <2>2, <2>5, <3>1 DEF SpecOK, Unresumed, Fresh, EraMove
  <2>6. CASE /\ obj'.life = "deleting" /\ obj'.gen >= obj.gen
             /\ Paused(obj') <=> Paused(obj)
             /\ "finalizer" \in obj'.flags
    BY <1>2, <2>1, <2>2, <2>3, <2>6 DEF SpecOK, Unresumed, Fresh, EraMove
  <2> QED BY <1>2, <2>4, <2>5, <2>6, SpecMoves
<1> QED BY <1>1, <1>2

\* While the Command exists, nobody else touches an agent or its status entry.
LEMMA Bystander ==
    ASSUME Types, Step, Exists, Exists', NEW m \in Nodes
    PROVE  AgentStep(m) \/ (SameAgent(m) /\ status'[m] = status[m])
<1>1. ~Vanishes
  BY DEF Vanishes, NoObject, Exists
<1>2. ASSUME NEW n \in Nodes, NEW p, Wrote(n, p), n # m PROVE status'[m] = status[m]
  BY <1>2 DEF Wrote
<1>3. ASSUME NEW n \in Nodes, AgentStep(n), n # m PROVE status'[m] = status[m]
  BY <1>1, <1>2, <1>3
     DEF AgentStep, DeliverStep, FetchStep, InitStep, EnsureStep, CleanupStep, RemoveStep,
         DecideStep, SyncSuspendStep, CreateStep, StartStep, FailStep, WorkStep,
         SettleStep, TTLStep, RestartStep, SameApi
<1>4. ToggleStep \/ DeleteStep \/ IdleStep => SameAgent(m) /\ status'[m] = status[m]
  BY <1>1 DEF ToggleStep, DeleteStep, IdleStep, SameApi
<1> QED BY <1>3, <1>4, OthersAside DEF Step

LEMMA ReadStep ==
    ASSUME Types, OrderOK, Step, EraMove, NEW m \in Nodes, ReadAt(m)
    PROVE  ReadAt(m)'
<1>m. OrderAt(m)
  BY DEF OrderOK
<1>e. /\ Fresh(obj) => obj.gen = 1
      /\ ~Fresh(obj) => ~Fresh(obj')
  BY DEF EraMove
<1>f. NoObject.life = "gone" /\ ~Fresh(NoObject)
  BY DEF NoObject, Fresh
<1>0. CASE SameAgent(m)
  BY <1>e, <1>0 DEF ReadAt, Unread, SameAgent
<1>1. CASE DeliverStep(m)
  BY <1>e, <1>1 DEF ReadAt, Unread, DeliverStep, SameApi
<1>2. CASE FetchStep(m)
  BY <1>e, <1>2 DEF ReadAt, Unread, FetchStep, SameApi
<1>3. CASE InitStep(m) \/ EnsureStep(m) \/ CleanupStep(m) \/ RemoveStep(m)
           \/ SyncSuspendStep(m) \/ StartStep(m) \/ FailStep(m)
  BY <1>e, <1>3 DEF ReadAt, Unread, InitStep, EnsureStep, CleanupStep, RemoveStep,
     SyncSuspendStep, StartStep, FailStep, Moves
<1>4. CASE DecideStep(m)
  BY <1>e, <1>4 DEF ReadAt, Unread, DecideStep, Moves, Suspended, Fresh, Paused
<1>5. CASE CreateStep(m)
  <2>1. Fresh(rec[m].obj)
    BY <1>m, <1>5 DEF OrderAt, CreateStep, Suspended, Fresh, Paused
  <2> QED BY <1>e, <1>5, <2>1 DEF ReadAt, Unread, CreateStep
<1>6. CASE TTLStep(m) \/ \E t \in TaskIds : WorkStep(m, t) \/ SettleStep(m, t)
  BY <1>e, <1>6 DEF ReadAt, Unread, TTLStep, WorkStep, SettleStep
<1>7. CASE RestartStep(m)
  BY <1>f, <1>7 DEF ReadAt, RestartStep, EmptyCache, NoReconcile
<1> QED BY <1>0, <1>1, <1>2, <1>3, <1>4, <1>5, <1>6, <1>7, Bystander
        DEF AgentStep, EraMove

LEMMA UnreadStays ==
    ASSUME Types, Step, EraMove, NEW m \in Nodes, Unread(m)
    PROVE  Unread(m)'
<1>e. ~Fresh(obj) /\ ~Fresh(obj')
  BY DEF EraMove, Unread
<1>f. ~Fresh(NoObject)
  BY DEF NoObject, Fresh
<1>0. CASE SameAgent(m)
  BY <1>e, <1>0 DEF Unread, SameAgent
<1>1. CASE DeliverStep(m)
  BY <1>e, <1>1 DEF Unread, DeliverStep
<1>2. CASE FetchStep(m)
  BY <1>e, <1>2 DEF Unread, FetchStep
<1>3. CASE InitStep(m) \/ EnsureStep(m) \/ CleanupStep(m) \/ RemoveStep(m)
           \/ SyncSuspendStep(m) \/ StartStep(m) \/ FailStep(m) \/ DecideStep(m)
  BY <1>e, <1>3 DEF Unread, InitStep, EnsureStep, CleanupStep, RemoveStep,
     SyncSuspendStep, StartStep, FailStep, DecideStep, Moves
<1>4. CASE CreateStep(m)
  BY <1>e, <1>4 DEF Unread, CreateStep
<1>5. CASE TTLStep(m) \/ \E t \in TaskIds : WorkStep(m, t) \/ SettleStep(m, t)
  BY <1>e, <1>5 DEF Unread, TTLStep, WorkStep, SettleStep
<1>6. CASE RestartStep(m)
  BY <1>e, <1>f, <1>6 DEF Unread, RestartStep, EmptyCache, NoReconcile
<1> QED BY <1>0, <1>1, <1>2, <1>3, <1>4, <1>5, <1>6, Bystander DEF AgentStep, EraMove

\* Again a task is created when there is none to replace.
LEMMA CreatesFirst ==
    ASSUME Types, OrderOK, StopOK, NEW m \in Nodes, ReadAt(m), LoneAt(m), CreateStep(m)
    PROVE  /\ Fresh(rec[m].obj) /\ rec[m].obj.gen = 1 /\ job[m] = 0
           /\ \A u \in TaskIds : ~Active(tasks[m][u])
<1>m. OrderAt(m) /\ StopAt(m)
  BY DEF OrderOK, StopOK
<1>z. 0 \notin TaskIds /\ (job[m] # 0 => job[m] \in TaskIds)
  BY DEF TaskIds, Types
<1>1. Fresh(rec[m].obj) /\ rec[m].obj.gen = 1 /\ ~Unread(m)
  BY <1>m DEF OrderAt, ReadAt, CreateStep, Suspended, Fresh, Paused, Unread
<1>2. job[m] = 0
  <2> SUFFICES ASSUME job[m] # 0 PROVE FALSE
    OBVIOUS
  <2>1. tasks[m][job[m]].gen = 1
    BY <1>m, <1>z DEF StopAt, LoneAt
  <2> QED BY <1>1, <2>1 DEF CreateStep, SkipOldTask
<1>3. \A u \in TaskIds : ~Active(tasks[m][u])
  BY <1>z, <1>1, <1>2 DEF LoneAt
<1> QED BY <1>1, <1>2, <1>3

LEMMA LoneStep ==
    ASSUME Types, OrderOK, StopOK, Step, EraMove, NEW m \in Nodes, ReadAt(m), LoneAt(m)
    PROVE  LoneAt(m)'
<1>m. OrderAt(m) /\ StopAt(m)
  BY DEF OrderOK, StopOK
<1>v. Unread(m) => Unread(m)'
  BY UnreadStays
<1>t. \A u \in TaskIds : tasks[m][u] \in Task
  BY DEF Types
<1>z. 0 \notin TaskIds /\ (job[m] # 0 => job[m] \in TaskIds)
  BY DEF TaskIds, Types
\* no task is created, and the task of the table stays or there is nothing to read
<1>k. ASSUME \A u \in TaskIds : /\ tasks'[m][u].pc # "free" => tasks[m][u].pc # "free"
                                /\ Active(tasks'[m][u]) => Active(tasks[m][u])
                                /\ tasks'[m][u].gen = tasks[m][u].gen,
             job'[m] = job[m] \/ (job'[m] = 0 /\ Unread(m))
      PROVE  LoneAt(m)'
  <2>1. \A u \in TaskIds : Active(tasks'[m][u]) =>
            u = job'[m] \/ (job'[m] = 0 /\ Unread(m)')
    BY <1>k, <1>v, <1>z DEF LoneAt
  <2> QED BY <1>k, <2>1 DEF LoneAt
<1>0. ASSUME SameTasks(m) PROVE LoneAt(m)'
  BY <1>0, <1>k DEF SameTasks
<1>1. CASE SameAgent(m)
  BY <1>0, <1>1 DEF SameAgent, SameTasks
<1>2. CASE CleanupStep(m)
  <2>1. \A u \in TaskIds : /\ SafeClose(tasks[m][u]).pc = tasks[m][u].pc
                           /\ SafeClose(tasks[m][u]).gen = tasks[m][u].gen
    BY <1>t, SafeCloseIs
  <2>2. Unread(m)
    BY <1>2 DEF CleanupStep, ReadAt, Fresh
  <2>3. \A u \in TaskIds : /\ tasks'[m][u].pc = tasks[m][u].pc
                           /\ tasks'[m][u].gen = tasks[m][u].gen
    BY <1>2, <2>1 DEF CleanupStep, SameTasks
  <2>4. job'[m] = job[m] \/ job'[m] = 0
    BY <1>2 DEF CleanupStep, SameTasks
  <2> QED BY <1>k, <2>2, <2>3, <2>4 DEF Active
<1>3. CASE DecideStep(m)
  <2>1. \A u \in TaskIds : /\ SuspendTask(tasks[m][u]).pc = tasks[m][u].pc
                           /\ SuspendTask(tasks[m][u]).gen = tasks[m][u].gen
    BY <1>t, SuspendTaskIs
  <2>2. \A u \in TaskIds : /\ tasks'[m][u].pc = tasks[m][u].pc
                           /\ tasks'[m][u].gen = tasks[m][u].gen
    BY <1>3, <2>1 DEF DecideStep, SameTasks
  <2>3. job'[m] = job[m]
    BY <1>3 DEF DecideStep, SameTasks
  <2> QED BY <1>k, <2>2, <2>3 DEF Active
<1>4. CASE CreateStep(m)
  <2>1. /\ rec[m].obj.gen = 1 /\ job[m] = 0
        /\ \A u \in TaskIds : ~Active(tasks[m][u])
    BY <1>4, CreatesFirst
  <2>2. \A u \in TaskIds : u # job'[m] => tasks'[m][u] = tasks[m][u]
    BY <1>4, <1>z, <2>1 DEF CreateStep
  <2>3. tasks'[m][job'[m]].gen = 1 /\ job'[m] \in TaskIds
    BY <1>4, <2>1 DEF CreateStep
  <2> QED BY <2>1, <2>2, <2>3 DEF LoneAt
<1>5. CASE StartStep(m)
  <2>1. rec[m].task \in TaskIds /\ tasks[m][rec[m].task].pc = "created"
    BY <1>m, <1>5 DEF OrderAt, StartStep
  <2>2. \A u \in TaskIds : /\ tasks'[m][u].pc # "free" => tasks[m][u].pc # "free"
                           /\ Active(tasks'[m][u]) => Active(tasks[m][u])
                           /\ tasks'[m][u].gen = tasks[m][u].gen
    BY <1>5, <2>1 DEF StartStep, Active
  <2> QED BY <1>5, <1>k, <2>2 DEF StartStep
<1>6. ASSUME NEW t \in TaskIds, WorkStep(m, t) \/ SettleStep(m, t) PROVE LoneAt(m)'
  <2>1. \A u \in TaskIds : /\ tasks'[m][u].pc # "free" => tasks[m][u].pc # "free"
                           /\ Active(tasks'[m][u]) => Active(tasks[m][u])
                           /\ tasks'[m][u].gen = tasks[m][u].gen
    BY <1>6 DEF WorkStep, SettleStep, Active
  <2>2. job'[m] = job[m]
    BY <1>6 DEF WorkStep, SettleStep
  <2> QED BY <1>k, <2>1, <2>2
<1>7. CASE TTLStep(m)
  <2>1. job'[m] = job[m]
    BY <1>m, <1>7, <1>z DEF TTLStep, OrderAt, EraMove, Exists
  <2>2. \A u \in TaskIds : /\ tasks'[m][u].pc = tasks[m][u].pc
                           /\ tasks'[m][u].gen = tasks[m][u].gen
    BY <1>7 DEF TTLStep
  <2> QED BY <1>k, <2>1, <2>2 DEF Active
<1>8. CASE RestartStep(m)
  BY <1>8, NoTaskIs DEF LoneAt, RestartStep, Active
<1>9. CASE AgentStep(m)
  BY <1>0, <1>2, <1>3, <1>4, <1>5, <1>6, <1>7, <1>8, <1>9
     DEF AgentStep, DeliverStep, FetchStep, InitStep, EnsureStep, RemoveStep,
         SyncSuspendStep, FailStep
<1> QED BY <1>1, <1>9, Bystander DEF EraMove

LEMMA RestartedStatus ==
    /\ EmptyCache.obj.life = "gone" /\ ~Fresh(EmptyCache.obj)
    /\ \A n \in Nodes : EmptyCache.status[n].phase = "absent"
    /\ NoReconcile.pc = "idle"
BY DEF EmptyCache, NoObject, NoStatus, NoReconcile, Fresh

\* A reconcile that suspends has read the pause.
LEMMA SuspendsPaused ==
    ASSUME EraMove, NEW m \in Nodes, ReadAt(m), rec[m].pc = "decide", Suspended(m)
    PROVE  ~Fresh(rec[m].obj) /\ Unread(m) /\ Paused(obj)
BY DEF ReadAt, Suspended, Fresh, Paused, Unread, EraMove

LEMMA WriterStep ==
    ASSUME Types, OrderOK, Step, EraMove, NEW m \in Nodes, EraAt(m)
    PROVE  WriterAt(m)'
<1>m. OrderAt(m) /\ WriterAt(m)
  BY DEF OrderOK, EraAt
<1>e. Exists /\ Exists' /\ (Paused(obj) => Paused(obj'))
  BY DEF EraMove
<1>t. \A u \in TaskIds : tasks[m][u] \in Task
  BY DEF Types
<1> DEFINE Writing(k) == k.pc \in {"loop", "exec", "sync", "final"} => ~Final(k.st.phase)
\* the tasks' copies stay, and no entry becomes one of phase Suspend
<1>k. ASSUME \A u \in TaskIds : Writing(tasks'[m][u]),
             status'[m].phase = "Suspend" => Paused(obj),
             cache'[m].status[m].phase = "Suspend" => Paused(obj),
             rec'[m].pc # "idle" /\ rec'[m].st.phase = "Suspend" => Paused(obj)
      PROVE  WriterAt(m)'
  BY <1>e, <1>k DEF WriterAt
<1>w. \A u \in TaskIds : Writing(tasks[m][u])
  BY <1>m DEF WriterAt
<1>p. /\ status[m].phase = "Suspend" => Paused(obj)
      /\ cache[m].status[m].phase = "Suspend" => Paused(obj)
      /\ rec[m].pc # "idle" /\ rec[m].st.phase = "Suspend" => Paused(obj)
  BY <1>m DEF WriterAt
<1>0. CASE SameAgent(m) /\ status'[m] = status[m]
  BY <1>0, <1>k, <1>w, <1>p DEF SameAgent
<1>1. CASE DeliverStep(m)
  BY <1>1, <1>k, <1>w, <1>p DEF DeliverStep, SameApi, SameTasks
<1>2. CASE FetchStep(m)
  BY <1>2, <1>k, <1>w, <1>p DEF FetchStep, SameApi, SameTasks
<1>3. CASE InitStep(m) \/ SyncSuspendStep(m)
  BY <1>3, <1>k, <1>w, <1>p, <1>e DEF InitStep, SyncSuspendStep, Wrote, Moves, SameTasks
<1>4. CASE EnsureStep(m) \/ FailStep(m)
  BY <1>4, <1>k, <1>w, <1>p DEF EnsureStep, FailStep, Moves, SameApi, SameTasks
<1>5. CASE RemoveStep(m)
  <2>1. ~Vanishes
    BY <1>e DEF Vanishes, NoObject, Exists
  <2> QED BY <1>5, <1>k, <1>w, <1>p, <2>1 DEF RemoveStep, Moves, SameApi, SameTasks
<1>6. CASE CleanupStep(m)
  <2>1. \A u \in TaskIds : /\ SafeClose(tasks[m][u]).pc = tasks[m][u].pc
                           /\ SafeClose(tasks[m][u]).st = tasks[m][u].st
    BY <1>t, SafeCloseIs
  <2>2. \A u \in TaskIds : Writing(tasks'[m][u])
    BY <1>6, <1>w, <2>1 DEF CleanupStep, SameTasks
  <2> QED BY <1>6, <1>k, <1>p, <2>2 DEF CleanupStep, Moves, SameApi
<1>7. CASE DecideStep(m)
  <2>1. \A u \in TaskIds : /\ SuspendTask(tasks[m][u]).pc = tasks[m][u].pc
                           /\ SuspendTask(tasks[m][u]).st = tasks[m][u].st
    BY <1>t, SuspendTaskIs
  <2>2. \A u \in TaskIds : Writing(tasks'[m][u])
    BY <1>7, <1>w, <2>1 DEF DecideStep, SameTasks
  <2>3. Suspended(m) => Paused(obj)
    BY <1>7, SuspendsPaused DEF EraAt, DecideStep
  <2>4. rec'[m].pc # "idle" /\ rec'[m].st.phase = "Suspend" => Paused(obj)
    BY <1>7, <2>3 DEF DecideStep, Moves
  <2> QED BY <1>7, <1>k, <1>p, <2>2, <2>4 DEF DecideStep, Moves, SameApi
<1>8. CASE CreateStep(m)
  <2>1. \A u \in TaskIds : /\ SafeClose(tasks[m][u]).pc = tasks[m][u].pc
                           /\ SafeClose(tasks[m][u]).st = tasks[m][u].st
    BY <1>t, SafeCloseIs
  <2>2. ASSUME NEW u \in TaskIds PROVE Writing(tasks'[m][u])
    <3>1. CASE u = job'[m]
      BY <1>8, <3>1 DEF CreateStep
    <3>2. CASE u # job'[m]
      BY <1>8, <1>w, <2>1, <3>2 DEF CreateStep
    <3> QED BY <3>1, <3>2
  <2> QED BY <1>8, <1>k, <1>p, <2>2 DEF CreateStep, SameApi
<1>9. CASE StartStep(m)
  <2>1. ~Final(rec[m].st.phase)
    BY <1>9 DEF StartStep, EraAt, SealAt, Ended, Sealed
  <2>2. \A u \in TaskIds : Writing(tasks'[m][u])
    BY <1>9, <1>w, <2>1 DEF StartStep
  <2> QED BY <1>9, <1>k, <1>p, <1>e, <2>2 DEF StartStep, Moves, Wrote
<1>10. ASSUME NEW t \in TaskIds, WorkStep(m, t) PROVE WriterAt(m)'
  <2>1. \A u \in TaskIds : Writing(tasks'[m][u])
    BY <1>10, <1>w DEF WorkStep
  <2>2. status'[m].phase # "Suspend" \/ status'[m] = status[m]
    <3>1. tasks[m][t].pc = "sync" => tasks[m][t].st.phase # "Suspend"
      BY <1>w DEF Final
    <3>2. tasks'[m][t].pc = "settle" => tasks'[m][t].st.phase # "Suspend"
      BY <1>10 DEF WorkStep
    <3> QED BY <1>10, <1>e, <3>1, <3>2 DEF WorkStep, SameApi, Wrote
  <2> QED BY <1>10, <1>k, <1>p, <2>1, <2>2 DEF WorkStep
<1>11. ASSUME NEW t \in TaskIds, SettleStep(m, t) PROVE WriterAt(m)'
  <2>1. \A u \in TaskIds : Writing(tasks'[m][u])
    BY <1>11, <1>w DEF SettleStep
  <2> QED BY <1>11, <1>k, <1>p, <2>1 DEF SettleStep, SameApi
<1>12. CASE TTLStep(m)
  <2>1. \A u \in TaskIds : Writing(tasks'[m][u])
    BY <1>12, <1>w DEF TTLStep
  <2> QED BY <1>12, <1>k, <1>p, <2>1 DEF TTLStep, SameApi
<1>13. CASE RestartStep(m)
  BY <1>13, <1>k, <1>p, RestartedStatus, NoTaskIs DEF RestartStep, SameApi
<1> QED BY <1>e, <1>0, <1>1, <1>2, <1>3, <1>4, <1>5, <1>6, <1>7, <1>8, <1>9, <1>10,
           <1>11, <1>12, <1>13, Bystander DEF AgentStep

\* cleanupTask and handleSuspend stop the task of the table; no other runs on.
LEMMA Halts ==
    ASSUME Types, StopOK, NEW m \in Nodes,
           \/ CleanupStep(m) /\ rec'[m].pc = "unfinalize"
           \/ DecideStep(m) /\ rec'[m].pc = "suspend"
    PROVE  Halted(m)'
<1>1. StopAt(m) /\ 0 \notin TaskIds
  BY DEF StopOK, TaskIds
<1>2. \A u \in TaskIds : tasks[m][u] \in Task
  BY DEF Types
<1>3. \A u \in TaskIds :
        /\ SafeClose(tasks[m][u]).pc = tasks[m][u].pc
        /\ SafeClose(tasks[m][u]).flags = tasks[m][u].flags \cup {"closed"}
        /\ SuspendTask(tasks[m][u]).pc = tasks[m][u].pc
        /\ SuspendTask(tasks[m][u]).flags = tasks[m][u].flags \cup {"closed"}
  BY <1>2, SafeCloseIs, SuspendTaskIs
<1>4. ASSUME NEW u \in TaskIds, tasks[m][u].pc \in {"loop", "exec", "sync"}
      PROVE  u = job[m] \/ Closed(tasks[m][u])
  BY <1>1, <1>4 DEF StopAt
<1>5. ASSUME NEW u \in TaskIds
      PROVE  /\ tasks'[m][u].pc = tasks[m][u].pc
             /\ tasks'[m][u].flags = tasks[m][u].flags \cup {"closed"}
                \/ (u # job[m] /\ tasks'[m][u] = tasks[m][u])
  BY <1>1, <1>3 DEF CleanupStep, DecideStep, Moves, SameTasks
<1> QED BY <1>4, <1>5 DEF Halted, Closed

\* No goroutine becomes one that may begin a command, unless it is started.
LEMMA HaltedStays ==
    ASSUME Types, Step, EraMove, NEW m \in Nodes, Halted(m), ~StartStep(m)
    PROVE  Halted(m)'
<1>2. \A u \in TaskIds : tasks[m][u] \in Task
  BY DEF Types
<1>3. \A u \in TaskIds :
        /\ SafeClose(tasks[m][u]).pc = tasks[m][u].pc
        /\ SafeClose(tasks[m][u]).flags = tasks[m][u].flags \cup {"closed"}
        /\ SuspendTask(tasks[m][u]).pc = tasks[m][u].pc
        /\ SuspendTask(tasks[m][u]).flags = tasks[m][u].flags \cup {"closed"}
  BY <1>2, SafeCloseIs, SuspendTaskIs
<1> DEFINE Kept(u) == /\ tasks'[m][u].pc = tasks[m][u].pc
                      /\ tasks[m][u].flags \subseteq tasks'[m][u].flags
           Off(u)  == tasks'[m][u].pc \notin {"loop", "exec", "sync"}
<1>k. ASSUME \A u \in TaskIds : Kept(u) \/ Off(u) PROVE Halted(m)'
  BY <1>k DEF Halted, Closed
<1>4. ASSUME SameTasks(m) PROVE Halted(m)'
  BY <1>4 DEF SameTasks, Halted, Closed
<1>5. CASE CleanupStep(m) \/ DecideStep(m)
  <2>1. \A u \in TaskIds : Kept(u)
    BY <1>3, <1>5 DEF CleanupStep, DecideStep, SameTasks
  <2> QED BY <1>k, <2>1
<1>6. CASE CreateStep(m)
  <2>1. ASSUME NEW u \in TaskIds PROVE Kept(u) \/ Off(u)
    <3>1. CASE u = job'[m]
      BY <1>6, <3>1 DEF CreateStep
    <3>2. CASE u # job'[m]
      BY <1>3, <1>6, <3>2 DEF CreateStep
    <3> QED BY <3>1, <3>2
  <2> QED BY <1>k, <2>1
<1>7. ASSUME NEW t \in TaskIds, WorkStep(m, t) PROVE Halted(m)'
  <2>1. tasks'[m][t].pc \in {"loop", "exec", "sync"} => Closed(tasks'[m][t])
    BY <1>7 DEF WorkStep, Halted, Closed
  <2> QED BY <1>7, <2>1 DEF WorkStep, Halted
<1>8. ASSUME NEW t \in TaskIds, SettleStep(m, t) PROVE Halted(m)'
  <2>1. \A u \in TaskIds : Kept(u) \/ Off(u)
    BY <1>8 DEF SettleStep
  <2> QED BY <1>k, <2>1
<1>9. CASE TTLStep(m)
  <2>1. \A u \in TaskIds : Kept(u)
    BY <1>9 DEF TTLStep
  <2> QED BY <1>k, <2>1
<1>10. CASE RestartStep(m)
  BY <1>10, <1>k, NoTaskIs DEF RestartStep
<1>11. CASE AgentStep(m)
  BY <1>4, <1>5, <1>6, <1>7, <1>8, <1>9, <1>10, <1>11
     DEF AgentStep, DeliverStep, FetchStep, InitStep, EnsureStep, RemoveStep,
         SyncSuspendStep, FailStep
<1>12. CASE SameAgent(m)
  BY <1>4, <1>12 DEF SameAgent, SameTasks
<1> QED BY <1>11, <1>12, Bystander DEF EraMove

LEMMA SealStep ==
    ASSUME Types, OrderOK, StopOK, Step, EraMove, NEW m \in Nodes, EraAt(m)
    PROVE  SealAt(m)'
<1> SUFFICES ASSUME Ended(m)' PROVE Sealed(m)'
  BY DEF SealAt
<1>m. /\ OrderAt(m) /\ StopAt(m)
      /\ ReadAt(m) /\ LoneAt(m) /\ WriterAt(m) /\ SealAt(m)
  BY DEF OrderOK, StopOK, EraAt
<1>e. /\ Exists /\ Exists'
      /\ Fresh(obj') => Fresh(obj)
  BY DEF EraMove
\* what the agent will act on is quiet
<1> DEFINE Rest == /\ Quiet(obj, status[m].phase)
                   /\ Quiet(cache[m].obj, cache[m].status[m].phase)
                   /\ rec[m].pc # "idle" => Quiet(rec[m].obj, rec[m].st.phase)
<1>r. Unread(m) => Rest
  BY DEF Unread, Quiet
<1>k. ASSUME Ended(m), ~StartStep(m), rec'[m].pc # "start",
             job'[m] # 0 \/ Rest'
      PROVE  Sealed(m)'
  <2>1. Halted(m)'
    BY <1>m, <1>k, HaltedStays DEF SealAt, Sealed
  <2> QED BY <1>k, <2>1 DEF Sealed
<1>s. Ended(m) => job[m] # 0 \/ Rest
  BY <1>m DEF SealAt, Sealed
<1>q. \A p : Quiet(obj, p) => Quiet(obj', p)
  BY <1>e DEF Quiet
<1>0. CASE SameAgent(m) /\ status'[m] = status[m]
  <2>1. Ended(m) /\ rec[m].pc # "start" /\ ~StartStep(m)
    BY <1>0, <1>m DEF Ended, SameAgent, SealAt, Sealed, StartStep
  <2>2. Rest => Rest'
    BY <1>0, <1>q DEF SameAgent
  <2> QED BY <1>0, <1>k, <1>s, <2>1, <2>2 DEF SameAgent
<1>1. CASE DeliverStep(m)
  <2>1. Ended(m) /\ rec[m].pc # "start" /\ ~StartStep(m)
    BY <1>1, <1>m DEF Ended, DeliverStep, SameApi, SealAt, Sealed, StartStep
  <2>2. Rest => Rest'
    BY <1>1 DEF DeliverStep, SameApi
  <2> QED BY <1>1, <1>k, <1>s, <2>1, <2>2 DEF DeliverStep, SameTasks
<1>2. CASE FetchStep(m)
  <2>1. Ended(m)
    BY <1>2 DEF Ended, FetchStep, SameApi, Final
  <2>2. rec[m].pc # "start" /\ rec'[m].pc # "start" /\ ~StartStep(m)
    BY <1>2 DEF FetchStep, StartStep
  <2>3. Rest => Rest'
    BY <1>2 DEF FetchStep, SameApi, Quiet
  <2> QED BY <1>2, <1>k, <1>s, <2>1, <2>2, <2>3 DEF FetchStep, SameTasks
<1>3. CASE InitStep(m) \/ SyncSuspendStep(m)
  <2>1. /\ rec[m].pc \in {"init", "suspend"} /\ rec'[m].pc \in {"finalizer", "idle"}
        /\ rec'[m].obj = rec[m].obj /\ rec'[m].st = rec[m].st /\ cache'[m] = cache[m]
        /\ status'[m].phase = rec[m].st.phase /\ job'[m] = job[m]
    BY <1>3, <1>e DEF InitStep, SyncSuspendStep, Moves, Wrote, SameTasks
  <2>2. Ended(m) /\ ~StartStep(m)
    BY <2>1 DEF Ended, StartStep
  <2>3. Fresh(obj) => Fresh(rec[m].obj)
    BY <1>m, <2>1 DEF ReadAt, Unread
  <2>4. Rest => Rest'
    BY <1>e, <2>1, <2>3 DEF Quiet
  <2> QED BY <1>k, <1>s, <2>1, <2>2, <2>4
<1>4. CASE EnsureStep(m) \/ FailStep(m)
  <2>1. /\ rec[m].pc # "idle" /\ rec'[m].pc \in {"decide", "idle"}
        /\ rec'[m].obj = rec[m].obj /\ rec'[m].st = rec[m].st /\ cache'[m] = cache[m]
        /\ status' = status /\ job'[m] = job[m]
    BY <1>4 DEF EnsureStep, FailStep, Moves, SameTasks, SameApi
  <2>2. Ended(m)
    BY <2>1 DEF Ended
  <2>3. ~StartStep(m)
    BY <1>m, <2>2 DEF SealAt, Sealed, StartStep
  <2>4. Rest => Rest'
    BY <1>q, <2>1
  <2> QED BY <1>k, <1>s, <2>1, <2>2, <2>3, <2>4
<1>5. CASE CleanupStep(m) \/ RemoveStep(m)
  <2>1. ~Vanishes
    BY <1>e DEF Vanishes, NoObject, Exists
  <2>2. /\ rec[m].pc \in {"finalizer", "unfinalize"}
        /\ rec'[m].pc \in {"idle", "unfinalize"}
        /\ rec'[m].obj = rec[m].obj /\ rec'[m].st = rec[m].st /\ cache'[m] = cache[m]
        /\ status' = status /\ obj' = obj
    BY <1>5, <2>1 DEF CleanupStep, RemoveStep, Moves, SameApi
  <2>3. Ended(m) /\ ~StartStep(m)
    BY <2>2 DEF Ended, StartStep
  <2>4. Unread(m)
    BY <1>5, <1>m DEF CleanupStep, RemoveStep, OrderAt, ReadAt, Fresh
  <2>5. Rest'
    BY <1>r, <2>2, <2>4
  <2> QED BY <1>k, <2>2, <2>3, <2>5
<1>6. CASE DecideStep(m)
  <2>1. CASE rec'[m].pc = "suspend"
    <3>1. Unread(m)
      BY <1>6, <1>m, <2>1, SuspendsPaused DEF DecideStep, Moves
    <3>2. /\ rec[m].pc # "idle" /\ rec'[m].obj = rec[m].obj /\ cache'[m] = cache[m]
          /\ status' = status /\ obj' = obj
      BY <1>6 DEF DecideStep, Moves, SameApi
    <3>3. Rest'
      BY <3>1, <3>2 DEF Unread, Quiet
    <3> QED BY <1>6, <2>1, <3>3, Halts DEF Sealed
  <2>2. CASE rec'[m].pc # "suspend"
    <3>1. /\ rec[m].pc = "decide" /\ rec'[m].pc = "idle" /\ cache'[m] = cache[m]
          /\ status' = status /\ obj' = obj /\ job'[m] = job[m]
      BY <1>6, <2>2 DEF DecideStep, Moves, SameApi, SameTasks
    <3>2. Ended(m) /\ ~StartStep(m)
      BY <3>1 DEF Ended, StartStep
    <3>3. Rest => Rest'
      BY <3>1
    <3> QED BY <1>k, <1>s, <3>1, <3>2, <3>3
  <2> QED BY <2>1, <2>2
<1>7. CASE CreateStep(m)
  <2>1. Fresh(rec[m].obj) /\ job[m] = 0
    BY <1>7, <1>m, CreatesFirst
  <2>2. Ended(m)
    BY <1>7 DEF Ended, CreateStep, SameApi
  <2> QED BY <1>7, <1>s, <2>1, <2>2 DEF CreateStep, Quiet
<1>8. CASE StartStep(m)
  <2>1. ~Ended(m)
    BY <1>8, <1>m DEF StartStep, SealAt, Sealed
  <2>2. Ended(m)
    BY <1>8, <1>e DEF StartStep, Moves, Wrote, Ended
  <2> QED BY <2>1, <2>2
<1>9. ASSUME NEW t \in TaskIds, WorkStep(m, t) PROVE Sealed(m)'
  <2>1. /\ cache'[m] = cache[m] /\ rec'[m] = rec[m] /\ job'[m] = job[m]
        /\ Active(tasks[m][t])
    BY <1>9 DEF WorkStep, Active
  <2>2. job[m] # 0 \/ Unread(m)
    BY <1>m, <2>1 DEF LoneAt, TaskIds
  <2>3. job'[m] # 0 \/ Rest'
    <3>1. Unread(m) => Unread(m)'
      BY UnreadStays
    <3> QED BY <2>1, <2>2, <3>1 DEF Unread, Quiet
  <2>4. ~StartStep(m)
    BY <1>9, <2>1 DEF StartStep, WorkStep, Moves
  <2>5. CASE Ended(m)
    BY <1>k, <1>m, <2>1, <2>3, <2>4, <2>5 DEF SealAt, Sealed
  <2>6. CASE ~Ended(m)
    <3>1. Final(status'[m].phase) /\ ~Final(status[m].phase)
      BY <2>1, <2>6 DEF Ended
    <3>2. tasks[m][t].pc = "final" /\ tasks'[m][t].pc = "settle"
      BY <1>9, <1>m, <1>e, <3>1 DEF WorkStep, SameApi, Wrote, WriterAt
    <3>3. \A u \in TaskIds : u # t => ~Active(tasks[m][u])
      BY <1>m, <2>1 DEF LoneAt
    <3>4. \A u \in TaskIds : u # t => tasks'[m][u] = tasks[m][u]
      BY <1>9 DEF WorkStep
    <3>5. Halted(m)'
      BY <3>2, <3>3, <3>4 DEF Halted, Active
    <3>6. rec[m].pc # "start"
      BY <1>m, <3>2, <3>3 DEF OrderAt, Active
    <3> QED BY <2>1, <2>3, <3>5, <3>6 DEF Sealed
  <2> QED BY <2>5, <2>6
<1>10. ASSUME TTLStep(m) \/ \E t \in TaskIds : SettleStep(m, t) PROVE Sealed(m)'
  <2>1. /\ obj' = obj /\ status' = status /\ cache'[m] = cache[m] /\ rec'[m] = rec[m]
    BY <1>10 DEF TTLStep, SettleStep, SameApi
  <2>2. Ended(m)
    BY <2>1 DEF Ended
  <2>3. rec[m].pc # "start" /\ ~StartStep(m)
    BY <1>m, <2>2 DEF SealAt, Sealed, StartStep
  <2>4. job'[m] = job[m]
    BY <1>10, <1>m, <1>e DEF TTLStep, SettleStep, OrderAt, Exists, TaskIds
  <2>5. Rest => Rest'
    BY <2>1
  <2> QED BY <1>k, <1>s, <2>1, <2>2, <2>3, <2>4, <2>5
<1>11. CASE RestartStep(m)
  <2>1. /\ obj' = obj /\ status' = status /\ rec'[m].pc = "idle"
        /\ ~Fresh(cache'[m].obj) /\ ~Final(cache'[m].status[m].phase)
    BY <1>11, RestartedStatus DEF RestartStep, SameApi, Final
  <2>2. Final(status[m].phase)
    BY <2>1 DEF Ended
  <2>3. Quiet(obj, status[m].phase)
    BY <1>m, <2>2 DEF Final, WriterAt, Quiet, Fresh
  <2>4. Halted(m)'
    BY <1>11, NoTaskIs DEF RestartStep, Halted
  <2> QED BY <2>1, <2>3, <2>4 DEF Sealed, Quiet
<1> QED BY <1>e, <1>0, <1>1, <1>2, <1>3, <1>4, <1>5, <1>6, <1>7, <1>8, <1>9, <1>10,
           <1>11, Bystander DEF AgentStep

-----------------------------------------------------------------------------
(***************************************************************************)
(* An agent whose cache shows the paused Command will reconcile it, is     *)
(* about to act on it, or has stopped its goroutines.                      *)
(***************************************************************************)
\* A cache that shows the object of the API server shows its status too.
CurrentAt(n) == Exists /\ cache[n].obj = obj => cache[n].status = status

\* An entry that is still missing was missing whenever the agent looked.
WrittenAt(n) ==
    /\ rec[n].pc # "idle" => rec[n].st.phase # "absent"
    /\ \A t \in TaskIds : tasks[n][t].pc \in {"loop", "exec", "sync", "final"} =>
           tasks[n][t].st.phase # "absent"
    /\ Exists /\ status[n].phase = "absent" =>
         /\ cache[n].status[n].phase = "absent"
         /\ rec[n].pc \in {"idle", "init"}
         /\ \A t \in TaskIds : tasks[n][t].pc \notin {"loop", "exec", "sync"}

\* The reconcile has read what the cache shows and has not decided yet.
Heeds(n) ==
    /\ rec[n].obj = cache[n].obj
    /\ rec[n].pc \in {"init", "finalizer", "decide"}
    /\ rec[n].pc = "init" => Halted(n)

PauseAt(n) ==
    Exists /\ Paused(obj) /\ cache[n].obj = obj =>
        \/ n \in queue
        \/ Heeds(n)
        \/ Halted(n) /\ (rec[n].pc = "idle" \/ ~Fresh(rec[n].obj))

PauseOK ==
    /\ EraOK
    /\ \A n \in Nodes : VersionAt(n) /\ CurrentAt(n) /\ WrittenAt(n) /\ PauseAt(n)

\* The cache comes to show the object by a watch event only.
LEMMA StillCurrent ==
    ASSUME Types, Types', OrderOK, Step, [Next]_vars, NEW m \in Nodes, VersionAt(m),
           Exists', cache'[m].obj = obj'
    PROVE  /\ Exists /\ SameApi
           /\ DeliverStep(m) \/ (cache'[m] = cache[m] /\ ~RestartStep(m))
<1>1. Exists
  BY VersionMoves
<1>2. ~RestartStep(m)
  BY RestartedIs DEF RestartStep, Exists
<1>3. ASSUME AgentStep(m), ~DeliverStep(m) PROVE cache'[m] = cache[m]
  BY <1>2, <1>3
     DEF AgentStep, FetchStep, InitStep, EnsureStep, CleanupStep, RemoveStep,
         DecideStep, SyncSuspendStep, CreateStep, StartStep, FailStep, WorkStep,
         SettleStep, TTLStep, Moves
<1>4. DeliverStep(m) \/ cache'[m] = cache[m]
  BY <1>1, <1>3, Bystander DEF SameAgent
<1>5. CASE cache'[m] = cache[m]
  <2>1. Older(obj', obj)
    BY <1>1, <1>5 DEF VersionAt, Exists
  <2>2. obj.rv \in Nat /\ obj'.rv \in Nat
    BY DEF Types, Meta
  <2>3. SameApi
    BY <2>1, <2>2, VersionMoves DEF Older
  <2> QED BY <1>1, <1>2, <1>5, <2>3
<1> QED BY <1>1, <1>2, <1>4, <1>5 DEF DeliverStep

LEMMA CurrentStep ==
    ASSUME Types, Types', OrderOK, Step, [Next]_vars, NEW m \in Nodes, VersionAt(m),
           CurrentAt(m)
    PROVE  CurrentAt(m)'
<1> SUFFICES ASSUME Exists', cache'[m].obj = obj' PROVE cache'[m].status = status'
  BY DEF CurrentAt
<1>1. /\ Exists /\ SameApi
      /\ DeliverStep(m) \/ (cache'[m] = cache[m] /\ ~RestartStep(m))
  BY StillCurrent
<1> QED BY <1>1 DEF CurrentAt, DeliverStep, SameApi

LEMMA WrittenStep ==
    ASSUME Types, OrderOK, Step, NEW m \in Nodes, WrittenAt(m)
    PROVE  WrittenAt(m)'
<1>m. OrderAt(m)
  BY DEF OrderOK
<1>t. \A u \in TaskIds : tasks[m][u] \in Task
  BY DEF Types
<1> DEFINE Filled(k) == k.pc \in {"loop", "exec", "sync", "final"} => k.st.phase # "absent"
           Runs(k)   == k.pc \in {"loop", "exec", "sync"}
<1>w. /\ rec[m].pc # "idle" => rec[m].st.phase # "absent"
      /\ \A u \in TaskIds : Filled(tasks[m][u])
  BY DEF WrittenAt
<1>k. ASSUME rec'[m].pc # "idle" => rec'[m].st.phase # "absent",
             \A u \in TaskIds : Filled(tasks'[m][u]),
             Exists /\ Exists' =>
               \/ status'[m].phase # "absent"
               \/ /\ status[m].phase = "absent"
                  /\ cache'[m].status[m].phase = "absent"
                  /\ rec'[m].pc \in {"idle", "init"}
                  /\ \A u \in TaskIds : Runs(tasks'[m][u]) => Runs(tasks[m][u])
      PROVE  WrittenAt(m)'
  <2>1. Exists' => Exists
    BY LifeMoves DEF Exists
  <2>2. Exists /\ status[m].phase = "absent" => \A u \in TaskIds : ~Runs(tasks[m][u])
    BY DEF WrittenAt
  <2> QED BY <1>k, <2>1, <2>2 DEF WrittenAt
\* what a missing entry means for the old state
<1>a. Exists /\ status[m].phase = "absent" =>
        /\ cache[m].status[m].phase = "absent"
        /\ rec[m].pc \in {"idle", "init"}
  BY DEF WrittenAt
<1>0. CASE SameAgent(m) /\ (Exists /\ Exists' => status'[m] = status[m])
  BY <1>0, <1>k, <1>w, <1>a DEF SameAgent
<1>1. CASE DeliverStep(m)
  BY <1>1, <1>k, <1>w, <1>a DEF DeliverStep, SameApi, SameTasks
<1>2. CASE FetchStep(m)
  BY <1>2, <1>k, <1>w, <1>a DEF FetchStep, SameApi, SameTasks
<1>3. CASE InitStep(m) \/ SyncSuspendStep(m)
  BY <1>3, <1>k, <1>w DEF InitStep, SyncSuspendStep, Moves, Wrote, SameTasks
<1>4. CASE EnsureStep(m) \/ FailStep(m)
  BY <1>4, <1>k, <1>w, <1>a DEF EnsureStep, FailStep, Moves, SameApi, SameTasks
<1>5. CASE RemoveStep(m)
  <2>1. Vanishes => ~Exists'
    BY DEF Vanishes, NoObject, Exists
  <2> QED BY <1>5, <1>k, <1>w, <1>a, <2>1 DEF RemoveStep, Moves, SameApi, SameTasks
<1>6. CASE CleanupStep(m)
  <2>1. \A u \in TaskIds : /\ SafeClose(tasks[m][u]).pc = tasks[m][u].pc
                           /\ SafeClose(tasks[m][u]).st = tasks[m][u].st
    BY <1>t, SafeCloseIs
  <2>2. \A u \in TaskIds : Filled(tasks'[m][u])
    BY <1>6, <1>w, <2>1 DEF CleanupStep, SameTasks
  <2> QED BY <1>6, <1>k, <1>w, <1>a, <2>2 DEF CleanupStep, Moves, SameApi
<1>7. CASE DecideStep(m)
  <2>1. \A u \in TaskIds : /\ SuspendTask(tasks[m][u]).pc = tasks[m][u].pc
                           /\ SuspendTask(tasks[m][u]).st = tasks[m][u].st
    BY <1>t, SuspendTaskIs
  <2>2. \A u \in TaskIds : Filled(tasks'[m][u])
    BY <1>7, <1>w, <2>1 DEF DecideStep, SameTasks
  <2> QED BY <1>7, <1>k, <1>w, <1>a, <2>2 DEF DecideStep, Moves, SameApi
<1>8. CASE CreateStep(m)
  <2>1. \A u \in TaskIds : /\ SafeClose(tasks[m][u]).pc = tasks[m][u].pc
                           /\ SafeClose(tasks[m][u]).st = tasks[m][u].st
    BY <1>t, SafeCloseIs
  <2>2. ASSUME NEW u \in TaskIds PROVE Filled(tasks'[m][u])
    <3>1. CASE u = job'[m]
      BY <1>8, <3>1 DEF CreateStep
    <3>2. CASE u # job'[m]
      BY <1>8, <1>w, <2>1, <3>2 DEF CreateStep
    <3> QED BY <3>1, <3>2
  <2> QED BY <1>8, <1>k, <1>w, <1>a, <2>2 DEF CreateStep, SameApi
<1>9. CASE StartStep(m)
  <2>1. \A u \in TaskIds : Filled(tasks'[m][u])
    BY <1>9, <1>w DEF StartStep
  <2> QED BY <1>9, <1>k, <1>w, <2>1 DEF StartStep, Moves, Wrote
<1>10. ASSUME NEW t \in TaskIds, WorkStep(m, t) PROVE WrittenAt(m)'
  <2>1. \A u \in TaskIds : /\ Filled(tasks'[m][u])
                           /\ Runs(tasks'[m][u]) => Runs(tasks[m][u])
    BY <1>10, <1>w DEF WorkStep
  <2>2. Exists => status'[m].phase # "absent" \/ status'[m] = status[m]
    <3>1. tasks[m][t].pc = "sync" => tasks[m][t].st.phase # "absent"
      BY <1>w
    <3>2. tasks'[m][t].pc = "settle" => tasks'[m][t].st.phase # "absent"
      BY <1>10 DEF WorkStep
    <3> QED BY <1>10, <3>1, <3>2 DEF WorkStep, SameApi, Wrote
  <2> QED BY <1>10, <1>k, <1>w, <1>a, <2>1, <2>2 DEF WorkStep
<1>11. ASSUME NEW t \in TaskIds, SettleStep(m, t) PROVE WrittenAt(m)'
  <2>0. \A u \in TaskIds : /\ tasks'[m][u].pc = IF u = t THEN "done" ELSE tasks[m][u].pc
                           /\ tasks'[m][u].st = tasks[m][u].st
    BY <1>11 DEF SettleStep
  <2>1. \A u \in TaskIds : /\ Filled(tasks'[m][u])
                           /\ Runs(tasks'[m][u]) => Runs(tasks[m][u])
    BY <1>w, <2>0
  <2> QED BY <1>11, <1>k, <1>w, <1>a, <2>1 DEF SettleStep, SameApi
<1>12. CASE TTLStep(m)
  <2>1. \A u \in TaskIds : /\ Filled(tasks'[m][u])
                           /\ Runs(tasks'[m][u]) => Runs(tasks[m][u])
    BY <1>12, <1>w DEF TTLStep
  <2> QED BY <1>12, <1>k, <1>w, <1>a, <2>1 DEF TTLStep, SameApi
<1>13. CASE RestartStep(m)
  BY <1>13, <1>k, RestartedStatus, NoTaskIs DEF RestartStep, SameApi
<1>14. CASE AgentStep(m)
  BY <1>1, <1>2, <1>3, <1>4, <1>5, <1>6, <1>7, <1>8, <1>9, <1>10, <1>11, <1>12,
     <1>13, <1>14 DEF AgentStep
<1>15. SameAgent(m) \/ AgentStep(m)
  BY OthersAside DEF Step, ToggleStep, DeleteStep, IdleStep
<1> QED BY <1>0, <1>14, <1>15, Bystander

\* The event that tells a running agent of the pause is not dropped.
LEMMA PauseDelivered ==
    ASSUME Types, ThreeDigits, StopOK, SpecOK, NEW m \in Nodes, VersionAt(m), LoneAt(m),
           Exists, Paused(obj)
    PROVE  ShouldReconcile(m, obj)
<1> DEFINE k == tasks[m][job[m]]
<1> SUFFICES ASSUME job[m] # 0, obj.gen <= k.gen \/ StringLeq(obj.rv, k.rv) PROVE FALSE
  BY DEF ShouldReconcile
<1>1. job[m] \in TaskIds /\ k.pc # "free" /\ k \in Task
  <2>1. job[m] \in TaskIds
    BY CommandAssumption DEF Types, TaskIds
  <2> QED BY <2>1 DEF StopOK, StopAt, Types
<1>2. k.gen = 1 /\ Older(k, obj)
  BY <1>1 DEF LoneAt, VersionAt
<1>3. obj.gen \in Nat /\ k.gen \in Nat /\ obj.rv \in Hundreds /\ obj.gen >= 2
  BY <1>1 DEF Types, Meta, Task, ThreeDigits, SpecOK
<1>4. k.gen >= obj.gen
  BY <1>2, <1>3, DroppedIsKnown
<1> QED BY <1>2, <1>3, <1>4

LEMMA PauseStep ==
    ASSUME Types, Types', ThreeDigits, OrderOK, StopOK, Step, [Next]_vars, SpecOK,
           NEW m \in Nodes, VersionAt(m), CurrentAt(m), WrittenAt(m), PauseAt(m),
           Unresumed => EraAt(m)
    PROVE  PauseAt(m)'
<1> SUFFICES ASSUME Exists', Paused(obj'), cache'[m].obj = obj', m \notin queue'
             PROVE  Heeds(m)' \/ (Halted(m)' /\ (rec'[m].pc = "idle" \/ ~Fresh(rec'[m].obj)))
  BY DEF PauseAt
<1>1. /\ Exists /\ SameApi
      /\ DeliverStep(m) \/ (cache'[m] = cache[m] /\ ~RestartStep(m))
  BY StillCurrent
<1>2. Paused(obj) /\ ~Fresh(obj) /\ Unresumed
  BY <1>1 DEF SameApi, Fresh, Unresumed
<1>3. EraMove
  BY <1>1, <1>2 DEF EraMove, SameApi
<1>4. /\ OrderAt(m) /\ StopAt(m)
      /\ ReadAt(m) /\ LoneAt(m) /\ WriterAt(m) /\ SealAt(m)
  BY <1>2 DEF OrderOK, StopOK, EraAt
<1>5. CASE DeliverStep(m)
  BY <1>1, <1>2, <1>4, <1>5, PauseDelivered DEF DeliverStep
<1>6. CASE ~DeliverStep(m)
  <2>1. cache'[m] = cache[m] /\ cache[m].obj = obj /\ obj' = obj /\ ~RestartStep(m)
    BY <1>1, <1>6 DEF SameApi
  <2>2. \/ m \in queue \/ Heeds(m)
        \/ Halted(m) /\ (rec[m].pc = "idle" \/ ~Fresh(rec[m].obj))
    BY <1>1, <1>2, <2>1 DEF PauseAt
  <2>h. Heeds(m) => Suspended(m) /\ ~Fresh(rec[m].obj)
    BY <1>2, <2>1 DEF Heeds, Suspended, Paused, Fresh
  \* the reconcile and the queue stay
  <2>k. ASSUME rec'[m] = rec[m], SameQueue(m), ~StartStep(m)
        PROVE  Heeds(m)' \/ (Halted(m)' /\ (rec'[m].pc = "idle" \/ ~Fresh(rec'[m].obj)))
    <3>1. Halted(m) => Halted(m)'
      BY <1>3, <2>k, HaltedStays
    <3> QED BY <2>1, <2>2, <2>k, <3>1 DEF Heeds, SameQueue
  <2>3. CASE FetchStep(m)
    <3>1. /\ rec'[m].obj = cache'[m].obj /\ rec'[m].pc \in {"init", "finalizer"}
          /\ tasks'[m] = tasks[m]
          /\ rec'[m].pc = "init" => cache[m].status[m].phase = "absent"
      BY <1>1, <2>1, <2>3 DEF FetchStep, SameTasks, Exists
    <3>2. rec'[m].pc = "init" => status[m].phase = "absent"
      BY <1>1, <2>1, <3>1 DEF CurrentAt
    <3>3. rec'[m].pc = "init" => Halted(m)'
      BY <1>1, <3>1, <3>2 DEF WrittenAt, Halted
    <3> QED BY <3>1, <3>3 DEF Heeds
  <2>4. CASE InitStep(m) \/ SyncSuspendStep(m) \/ RemoveStep(m)
    <3>1. /\ rec[m].pc \in {"init", "suspend", "unfinalize"} /\ rec'[m].obj = rec[m].obj
          /\ rec[m].pc # "init" => rec'[m].pc = "idle"
          /\ rec[m].pc = "init" => rec'[m].pc = "finalizer"
          /\ m \notin queue
      BY <2>4 DEF InitStep, SyncSuspendStep, RemoveStep, Moves, SameQueue
    <3>2. Halted(m) => Halted(m)'
      BY <1>3, <3>1, HaltedStays DEF StartStep
    <3> QED BY <2>1, <2>2, <3>1, <3>2 DEF Heeds
  <2>5. CASE EnsureStep(m)
    <3>1. /\ rec[m].pc = "finalizer" /\ rec'[m].obj = rec[m].obj
          /\ rec'[m].pc = "decide" /\ m \notin queue
      BY <1>1, <2>5 DEF EnsureStep, Moves, SameQueue
    <3>2. Halted(m) => Halted(m)'
      BY <1>3, <3>1, HaltedStays DEF StartStep
    <3> QED BY <2>1, <2>2, <3>1, <3>2 DEF Heeds
  <2>6. CASE CleanupStep(m)
    <3>1. /\ rec[m].pc = "finalizer" /\ rec[m].obj.life = "deleting"
          /\ rec'[m].obj = rec[m].obj /\ rec'[m].pc \in {"idle", "unfinalize"}
          /\ ~Fresh(rec[m].obj) /\ m \notin queue
      BY <2>6 DEF CleanupStep, Moves, SameQueue, Fresh
    <3>2. CASE rec'[m].pc = "unfinalize"
      BY <2>6, <3>1, <3>2, Halts
    <3>3. CASE rec'[m].pc = "idle"
      <4>1. "finalizer" \notin rec[m].obj.flags
        BY <2>6, <3>3 DEF CleanupStep, Moves
      <4>2. ~Heeds(m)
        BY <2>1, <3>1, <4>1 DEF Heeds, SpecOK
      <4>3. Halted(m)'
        BY <1>3, <2>2, <3>1, <4>2, HaltedStays DEF StartStep
      <4> QED BY <3>3, <4>3
    <3> QED BY <3>1, <3>2, <3>3
  <2>7. CASE DecideStep(m)
    <3>1. /\ rec[m].pc = "decide" /\ rec'[m].obj = rec[m].obj
          /\ rec'[m].pc \in {"idle", "suspend"} /\ m \notin queue
      BY <2>7 DEF DecideStep, Moves, SameQueue
    <3>2. CASE rec'[m].pc = "suspend"
      <4>1. Suspended(m)
        BY <2>7, <3>2 DEF DecideStep, Moves
      <4>2. ~Fresh(rec'[m].obj)
        BY <3>1, <4>1 DEF Suspended, Fresh, Paused
      <4> QED BY <2>7, <3>2, <4>2, Halts
    <3>3. CASE rec'[m].pc = "idle"
      <4>1. Heeds(m) => Final(rec[m].st.phase)
        BY <2>7, <2>h, <3>3 DEF DecideStep, Moves, Final
      <4>2. Halted(m)
        BY <1>4, <2>2, <3>1, <4>1 DEF SealAt, Ended, Sealed
      <4>3. Halted(m)'
        BY <1>3, <3>1, <4>2, HaltedStays DEF StartStep
      <4> QED BY <3>3, <4>3
    <3> QED BY <3>1, <3>2, <3>3
  <2>8. CASE CreateStep(m) \/ StartStep(m)
    <3>1. rec[m].pc \in {"decide", "start"} /\ Fresh(rec[m].obj) /\ m \notin queue
      BY <1>4, <2>8
         DEF CreateStep, StartStep, OrderAt, ReadAt, SameQueue, Suspended, Fresh, Paused
    <3> QED BY <2>2, <2>h, <3>1
  <2>9. CASE FailStep(m)
    <3>1. /\ rec[m].pc \in {"init", "start"} /\ m \notin queue /\ rec'[m].pc = "idle"
      BY <2>9 DEF FailStep, Moves, SameQueue
    <3>2. Halted(m) /\ rec[m].pc = "init"
      BY <1>4, <2>2, <3>1 DEF ReadAt, Heeds
    <3>3. Halted(m)'
      BY <1>3, <3>2, HaltedStays DEF StartStep
    <3> QED BY <3>1, <3>3
  <2>10. ASSUME \/ SameAgent(m) \/ TTLStep(m)
                \/ \E t \in TaskIds : WorkStep(m, t) \/ SettleStep(m, t)
         PROVE  Heeds(m)' \/ (Halted(m)' /\ (rec'[m].pc = "idle" \/ ~Fresh(rec'[m].obj)))
    <3>1. rec'[m] = rec[m] /\ SameQueue(m)
      BY <2>10 DEF SameAgent, TTLStep, WorkStep, SettleStep, SameQueue
    <3>2. ~StartStep(m)
      BY <3>1 DEF StartStep, Moves
    <3> QED BY <2>k, <3>1, <3>2
  <2> QED BY <1>1, <1>3, <1>6, <2>1, <2>3, <2>4, <2>5, <2>6, <2>7, <2>8, <2>9, <2>10,
             Bystander DEF AgentStep, EraMove
<1> QED BY <1>5, <1>6

LEMMA PauseInit == Init => PauseOK
<1> SUFFICES ASSUME Init PROVE PauseOK
  OBVIOUS
<1>1. /\ obj.life = "live" /\ obj.gen = 1 /\ obj.flags = {}
      /\ \A n \in Nodes :
             /\ status[n].phase = "absent" /\ cache[n] = EmptyCache
             /\ rec[n] = NoReconcile /\ job[n] = 0
             /\ \A t \in TaskIds : tasks[n][t] = NoTask
  BY FirstIs
<1>2. SpecOK
  BY <1>1 DEF SpecOK, Paused
<1>3. ASSUME NEW n \in Nodes PROVE ReadAt(n) /\ LoneAt(n) /\ WriterAt(n) /\ SealAt(n)
  BY <1>1, RestartedStatus, NoTaskIs
     DEF ReadAt, LoneAt, Active, WriterAt, SealAt, Ended, Final
<1>4. ASSUME NEW n \in Nodes
      PROVE  VersionAt(n) /\ CurrentAt(n) /\ WrittenAt(n) /\ PauseAt(n)
  BY <1>1, RestartedStatus, NoTaskIs DEF VersionAt, CurrentAt, WrittenAt, PauseAt
<1> QED BY <1>2, <1>3, <1>4 DEF PauseOK, EraOK, EraAt

LEMMA PauseKept ==
    ASSUME OnePause
    PROVE  /\ IInv /\ OrderOK /\ StopOK /\ IInv' /\ ThreeDigits /\ PauseOK /\ [Next]_vars
           => PauseOK'
<1> SUFFICES ASSUME IInv, OrderOK, StopOK, IInv', ThreeDigits, PauseOK, [Next]_vars
             PROVE  PauseOK'
  OBVIOUS
<1>1. Types /\ Step
  BY TypesHold, StepsAre DEF IInv
<1>2. Types'
  BY DEF IInv, TypeOK, Types
<1>3. /\ SpecOK /\ (Unresumed => \A n \in Nodes : EraAt(n))
      /\ \A n \in Nodes : VersionAt(n) /\ CurrentAt(n) /\ WrittenAt(n) /\ PauseAt(n)
  BY DEF PauseOK, EraOK
<1>4. SpecOK' /\ (Unresumed' => Unresumed /\ EraMove)
  BY <1>1, <1>2, <1>3, SpecStep
<1>5. ASSUME NEW m \in Nodes, Unresumed' PROVE EraAt(m)'
  <2>1. EraMove /\ EraAt(m) /\ ReadAt(m) /\ LoneAt(m)
    BY <1>3, <1>4, <1>5 DEF EraAt
  <2> QED BY <1>1, <2>1, ReadStep, LoneStep, WriterStep, SealStep DEF EraAt
<1>6. ASSUME NEW m \in Nodes
      PROVE  VersionAt(m)' /\ CurrentAt(m)' /\ WrittenAt(m)' /\ PauseAt(m)'
  <2>1. VersionAt(m)'
    BY <1>1, <1>2, <1>3, VersionStep
  <2>2. CurrentAt(m)' /\ WrittenAt(m)'
    BY <1>1, <1>2, <1>3, CurrentStep, WrittenStep
  <2>3. PauseAt(m)'
    BY <1>1, <1>2, <1>3, PauseStep
  <2> QED BY <2>1, <2>2, <2>3
<1> QED BY <1>4, <1>5, <1>6 DEF PauseOK, EraOK

(***************************************************************************)
(* THEOREM: for one pause and one resume of the Command, and while its     *)
(* resource versions have three digits, SuspendHonoured holds, on any      *)
(* number of nodes and whatever fails, restarts or is deleted: the event   *)
(* of the pause is not dropped, and the reconcile it brings stops the task *)
(* or finds nothing that has to be stopped.                                *)
(***************************************************************************)
THEOREM PausesHonoured ==
    ASSUME OnePause
    PROVE  Spec /\ []ThreeDigits => []SuspendHonoured
<1> DEFINE I == IInv /\ OrderOK /\ StopOK
<1>1. Init => PauseOK
  BY PauseInit
<1>2. I /\ I' /\ ThreeDigits /\ PauseOK /\ [Next]_vars => PauseOK'
  BY PauseKept
<1>3. PauseOK => SuspendHonoured
  <2> SUFFICES ASSUME PauseOK, NEW n \in Nodes, Exists, "suspend" \in obj.flags,
                      cache[n].obj = obj, n \notin queue, rec[n].pc = "idle"
               PROVE  \A t \in TaskIds : tasks[n][t].pc \in {"loop", "exec", "sync"} =>
                          Closed(tasks[n][t])
    BY DEF SuspendHonoured
  <2>1. Halted(n)
    BY DEF PauseOK, PauseAt, Paused, Heeds
  <2> QED BY <2>1 DEF Halted
<1> HIDE DEF I
<1>4. Spec => []I
  BY BaseInvariance DEF I
<1> QED BY <1>1, <1>2, <1>3, <1>4, PTL DEF Spec
=============================================================================
