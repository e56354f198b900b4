---------------------------- MODULE AgentCommand ----------------------------
(***************************************************************************)
(* The bkeagent command protocol (controllers/bkeagent, pkg/job).          *)
(*                                                                         *)
(* One Command object lives in the management cluster's API server.  An    *)
(* agent runs on every node the Command selects.  Each agent has           *)
(*   - an informer cache, refreshed by watch events that pass a predicate; *)
(*   - one reconcile worker (the controller's default concurrency);        *)
(*   - the job table, which maps the Command's gid to its current task;    *)
(*   - one goroutine per task it started (startTask), which is told to     *)
(*     stop through the task's StopChan but never waited for;              *)
(*   - the TTL loop, which schedules the deletion of finished Commands.    *)
(*                                                                         *)
(* Time is abstract: a deadline may pass whenever the code compares it     *)
(* with the clock, and once passed it stays passed.  Conditions are kept   *)
(* by position: the i-th entry belongs to the i-th command of the spec,    *)
(* which startTask visits in order (InOrderConditions checks that no entry *)
(* is ever appended out of turn).                                          *)
(***************************************************************************)
EXTENDS Integers, Sequences

CONSTANTS
    Nodes,        \* the nodes spec.nodeSelector names; an agent runs on each
    NumCommands,  \* Len(spec.commands)
    Ignorable,    \* positions of the commands with backoffIgnore
    TTL,          \* TRUE iff spec.ttlSecondsAfterFinished # 0
    Deadline,     \* TRUE iff activeDeadlineSecond may elapse
    FirstRV,      \* resourceVersion the Command was created with
    MaxGeneration,\* bound: spec changes (suspend/resume) made by EnsurePaused
    MaxTasks,     \* bound: tasks one agent process may create
    MaxRestarts,  \* bound: agent crashes
    MaxFailures,  \* bound: API calls that fail for good
    MaxDeletes    \* bound: deletions requested by the manager

ASSUME CommandAssumption ==
    /\ NumCommands \in Nat \ {0}
    /\ Ignorable \subseteq 1..NumCommands
    /\ TTL \in BOOLEAN /\ Deadline \in BOOLEAN
    /\ FirstRV \in Nat
    /\ MaxGeneration \in Nat \ {0}
    /\ MaxTasks \in Nat \ {0}
    /\ MaxRestarts \in Nat /\ MaxFailures \in Nat /\ MaxDeletes \in Nat

VARIABLES
    obj,       \* metadata and spec.suspend of the Command in the API server
    status,    \* Command.status in the API server, one entry per node
    cache,     \* per agent: the informer's copy of the object
    queue,     \* the agents whose work queue holds the Command's key
    rec,       \* per agent: program counter of Reconcile and its fetched copy
    job,       \* per agent: Job.Task[gid], 0 when the table has no entry
    tasks,     \* per agent: the tasks ever created, with their goroutines
    timer,     \* the agents with an armed deletion timer
    succeeded, \* history: per node, commands that really ran to success
    tried,     \* history: per node, commands that really were attempted
    restarts, failures, deletes  \* counters of the bounded events

apiVars == <<obj, status>>
envVars == <<restarts, failures, deletes>>
history == <<succeeded, tried>>
vars == <<obj, status, cache, queue, rec, job, tasks, timer, succeeded, tried,
          restarts, failures, deletes>>

-----------------------------------------------------------------------------
(* api/bkeagent/v1beta1: phases, conditions, statuses                      *)

Phases  == {"absent", "Running", "Completed", "Suspend", "Skip", "Failed", "unKnown"}
Results == {"True", "False", "Unknown"}

Commands == 1..NumCommands
TaskIds  == 1..MaxTasks

Condition == [phase : Phases, status : Results]

StatusEntry == [phase : Phases, status : Results, conds : Seq(Condition)]

\* phase "absent": Command.status has no entry for the node
NoStatus == [phase |-> "absent", status |-> "Unknown", conds |-> <<>>]

\* the entry ensureStatusInitialized creates
InitialStatus == [phase |-> "Running", status |-> "Unknown", conds |-> <<>>]

\* deletionTimestamp, finalizers and spec.suspend, generation, resourceVersion
Meta == [life : {"live", "deleting", "gone"}, flags : SUBSET {"finalizer", "suspend"},
         gen : Nat, rv : Nat]

NoObject == [life |-> "gone", flags |-> {}, gen |-> 0, rv |-> 0]

TaskPc == {"free", "created", "loop", "exec", "sync", "final", "settle", "done"}

\* phase, gen, rv and the flags closed (StopChan) and timed (HasAddTimer): the
\* fields of job.Task; pc, st, idx and the flag expired (stopTime has passed): the
\* locals of its startTask goroutine
Task == [pc : TaskPc, gen : Nat, rv : Nat, phase : Phases, st : StatusEntry, idx : Nat,
         flags : SUBSET {"closed", "timed", "expired"}]

NoTask == [pc |-> "free", gen |-> 0, rv |-> 0, phase |-> "Running", st |-> NoStatus,
           idx |-> 0, flags |-> {}]

RecPc == {"idle", "init", "finalizer", "unfinalize", "decide", "suspend", "start"}

\* a run of Reconcile: the fetched Command, the node's status entry in it, and the
\* task it created
Reconciler == [pc : RecPc, obj : Meta, st : StatusEntry, task : 0..MaxTasks]

CacheEntry == [obj : Meta, status : [Nodes -> StatusEntry]]

\* newCondition
NewCondition == [phase |-> "Running", status |-> "Unknown"]

ReplaceCondition(conds, i, c) ==
    IF i \in DOMAIN conds THEN [conds EXCEPT ![i] = c] ELSE Append(conds, c)

\* mutant: any recorded condition counts as done
SkipsRecorded(conds, i) == i \in DOMAIN conds

IsCommandCompleted(conds, i) ==
    i \in DOMAIN conds /\ conds[i].phase = "Completed"

DeterminePhase(latest, n) ==
    CASE latest.phase = "Failed" -> "Failed"
      [] n < NumCommands /\ latest.phase \in {"Running", "Skip", "Completed"} -> "Running"
      [] n = NumCommands /\ latest.phase = "Running" -> "Running"
      [] n = NumCommands /\ latest.phase \in {"Skip", "Completed"} -> "Completed"
      [] OTHER -> "unKnown"

DetermineStatus(latest, n) ==
    IF n < NumCommands THEN "Unknown" ELSE latest.status

\* st with the phase and status ConditionCount computes for its conditions
ConditionCount(st) ==
    LET n      == Len(st.conds)
        latest == st.conds[n]
        phase  == DeterminePhase(latest, n)
    IN  IF n = 0
        THEN [st EXCEPT !.phase = "Running", !.status = "Unknown"]
        ELSE [st EXCEPT !.phase = phase,
                        !.status = IF phase = "Failed" THEN "False"
                                   ELSE DetermineStatus(latest, n)]

-----------------------------------------------------------------------------
(* The API server, as the agents and the manager use it                    *)

\* resourceVersions are compared as decimal strings; digits, most significant
\* first, for the versions below 1000 that the instances reach
Digits(v) == IF v < 10 THEN <<v>>
             ELSE IF v < 100 THEN <<v \div 10, v % 10>>
             ELSE <<v \div 100, (v \div 10) % 10, v % 10>>

StringLeq(v, w) ==
    LET a == Digits(v)
        b == Digits(w)
    IN  \/ \E k \in DOMAIN a \cap DOMAIN b :
              a[k] < b[k] /\ \A j \in 1..(k-1) : a[j] = b[j]
        \/ Len(a) <= Len(b) /\ \A j \in DOMAIN a : a[j] = b[j]

Exists == obj.life # "gone"

\* the Command disappears with its status
Vanish == obj' = NoObject /\ status' = [n \in Nodes |-> NoStatus]

\* syncStatusUntilComplete patches only the agent's own entry, and succeeds
\* without writing when the Command is gone
WriteStatus(n, st) ==
    IF Exists
    THEN /\ status' = [status EXCEPT ![n] = st]
         /\ obj' = [obj EXCEPT !.rv = @ + 1]
    ELSE UNCHANGED apiVars

\* client.Delete: a finalizer turns the deletion into a deletion timestamp,
\* and setting it counts as a new generation
RequestDelete ==
    IF Exists /\ "finalizer" \in obj.flags
    THEN /\ obj' = IF obj.life = "deleting" THEN obj
                   ELSE [obj EXCEPT !.life = "deleting", !.gen = @ + 1, !.rv = @ + 1]
         /\ UNCHANGED status
    ELSE Vanish

\* the manager pauses or resumes the cluster: EnsurePaused sets spec.suspend
ToggleSuspend ==
    /\ obj.life = "live"
    /\ obj.gen < MaxGeneration
    /\ obj' = [obj EXCEPT !.gen = @ + 1, !.rv = @ + 1,
                 !.flags = IF "suspend" \in @ THEN @ \ {"suspend"} ELSE @ \cup {"suspend"}]
    /\ UNCHANGED <<status, cache, queue, rec, job, tasks, timer, history, envVars>>

\* the manager deletes the Command (deleteCommand, handleUniqueCommand)
ManagerDelete ==
    /\ obj.life = "live"
    /\ deletes < MaxDeletes
    /\ deletes' = deletes + 1
    /\ RequestDelete
    /\ UNCHANGED <<cache, queue, rec, job, tasks, timer, history, restarts, failures>>

-----------------------------------------------------------------------------
(* Watch events                                                            *)

\* mutant: events of a Command with a task in the table are dropped
DropsKnownTask(n, o) == job[n] = 0

\* shouldReconcileCommand: the event filter, evaluated when the event arrives
ShouldReconcile(n, o) ==
    job[n] # 0 => ~(\/ o.gen <= tasks[n][job[n]].gen
                    \/ StringLeq(o.rv, tasks[n][job[n]].rv))

\* the informer catches up with the API server; Create and Update events that
\* pass the filter enqueue the key, Delete events never do
Deliver(n) ==
    /\ cache[n].obj # obj
    /\ cache' = [cache EXCEPT ![n] = [obj |-> obj, status |-> status]]
    /\ queue' = IF Exists /\ ShouldReconcile(n, obj) THEN queue \cup {n} ELSE queue
    /\ UNCHANGED <<apiVars, rec, job, tasks, timer, history, envVars>>

-----------------------------------------------------------------------------
(* Reconcile                                                               *)

GoTo(n, pc) == rec' = [rec EXCEPT ![n].pc = pc]

\* fetchCommand reads the cache, then ensureStatusInitialized branches
Fetch(n) ==
    LET st == cache[n].status[n]
    IN  /\ n \in queue /\ rec[n].pc = "idle"
        /\ queue' = queue \ {n}
        /\ rec' = [rec EXCEPT ![n] =
                    [pc   |-> IF cache[n].obj.life = "gone" THEN "idle"
                              ELSE IF st.phase = "absent" THEN "init" ELSE "finalizer",
                     obj  |-> cache[n].obj,
                     st   |-> IF st.phase = "absent" THEN InitialStatus ELSE st,
                     task |-> 0]]
        /\ UNCHANGED <<apiVars, cache, job, tasks, timer, history, envVars>>

InitStatus(n) ==
    /\ rec[n].pc = "init"
    /\ WriteStatus(n, rec[n].st)
    /\ GoTo(n, "finalizer")
    /\ UNCHANGED <<cache, queue, job, tasks, timer, history, envVars>>

\* mutant: the finalizer is added to the fetched copy only
FinalizerOnCopyOnly(n) ==
    /\ rec[n].pc = "finalizer" /\ rec[n].obj.life = "live"
    /\ GoTo(n, "decide")
    /\ UNCHANGED <<apiVars, cache, queue, job, tasks, timer, history, envVars>>

\* ensureFinalizer on a Command that is not being deleted
EnsureFinalizer(n) ==
    /\ rec[n].pc = "finalizer" /\ rec[n].obj.life = "live"
    /\ IF "finalizer" \in rec[n].obj.flags
       THEN GoTo(n, "decide") /\ UNCHANGED obj
       ELSE IF ~Exists
            THEN GoTo(n, "idle") /\ UNCHANGED obj
            ELSE /\ GoTo(n, "decide")
                 /\ obj' = IF "finalizer" \in obj.flags THEN obj
                           ELSE [obj EXCEPT !.flags = @ \cup {"finalizer"}, !.rv = @ + 1]
    /\ UNCHANGED <<status, cache, queue, job, tasks, timer, history, envVars>>

\* mutant: the task is forgotten but its StopChan stays open
ForgetTask(k) == k

\* Task.SafeClose
SafeClose(k) == [k EXCEPT !.flags = @ \cup {"closed"}]

Update(n, t, k) == tasks' = [tasks EXCEPT ![n][t] = k]

Closed(k) == "closed" \in k.flags
Expired(k) == "expired" \in k.flags

\* handleDeletion, local half: cleanupTask closes the task and forgets it
CleanupTask(n) ==
    /\ rec[n].pc = "finalizer" /\ rec[n].obj.life = "deleting"
    /\ GoTo(n, IF "finalizer" \in rec[n].obj.flags THEN "unfinalize" ELSE "idle")
    /\ IF "finalizer" \in rec[n].obj.flags /\ job[n] # 0
       THEN /\ Update(n, job[n], SafeClose(tasks[n][job[n]]))
            /\ job' = [job EXCEPT ![n] = 0]
       ELSE UNCHANGED <<job, tasks>>
    /\ UNCHANGED <<apiVars, cache, queue, timer, history, envVars>>

\* handleDeletion, remote half: dropping the only finalizer of a Command that
\* is being deleted removes it, whatever the other agents are doing
RemoveFinalizer(n) ==
    /\ rec[n].pc = "unfinalize"
    /\ GoTo(n, "idle")
    /\ IF obj.life = "deleting" THEN Vanish ELSE UNCHANGED apiVars
    /\ UNCHANGED <<cache, queue, job, tasks, timer, history, envVars>>

\* mutant: a task of the same generation is started again
SkipsOlderOnly(n) == job[n] # 0 /\ rec[n].obj.gen < tasks[n][job[n]].gen

\* mutant: a node that reported progress counts as being executed
SkipsReported(n) ==
    \/ job[n] # 0 /\ rec[n].obj.gen <= tasks[n][job[n]].gen
    \/ rec[n].st.phase = "Running" /\ rec[n].st.conds # <<>>

\* shouldSkipOldTask
SkipOldTask(n) == job[n] # 0 /\ rec[n].obj.gen <= tasks[n][job[n]].gen

Suspended(n) == "suspend" \in rec[n].obj.flags

\* steps 5 to 7 of Reconcile when they end it
DecideNothing(n) ==
    /\ rec[n].pc = "decide"
    /\ \/ rec[n].st.phase = "Completed"
       \/ Suspended(n) /\ rec[n].st.phase = "Suspend"
       \/ ~Suspended(n) /\ SkipOldTask(n)
    /\ GoTo(n, "idle")
    /\ UNCHANGED <<apiVars, cache, queue, job, tasks, timer, history, envVars>>

\* mutant: the phase changes but the stop signal is not sent
MarkSuspended(k) == [k EXCEPT !.phase = "Suspend"]

SuspendTask(k) == [SafeClose(k) EXCEPT !.phase = "Suspend"]

SuspendEntry(st) == [ConditionCount(st) EXCEPT !.phase = "Suspend"]

\* handleSuspend: stop the task, then record the Suspend phase
DecideSuspend(n) ==
    /\ rec[n].pc = "decide" /\ Suspended(n)
    /\ rec[n].st.phase \notin {"Completed", "Suspend"}
    /\ IF job[n] = 0 THEN UNCHANGED tasks
       ELSE Update(n, job[n], SuspendTask(tasks[n][job[n]]))
    /\ rec' = [rec EXCEPT ![n] = [rec[n] EXCEPT !.pc = "suspend",
                                                !.st = SuspendEntry(rec[n].st)]]
    /\ UNCHANGED <<apiVars, cache, queue, job, timer, history, envVars>>

SyncSuspend(n) ==
    /\ rec[n].pc = "suspend"
    /\ WriteStatus(n, rec[n].st)
    /\ GoTo(n, "idle")
    /\ UNCHANGED <<cache, queue, job, tasks, timer, history, envVars>>

\* createAndStartTask up to SetTask; the task it replaces is closed first
CreateTask(n) ==
    /\ rec[n].pc = "decide" /\ ~Suspended(n)
    /\ rec[n].st.phase # "Completed" /\ ~SkipOldTask(n)
    /\ \E t \in TaskIds :
         /\ tasks[n][t].pc = "free" /\ \A u \in 1..(t-1) : tasks[n][u].pc # "free"
         /\ tasks' = [tasks EXCEPT ![n] =
                       [u \in TaskIds |->
                          IF u = t THEN [NoTask EXCEPT !.pc = "created",
                                           !.gen = rec[n].obj.gen, !.rv = rec[n].obj.rv]
                          ELSE IF u = job[n] THEN SafeClose(tasks[n][u])
                          ELSE tasks[n][u]]]
         /\ job' = [job EXCEPT ![n] = t]
         /\ rec' = [rec EXCEPT ![n] = [@ EXCEPT !.pc = "start", !.task = t]]
    /\ UNCHANGED <<apiVars, cache, queue, timer, history, envVars>>

\* createAndStartTask after SetTask: persist the start, launch the goroutine,
\* which shares the fetched copy of the status
StartTask(n) ==
    /\ rec[n].pc = "start"
    /\ WriteStatus(n, rec[n].st)
    /\ Update(n, rec[n].task, [tasks[n][rec[n].task] EXCEPT
                               !.pc = "loop", !.idx = 1, !.st = rec[n].st])
    /\ GoTo(n, "idle")
    /\ UNCHANGED <<cache, queue, job, timer, history, envVars>>

\* An API call of Reconcile fails for good (5 minutes of errors, or conflicts
\* until the retries run out).  Only the failures of handleFinalizer and
\* handleSuspend reach the work queue; the others are logged and dropped.
ReconcileFails(n) ==
    /\ rec[n].pc \in {"init", "finalizer", "unfinalize", "suspend", "start"}
    /\ rec[n].pc = "finalizer" =>
         rec[n].obj.life = "live" /\ "finalizer" \notin rec[n].obj.flags
    /\ failures < MaxFailures
    /\ failures' = failures + 1
    /\ queue' = IF rec[n].pc \in {"init", "start"} THEN queue ELSE queue \cup {n}
    /\ GoTo(n, "idle")
    /\ UNCHANGED <<apiVars, cache, job, tasks, timer, history, restarts, deletes>>

-----------------------------------------------------------------------------
(* startTask: the goroutine of task t                                      *)

Looping(k) == k.pc = "loop" /\ k.idx <= NumCommands

\* the stop signal ends the goroutine without finalizeTaskStatus
TaskStopped(n, t) ==
    /\ Looping(tasks[n][t]) /\ Closed(tasks[n][t])
    /\ Update(n, t, [tasks[n][t] EXCEPT !.pc = "done"])
    /\ UNCHANGED <<apiVars, cache, queue, rec, job, timer, history, envVars>>

\* no command is left, or the deadline has passed
TaskLoopEnds(n, t) ==
    /\ tasks[n][t].pc = "loop"
    /\ \/ /\ tasks[n][t].idx > NumCommands
          /\ Update(n, t, [tasks[n][t] EXCEPT !.pc = "final"])
       \/ /\ ~Closed(tasks[n][t]) /\ Deadline
          /\ Update(n, t, [tasks[n][t] EXCEPT !.pc = "final", !.flags = @ \cup {"expired"}])
    /\ UNCHANGED <<apiVars, cache, queue, rec, job, timer, history, envVars>>

\* the goroutine is at a command it may look at
AtCommand(k) == Looping(k) /\ ~Closed(k) /\ ~Expired(k)

TaskSkipsCompleted(n, t) ==
    LET k == tasks[n][t]
    IN  /\ AtCommand(k) /\ IsCommandCompleted(k.st.conds, k.idx)
        /\ Update(n, t, [k EXCEPT !.idx = @ + 1])
        /\ UNCHANGED <<apiVars, cache, queue, rec, job, timer, history, envVars>>

\* the copy of the status with condition i replaced
WithCondition(st, i, c) == [st EXCEPT !.conds = ReplaceCondition(@, i, c)]

\* processExecCommand puts a Running condition in its copy of the status
TaskBegins(n, t) ==
    LET k == tasks[n][t]
    IN  /\ AtCommand(k) /\ ~IsCommandCompleted(k.st.conds, k.idx)
        /\ Update(n, t, [k EXCEPT !.pc = "exec",
                                  !.st = WithCondition(@, k.idx, NewCondition)])
        /\ UNCHANGED <<apiVars, cache, queue, rec, job, timer, history, envVars>>

\* what executeWithRetry leaves in the condition: success on some attempt,
\* every attempt failed, or the deadline passed before or after failed attempts
Outcomes == {"success", "failure"} \cup (IF Deadline THEN {"late", "lateFailure"} ELSE {})

ConditionAfter(i, outcome) ==
    CASE outcome = "success" -> [phase |-> "Completed", status |-> "True"]
      [] outcome = "late"    -> NewCondition
      [] OTHER -> [phase  |-> IF i \in Ignorable THEN "Skip" ELSE "Failed",
                   status |-> "False"]

\* executeWithRetry returns, backoffIgnore is applied
TaskExecutes(n, t) ==
    LET k == tasks[n][t]
    IN  /\ k.pc = "exec"
        /\ \E o \in Outcomes :
             /\ Update(n, t, [k EXCEPT
                  !.pc = "sync",
                  !.flags = IF o \in {"late", "lateFailure"} THEN @ \cup {"expired"} ELSE @,
                  !.st = WithCondition(@, k.idx, ConditionAfter(k.idx, o))])
             /\ succeeded' = IF o = "success"
                             THEN [succeeded EXCEPT ![n] = @ \cup {k.idx}] ELSE succeeded
             /\ tried' = IF o = "late" THEN tried ELSE [tried EXCEPT ![n] = @ \cup {k.idx}]
        /\ UNCHANGED <<apiVars, cache, queue, rec, job, timer, envVars>>

\* mutant: a failed command does not end the loop
NeverBreaks(k) == FALSE

ShouldBreak(k) == ~Expired(k) /\ k.st.conds[k.idx].phase = "Failed"

\* the status write after each command; a failed command ends the loop
TaskSyncs(n, t) ==
    LET k == tasks[n][t]
    IN  /\ k.pc = "sync"
        /\ WriteStatus(n, k.st)
        /\ Update(n, t, IF ShouldBreak(k) THEN [k EXCEPT !.pc = "final"]
                        ELSE [k EXCEPT !.pc = "loop", !.idx = @ + 1])
        /\ UNCHANGED <<cache, queue, rec, job, timer, history, envVars>>

\* finalizeTaskStatus up to its status write
TaskFinalizes(n, t) ==
    LET k  == tasks[n][t]
        st == ConditionCount(k.st)
    IN  /\ k.pc = "final"
        /\ WriteStatus(n, st)
        /\ Update(n, t, [k EXCEPT !.pc = "settle", !.st = st])
        /\ UNCHANGED <<cache, queue, rec, job, timer, history, envVars>>

\* finalizeTaskStatus after the write: it settles whatever task the job table
\* holds by now
TaskSettles(n, t) ==
    /\ tasks[n][t].pc = "settle"
    /\ tasks' = [tasks EXCEPT ![n] = [u \in TaskIds |->
                   [tasks[n][u] EXCEPT
                      !.pc    = IF u = t THEN "done" ELSE @,
                      !.phase = IF u = job[n] THEN tasks[n][t].st.phase ELSE @,
                      !.flags = IF u = job[n] THEN @ \cup {"closed"} ELSE @]]]
    /\ UNCHANGED <<apiVars, cache, queue, rec, job, timer, history, envVars>>

\* a status write of the goroutine fails for good: it returns, the job table
\* keeps the task as it is
TaskFails(n, t) ==
    /\ tasks[n][t].pc \in {"sync", "final"}
    /\ failures < MaxFailures
    /\ failures' = failures + 1
    /\ Update(n, t, [tasks[n][t] EXCEPT !.pc = "done"])
    /\ UNCHANGED <<apiVars, cache, queue, rec, job, timer, history, restarts, deletes>>

-----------------------------------------------------------------------------
(* The TTL loop                                                            *)

\* isCommandReadyForDeletion looks at the entries that are there
ReadyForDeletion(n) ==
    \A m \in Nodes : cache[n].status[m].phase # "absent" => cache[n].status[m].status = "True"

\* processTTLTask on the only task of the table
ProcessTTL(n) ==
    /\ job[n] # 0 /\ TTL
    /\ "timed" \notin tasks[n][job[n]].flags /\ tasks[n][job[n]].phase = "Completed"
    /\ IF cache[n].obj.life = "gone"
       THEN job' = [job EXCEPT ![n] = 0] /\ UNCHANGED <<tasks, timer>>
       ELSE /\ ReadyForDeletion(n)
            /\ Update(n, job[n], [tasks[n][job[n]] EXCEPT !.flags = @ \cup {"timed"}])
            /\ timer' = timer \cup {n}
            /\ UNCHANGED job
    /\ UNCHANGED <<apiVars, cache, queue, rec, history, envVars>>

\* the callback scheduleCommandDeletion armed
TimerFires(n) ==
    /\ n \in timer
    /\ timer' = timer \ {n}
    /\ RequestDelete
    /\ UNCHANGED <<cache, queue, rec, job, tasks, history, envVars>>

NoReconcile == [pc |-> "idle", obj |-> NoObject, st |-> NoStatus, task |-> 0]

EmptyCache == [obj |-> NoObject, status |-> [m \in Nodes |-> NoStatus]]

\* the agent process dies and systemd starts it again: only the API server
\* remembers anything
Restart(n) ==
    /\ restarts < MaxRestarts
    /\ restarts' = restarts + 1
    /\ cache' = [cache EXCEPT ![n] = EmptyCache]
    /\ queue' = queue \ {n}
    /\ rec' = [rec EXCEPT ![n] = NoReconcile]
    /\ job' = [job EXCEPT ![n] = 0]
    /\ tasks' = [tasks EXCEPT ![n] = [t \in TaskIds |-> NoTask]]
    /\ timer' = timer \ {n}
    /\ UNCHANGED <<apiVars, history, failures, deletes>>

-----------------------------------------------------------------------------
Init ==
    /\ obj = [NoObject EXCEPT !.life = "live", !.gen = 1, !.rv = FirstRV]
    /\ status = [n \in Nodes |-> NoStatus]
    /\ cache = [n \in Nodes |-> EmptyCache]
    /\ queue = {} /\ timer = {}
    /\ rec = [n \in Nodes |-> NoReconcile]
    /\ job = [n \in Nodes |-> 0]
    /\ tasks = [n \in Nodes |-> [t \in TaskIds |-> NoTask]]
    /\ succeeded = [n \in Nodes |-> {}]
    /\ tried = [n \in Nodes |-> {}]
    /\ restarts = 0 /\ failures = 0 /\ deletes = 0

Reconcile(n) ==
    \/ Fetch(n) \/ InitStatus(n) \/ EnsureFinalizer(n) \/ CleanupTask(n)
    \/ RemoveFinalizer(n) \/ DecideNothing(n) \/ DecideSuspend(n)
    \/ SyncSuspend(n) \/ CreateTask(n) \/ StartTask(n)

Goroutine(n, t) ==
    \/ TaskStopped(n, t) \/ TaskLoopEnds(n, t) \/ TaskSkipsCompleted(n, t)
    \/ TaskBegins(n, t) \/ TaskExecutes(n, t) \/ TaskSyncs(n, t) \/ TaskFinalizes(n, t)
    \/ TaskSettles(n, t)

Next ==
    \/ ToggleSuspend \/ ManagerDelete
    \/ \E n \in Nodes :
         \/ Deliver(n) \/ Reconcile(n) \/ ReconcileFails(n)
         \/ \E t \in TaskIds : Goroutine(n, t) \/ TaskFails(n, t)
         \/ ProcessTTL(n) \/ TimerFires(n) \/ Restart(n)

Spec == Init /\ [][Next]_vars

\* Watches deliver, the worker and the goroutines are scheduled, timers fire.
\* Nothing forces a pause, a deletion, a crash or a failed call.
Fairness ==
    \A n \in Nodes :
      /\ WF_vars(Deliver(n)) /\ WF_vars(Reconcile(n))
      /\ \A t \in TaskIds : WF_vars(Goroutine(n, t))
      /\ WF_vars(ProcessTTL(n)) /\ WF_vars(TimerFires(n))

FairSpec == Spec /\ Fairness

-----------------------------------------------------------------------------
(* Properties                                                              *)

TypeOK ==
    /\ obj \in Meta
    /\ status \in [Nodes -> StatusEntry]
    /\ cache \in [Nodes -> CacheEntry]
    /\ queue \subseteq Nodes /\ timer \subseteq Nodes
    /\ rec \in [Nodes -> Reconciler]
    /\ job \in [Nodes -> 0..MaxTasks]
    /\ tasks \in [Nodes -> [TaskIds -> Task]]
    /\ succeeded \in [Nodes -> SUBSET Commands]
    /\ tried \in [Nodes -> SUBSET Commands]
    /\ restarts \in Nat /\ failures \in Nat /\ deletes \in Nat

\* command i is done when it succeeded, or was tried and backoffIgnore lets it fail
Done(i, S, T) == i \in S \/ i \in Ignorable \cap T

Accomplished(n, i) == Done(i, succeeded[n], tried[n])

\* A node whose status entry says Completed has really run every command of the
\* spec to success, or tried it when backoffIgnore lets it fail: whatever was
\* skipped after a crash, a pause or a stale read had been done before.
HonestCompletion ==
    \A n \in Nodes : status[n].phase = "Completed" =>
        \A i \in Commands : Accomplished(n, i)

\* startTask never reaches a command before the conditions of all earlier
\* commands exist, and each of those commands is accomplished: the order and
\* the stop-on-failure rule of spec.commands survive retries and restarts.
InOrderConditions ==
    \A n \in Nodes, t \in TaskIds :
        tasks[n][t].pc \in {"loop", "exec", "sync"} /\ ~Expired(tasks[n][t]) =>
            /\ tasks[n][t].idx <= Len(tasks[n][t].st.conds) + 1
            /\ \A i \in 1..(tasks[n][t].idx - 1) : Accomplished(n, i)

\* No agent holds a task for a live Command without the finalizer that makes the
\* deletion of the Command wait for cleanupTask.
FinalizerHeld ==
    \A n \in Nodes : Exists /\ job[n] # 0 => "finalizer" \in obj.flags

\* Once the Command is gone, no goroutine will start another of its commands:
\* handleDeletion stopped the tasks before it let the Command go.
GoneMeansStopped ==
    ~Exists => \A n \in Nodes, t \in TaskIds :
        tasks[n][t].pc \in {"created", "loop", "exec", "sync"} => Closed(tasks[n][t])

\* A node's Completed entry is never taken back while the Command exists: no late
\* write of a goroutine, a restart or a stale reconcile reopens a finished node.
CompletionIsFinal ==
    [][\A n \in Nodes : status[n].phase = "Completed" /\ Exists' =>
         status'[n].phase = "Completed"]_vars

\* At most one goroutine per node runs commands of the Command: a duplicate event,
\* a requeue or a restart never starts a second one next to it.
OneRunner ==
    \A n \in Nodes, t, u \in TaskIds :
        tasks[n][t].pc = "exec" /\ tasks[n][u].pc = "exec" => t = u

\* Suspending keeps the next command from starting: once an agent has nothing left
\* to do about a suspended Command, no goroutine of it can begin another command.
SuspendHonoured ==
    \A n \in Nodes :
        /\ Exists /\ "suspend" \in obj.flags /\ cache[n].obj = obj /\ n \notin queue
        /\ rec[n].pc = "idle"
        => \A t \in TaskIds : tasks[n][t].pc \in {"loop", "exec", "sync"} => Closed(tasks[n][t])

\* A spec change is never lost: an agent that has seen the current, unsuspended spec
\* and has nothing left to do about it holds a task of this generation or is done.
SpecChangeHandled ==
    \A n \in Nodes :
        /\ obj.life = "live" /\ cache[n].obj = obj /\ n \notin queue
        /\ rec[n].pc = "idle"
        => \/ "suspend" \in obj.flags \/ cache[n].status[n].phase = "Completed"
           \/ job[n] # 0 /\ tasks[n][job[n]].gen = obj.gen

Settled(n) == status[n].phase \in {"Completed", "Failed"}

\* Every selected node ends with a final phase and keeps it, or the Command is
\* deleted: no crash, duplicate event or stale read leaves a node Running forever.
\* Only a status write that fails for good and a deadline that cuts a task short
\* may do that.
EveryNodeSettles ==
    \A n \in Nodes : <>[](\/ Settled(n) \/ ~Exists \/ failures > 0
                           \/ \E t \in TaskIds : Expired(tasks[n][t]))

-----------------------------------------------------------------------------
(* The inductive invariant behind HonestCompletion, InOrderConditions and  *)
(* FinalizerHeld                                                           *)

\* what holds of every copy of a node's status entry, however stale, when S are the
\* commands that succeeded on the node and T those it tried: a Completed or Skip
\* condition tells the truth, every condition but the last belongs to a command
\* that is done, and a Completed entry to a finished run
EntryOK(st, S, T) ==
    /\ Len(st.conds) <= NumCommands
    /\ \A i \in 1..(Len(st.conds) - 1) : Done(i, S, T)
    /\ \A i \in 1..Len(st.conds) :
         /\ st.conds[i].phase = "Completed" => i \in S
         /\ st.conds[i].phase = "Skip" => i \in Ignorable \cap T
    /\ st.phase = "Completed" => \A i \in Commands : Done(i, S, T)

\* what holds of a goroutine on its way through the commands
ProgressOK(k, S, T) ==
    /\ k.pc \in {"loop", "exec", "sync"} =>
         /\ k.idx \in 1..(NumCommands + 1)
         /\ ~Expired(k) => \A i \in 1..(k.idx - 1) : Done(i, S, T)
         /\ ~Expired(k) => k.idx <= Len(k.st.conds) + 1
    /\ k.pc = "exec" => ~Expired(k)
    /\ k.pc \in {"exec", "sync"} => k.idx \in 1..Len(k.st.conds)
    /\ k.pc = "sync" /\ ~Expired(k) =>
         k.st.conds[k.idx].phase \in {"Completed", "Skip", "Failed"}

StatusOK == \A n \in Nodes : EntryOK(status[n], succeeded[n], tried[n])
CacheOK  == \A m, n \in Nodes : EntryOK(cache[m].status[n], succeeded[n], tried[n])
RecOK    == \A n \in Nodes : EntryOK(rec[n].st, succeeded[n], tried[n])
TasksOK  == \A n \in Nodes, t \in TaskIds :
                /\ EntryOK(tasks[n][t].st, succeeded[n], tried[n])
                /\ ProgressOK(tasks[n][t], succeeded[n], tried[n])

EntriesOK == StatusOK /\ CacheOK /\ RecOK /\ TasksOK

\* a Command without the finalizer is one no agent has got past ensureFinalizer with
FinalizerOK ==
    Exists /\ "finalizer" \notin obj.flags =>
      \A n \in Nodes :
        /\ job[n] = 0 
        /\ "finalizer" \notin cache[n].obj.flags /\ "finalizer" \notin rec[n].obj.flags
        /\ rec[n].pc \notin {"decide", "suspend", "start"}

IInv == TypeOK /\ EntriesOK /\ FinalizerOK
=============================================================================
