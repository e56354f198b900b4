--------------------------- MODULE MachineBootstrap ---------------------------
(***************************************************************************)
(* How worker nodes join and leave the target cluster: the BKEMachine      *)
(* controller (several machines are reconciled at the same time), the      *)
(* phases EnsureWorkerJoin and EnsureWorkerDelete of the BKECluster        *)
(* controller, which run one after the other, and as much of Cluster API   *)
(* and of the agents as they rely on.  The control plane is initialised,   *)
(* the agents of all nodes are ready and their environment is prepared.    *)
(*                                                                         *)
(* The controller reads machines and Commands from the informer caches     *)
(* ("seen" and "seenCmd"), which lag behind the API server.  What a        *)
(* reconcile changes in its machine it patches twice: when its commands    *)
(* are processed, and at its end.  nodesBootRecord is memory: a restart    *)
(* empties it.                                                             *)
(***************************************************************************)
EXTENDS StatusManager, FiniteSets, FiniteSetsExt

CONSTANTS
    Nodes,        \* the worker nodes
    Machines,     \* names for machines
    None,         \* no node, no machine
    MaxCommands,  \* bound on Commands of one kind for one node at one time
    MaxFails,     \* bound on bootstraps and resets that fail
    MaxEdits,     \* bound on the BKENodes that users add or remove
    MaxFaults,    \* bound on crashes, failing API calls, stale reads and time-outs
    MaxEvents     \* bound on all of these together

ASSUME BootAssumption ==
    /\ None \notin Nodes \cup Machines
    /\ IsFiniteSet(Nodes) /\ IsFiniteSet(Machines)
    /\ {MaxCommands, MaxFails, MaxEdits, MaxFaults, MaxEvents} \subseteq Nat

VARIABLES
    node,       \* the BKENodes
    machine,    \* the BKEMachines (and the Machines that own them)
    seen,       \* the BKEMachines in the informer cache
    cmd,        \* the bootstrap and reset commands
    seenCmd,    \* the commands in the informer cache
    joined,     \* the nodes of the target cluster
    bootRecord, \* nodesBootRecord
    rec,        \* the StatusRecords of the nodes
    replicas,   \* replicas of the MachineDeployment
    paused,     \* is the MachineDeployment paused?
    queue,      \* the machines in the controller's queue
    run,        \* the reconcile of each machine
    phase,      \* the phase that the BKECluster controller executes
    fails,      \* number of failed bootstraps and resets
    edits,      \* number of BKENodes added or removed by users
    faults      \* number of faults

vars == <<node, machine, seen, cmd, seenCmd, joined, bootRecord, rec, replicas,
          paused, queue, run, phase, fails, edits, faults>>

NodeStates == {Blank, "BootStrapping", "BootStrapFailed", "NotReady", "Deleting"}

\* need and flag are the bits NodeStateNeedRecord and NodeFailedFlag.
BKENode == [exists: BOOLEAN, boot: BOOLEAN, skip: BOOLEAN, need: BOOLEAN,
            flag: BOOLEAN, state: NodeStates]

NewNode == [exists |-> TRUE, boot |-> FALSE, skip |-> FALSE, need |-> FALSE,
            flag |-> FALSE, state |-> Blank]

(***************************************************************************)
(* label is the host label, node is Status.Node, ref says that the Machine *)
(* has its provider id and its NodeRef, chosen that it carries the delete  *)
(* annotation for the MachineSet, marked that the BKEMachine is annotated  *)
(* by its own deletion.                                                    *)
(***************************************************************************)
BKEMachine ==
    [exists: BOOLEAN, fin: BOOLEAN, label: Nodes \cup {None},
     node: Nodes \cup {None}, booted: BOOLEAN, ref: BOOLEAN,
     chosen: BOOLEAN, deleting: BOOLEAN, marked: BOOLEAN]

NoMachine == [exists |-> FALSE, fin |-> FALSE, label |-> None, node |-> None,
              booted |-> FALSE, ref |-> FALSE, chosen |-> FALSE,
              deleting |-> FALSE, marked |-> FALSE]

(***************************************************************************)
(* A Command; its name is made of kind, node and time of creation, and     *)
(* done is CommandReconciledAnnotation.                                    *)
(***************************************************************************)
Commands == [kind: {"boot", "reset"}, node: Nodes, time: 1..MaxCommands,
             owner: Machines, result: {Blank, "ok", "fail"}, done: BOOLEAN]

\* old is the object as it was read or last patched, obj the copy that the
\* reconcile changes, host the node of its label, todo the commands, as they
\* were read, that it still has to process, again that it asks to be queued without an error.
Idle == [at |-> "idle", old |-> NoMachine, obj |-> NoMachine, host |-> None,
         todo |-> {}, cands |-> {}, pick |-> None, err |-> FALSE, again |-> FALSE]

RunPoints == {"idle", "commands", "patchCommands", "pick", "create", "delete",
              "newReset", "waitReset", "patch", "cleanup"}

Runs == [at: RunPoints, old: BKEMachine, obj: BKEMachine,
         host: Nodes \cup {None}, todo: SUBSET Commands, cands: SUBSET Nodes,
         pick: Nodes \cup {None}, err: BOOLEAN, again: BOOLEAN]

NoPhase == [at |-> "idle", todo |-> {}, good |-> {}, bad |-> {}, old |-> 0]

\* The types of the variables.
TypeOK ==
    /\ node \in [Nodes -> BKENode]
    /\ machine \in [Machines -> BKEMachine]
    /\ seen \in [Machines -> BKEMachine]
    /\ cmd \subseteq Commands
    /\ seenCmd \subseteq Commands
    /\ joined \subseteq Nodes
    /\ bootRecord \subseteq Nodes
    /\ rec \in [Nodes -> [failed: NodeStates, normal: NodeStates, count: Nat,
                         requeue: BOOLEAN]]
    /\ replicas \in 0..Cardinality(Nodes)
    /\ paused \in BOOLEAN
    /\ queue \subseteq Machines
    /\ run \in [Machines -> Runs]
    /\ phase \in [at: {"idle", "join", "delete"}, todo: SUBSET Nodes,
                 good: SUBSET Nodes, bad: SUBSET Nodes, old: 0..Cardinality(Nodes)]
    /\ fails \in 0..MaxFails
    /\ edits \in 0..MaxEdits
    /\ faults \in 0..MaxFaults

Init ==
    /\ \E S \in SUBSET Nodes :
           node = [n \in Nodes |-> [NewNode EXCEPT !.exists = n \in S]]
    /\ machine = [m \in Machines |-> NoMachine]
    /\ seen = machine
    /\ cmd = {}
    /\ seenCmd = {}
    /\ joined = {}
    /\ bootRecord = {}
    /\ rec = [n \in Nodes |-> EmptyRecord]
    /\ replicas = 0
    /\ paused = FALSE
    /\ queue = {}
    /\ run = [m \in Machines |-> Idle]
    /\ phase = NoPhase
    /\ fails = 0
    /\ edits = 0
    /\ faults = 0

-----------------------------------------------------------------------------
(* Nodes and their state.                                                  *)

\* UpdateBKENodeState: it does not set NodeStateNeedRecord.
SetNodeState(nd, n, state) ==
    IF nd[n].exists THEN [nd EXCEPT ![n].state = state] ELSE nd

IsFailedState(state) == state = "BootStrapFailed"

(***************************************************************************)
(* The part of SyncStatusUntilComplete that is about nodes.  Nodes that    *)
(* are marked with NodeStateNeedRecord are recorded and lose the mark;     *)
(* then only nodes that still have the mark are written.                   *)
(***************************************************************************)
NeedRecord(nd) == {n \in Nodes : nd[n].exists /\ nd[n].need}

Recorded(nd) ==
    [n \in Nodes |->
        IF n \in NeedRecord(nd)
        THEN LET r == RecordNode(rec[n], nd[n].state,
                                 IsFailedState(nd[n].state))
             IN  [nd[n] EXCEPT !.state = r.state, !.need = FALSE,
                               !.flag = @ \/ r.spent]
        ELSE nd[n]]

SyncNodes(nd) ==
    /\ rec' = [n \in Nodes |->
                   IF n \in NeedRecord(nd)
                   THEN RecordNode(rec[n], nd[n].state,
                                   IsFailedState(nd[n].state)).rec
                   ELSE rec[n]]
    /\ node' = [n \in Nodes |->
                    IF n \in NeedRecord(Recorded(nd))
                    THEN Recorded(nd)[n] ELSE nd[n]]

Existing == {n \in Nodes : node[n].exists}

Live(m) == machine[m].exists /\ ~machine[m].deleting

\* NodeToMachine: the Machine with the provider id of the node.
NodeToMachine(n) ==
    {m \in Machines : machine[m].exists /\ machine[m].ref
                          /\ machine[m].node = n}

MoreEvents == fails + edits + faults < MaxEvents

Fault == faults < MaxFaults /\ MoreEvents /\ faults' = faults + 1

-----------------------------------------------------------------------------
(* Commands.                                                               *)

SameName(c, d) == c.kind = d.kind /\ c.node = d.node /\ c.time = d.time

\* The Command with the name of c, if it is there.
Named(c, commands) == {d \in commands : SameName(c, d)}

Family(kind, n, commands) == {c \in commands : c.kind = kind /\ c.node = n}

(***************************************************************************)
(* newCommand: handleUniqueCommand deletes the first Command of the same   *)
(* kind for the same node that is in the cache.  The time of the new one   *)
(* is one that nothing remembers.                                          *)
(***************************************************************************)
AfterUnique(kind, n) ==
    IF Family(kind, n, seenCmd) = {} THEN {cmd}
    ELSE {cmd \ Named(c, cmd) : c \in Family(kind, n, seenCmd)}

Times(kind, n) ==
    LET old == {c.time : c \in Family(kind, n,
                    cmd \cup seenCmd \cup UNION {run[m].todo : m \in Machines})}
        free == (1..MaxCommands) \ old
    IN  {t \in free : \A u \in free : t <= u}

NewCommands(kind, n, m) ==
    [kind: {kind}, node: {n}, time: Times(kind, n), owner: {m},
     result: {Blank}, done: {FALSE}]

\* The commands with c changed to d.
Changed(c, d) == (cmd \ {c}) \cup {d}

OwnedBy(m, commands) == {c \in commands : c.owner = m}

\* Does the controller read what the API server has?
Fresh(m) == seen[m] = machine[m] /\ OwnedBy(m, seenCmd) = OwnedBy(m, cmd)

-----------------------------------------------------------------------------
(* The patches of a machine.                                               *)

Goto(m, r) == run' = [run EXCEPT ![m] = r]

At(m, point) == run[m].at = point

To(m, point) == [run[m] EXCEPT !.at = point]

\* patchBKEMachine writes what the reconcile has changed.
Patched(m) ==
    LET old == run[m].old
        obj == run[m].obj
    IN  [machine[m] EXCEPT
            !.label = IF obj.label # old.label THEN obj.label ELSE @,
            !.node = IF obj.node # old.node THEN obj.node ELSE @,
            !.booted = @ \/ (obj.booted /\ ~old.booted),
            !.fin = @ /\ ~(old.fin /\ ~obj.fin)]

ToPatch(m) == machine[m].exists /\ Patched(m) # machine[m]

\* A machine without finalizer that is being deleted is gone, with the commands
\* it owns.
PatchMachine(m) ==
    LET new == Patched(m)
    IN  CASE ~ToPatch(m) -> UNCHANGED <<machine, cmd>>
          [] ToPatch(m) /\ (new.fin \/ ~new.deleting) ->
                 /\ machine' = [machine EXCEPT ![m] = new]
                 /\ UNCHANGED cmd
          [] ToPatch(m) /\ ~new.fin /\ new.deleting ->
                 /\ machine' = [machine EXCEPT ![m] = NoMachine]
                 /\ cmd' = cmd \ OwnedBy(m, cmd)

-----------------------------------------------------------------------------
(* The reconcile of a machine.                                             *)

\* getBKEMachineAssociateCommands lists them from the cache.
Associated(m) == {c \in OwnedBy(m, seenCmd) : ~c.done}

\* getRoleNodes asks neither for NeedSkip nor for the state of a node.
ReadyNodes == {n \in Existing : ~node[n].boot}

\* The end of a reconcile; a patch without a change is no call of the API.
End(r) ==
    IF r.obj = r.old /\ r.obj.fin /\ ~r.err /\ ~r.again THEN Idle
    ELSE [r EXCEPT !.at = "patch", !.host = None, !.cands = {}, !.pick = None]

\* reconcile and reconcileBootstrap up to the choice of a node.
ReconcileBootstrap(r) ==
    IF r.err \/ r.obj.deleting \/ r.obj.booted \/ r.obj.label # None
           \/ ReadyNodes = {}
    THEN End(r)
    ELSE [r EXCEPT !.at = "pick", !.host = None, !.cands = ReadyNodes]

\* reconcileCommand: the node is the one of the label, whatever node a command
\* is for; a machine without one has nothing to process.
ReconcileCommand(m, r) ==
    IF r.obj.label \in Existing /\ Associated(m) # {}
    THEN [r EXCEPT !.at = "commands", !.host = r.obj.label, !.todo = Associated(m)]
    ELSE ReconcileBootstrap(r)

\* Reconcile and handleMainReconcile up to the choice of what to do.  The
\* finalizer is added, and written, first.  A reconcile that reads old versions
\* from the caches counts as a fault.
Reconcile(m) ==
    /\ m \in queue
    /\ At(m, "idle")
    /\ IF Fresh(m) THEN UNCHANGED faults ELSE Fault
    /\ queue' = queue \ {m}
    /\ LET old == [seen[m] EXCEPT !.fin = TRUE]
           r == [Idle EXCEPT !.old = old, !.obj = old]
           flagged == old.label \in Existing /\ node[old.label].flag
       IN  IF ~seen[m].exists \/ (~seen[m].fin /\ ~machine[m].exists)
           THEN UNCHANGED <<machine, run>>
           ELSE /\ machine' = IF seen[m].fin THEN machine
                              ELSE [machine EXCEPT ![m].fin = TRUE]
                /\ Goto(m, CASE old.deleting /\ ~old.marked ->
                                  [r EXCEPT !.at = "delete"]
                             [] ~old.deleting /\ flagged -> Idle
                             [] OTHER -> ReconcileCommand(m, r))
    /\ UNCHANGED <<node, seen, cmd, seenCmd, joined, bootRecord, rec, replicas,
                   paused, phase, fails, edits>>

Processing(m, x, kind) ==
    /\ At(m, "commands")
    /\ x \in run[m].todo
    /\ x.kind = kind

\* A command is processed; what was changed is patched after the last one.
Processed(x, r) ==
    LET s == [r EXCEPT !.todo = @ \ {x}]
    IN  IF s.todo # {} THEN s
        ELSE IF s.obj # s.old THEN [s EXCEPT !.at = "patchCommands"]
        ELSE ReconcileBootstrap(s)

\* processBootstrapCommand first forgets that the node was picked.
ForgetPick(m) == bootRecord' = bootRecord \ {run[m].host}

(***************************************************************************)
(* markCommandReconciled and SyncStatusUntilComplete, after the node was   *)
(* changed to nd.  A failure of either, or a command that is gone, is an   *)
(* error of the reconcile, which goes on with the next command.            *)
(***************************************************************************)
MarkCommandReconciled(m, x, nd, r) ==
    \E marked, synced \in BOOLEAN :
        /\ IF marked /\ synced THEN UNCHANGED faults ELSE Fault
        /\ cmd' = {[c EXCEPT !.done = @ \/ (marked /\ SameName(c, x))] : c \in cmd}
        /\ IF synced THEN SyncNodes(nd) ELSE node' = nd /\ UNCHANGED rec
        /\ Goto(m, Processed(x, [r EXCEPT !.err = @ \/ Named(x, cmd) = {}
                                                    \/ ~marked \/ ~synced]))

\* The command runs, or the machine has bootstrapped before.
ProcessBootstrapCommand(m, x) ==
    /\ Processing(m, x, "boot")
    /\ x.result = Blank \/ run[m].obj.booted
    /\ ForgetPick(m)
    /\ Goto(m, Processed(x, run[m]))
    /\ UNCHANGED <<node, machine, seen, cmd, seenCmd, joined, rec, replicas,
                   paused, queue, phase, fails, edits, faults>>

\* The machine gives its label up, so that it can bootstrap again.
ProcessBootstrapFailure(m, x) ==
    /\ Processing(m, x, "boot")
    /\ x.result = "fail"
    /\ ~run[m].obj.booted
    /\ ForgetPick(m)
    /\ MarkCommandReconciled(m, x,
            SetNodeState(node, run[m].host, "BootStrapFailed"),
            [run[m] EXCEPT !.obj.label = None, !.again = FALSE])
    /\ UNCHANGED <<machine, seen, seenCmd, joined, replicas, paused, queue,
                   phase, fails, edits>>

\* The target cluster shows the node of the label.
Connected(m) == run[m].host \in joined

\* The node is there: markBKEMachineBootstrapReady.
ProcessBootstrapSuccess(m, x) ==
    /\ Processing(m, x, "boot")
    /\ x.result = "ok"
    /\ ~run[m].obj.booted
    /\ Connected(m)
    /\ ForgetPick(m)
    /\ LET n == run[m].host
           ready == SetNodeState(node, n, "NotReady")
       IN  MarkCommandReconciled(m, x,
               [ready EXCEPT ![n].boot = ready[n].exists],
               [run[m] EXCEPT !.obj.booted = TRUE])
    /\ UNCHANGED <<machine, seen, seenCmd, joined, replicas, paused, queue,
                   phase, fails, edits>>

\* The node is not there after DefaultNodeConnectTimeout, or the cluster cannot
\* be read: the command will be looked at again.
HandleBootstrapSuccessFailure(m, x) ==
    /\ Processing(m, x, "boot")
    /\ x.result = "ok"
    /\ ~run[m].obj.booted
    /\ IF Connected(m) THEN Fault ELSE UNCHANGED faults
    /\ ForgetPick(m)
    /\ SyncNodes(SetNodeState(node, run[m].host, "BootStrapFailed"))
    /\ Goto(m, Processed(x, [run[m] EXCEPT !.again = TRUE]))
    /\ UNCHANGED <<machine, seen, cmd, seenCmd, joined, replicas, paused, queue,
                   phase, fails, edits>>

\* processResetCommand, for a machine that is marked: the reset command of an
\* earlier reconcile, ended or not.
ProcessResetCommand(m, x) ==
    /\ Processing(m, x, "reset")
    /\ LET n == run[m].host
           again == [run[m] EXCEPT !.again = TRUE]
       IN  /\ IF x.result = "ok"
              THEN /\ node' = [node EXCEPT ![n] = [NewNode EXCEPT !.exists = FALSE]]
                   /\ joined' = joined \ {n}
              ELSE UNCHANGED <<node, joined>>
           /\ \/ /\ Goto(m, Processed(x, [again EXCEPT !.obj.fin = FALSE]))
                 /\ UNCHANGED faults
              \/ /\ x.result = "ok"
                 /\ Fault
                 /\ Goto(m, Processed(x, again))
    /\ UNCHANGED <<machine, seen, cmd, seenCmd, bootRecord, rec, replicas, paused,
                   queue, phase, fails, edits>>

\* The deferred patch of reconcileCommand; if it fails that is only logged, and
\* the last patch makes up for it.
PatchCommands(m) ==
    /\ At(m, "patchCommands")
    /\ \/ /\ PatchMachine(m)
          /\ Goto(m, ReconcileBootstrap([run[m] EXCEPT !.old = run[m].obj]))
          /\ UNCHANGED faults
       \/ /\ ToPatch(m)
          /\ Fault
          /\ Goto(m, ReconcileBootstrap(run[m]))
          /\ UNCHANGED <<machine, cmd>>
    /\ UNCHANGED <<node, seen, seenCmd, joined, bootRecord, rec, replicas, paused,
                   queue, phase, fails, edits>>

\* filterAvailableNode, under the mutex: no node that was picked, and no node
\* that the cache shows as the node of a machine.
Available(m) ==
    run[m].cands \ (bootRecord \cup
        {seen[o].label : o \in {p \in Machines : seen[p].exists}})

FilterAvailableNode(m) ==
    /\ At(m, "pick")
    /\ \/ /\ Available(m) = {}
          /\ Goto(m, End(run[m]))
          /\ UNCHANGED bootRecord
       \/ \E n \in Available(m) :
             /\ bootRecord' = bootRecord \cup {n}
             /\ Goto(m, [run[m] EXCEPT !.at = "create", !.pick = n,
                                       !.cands = {}])
    /\ UNCHANGED <<node, machine, seen, cmd, seenCmd, joined, rec, replicas,
                   paused, queue, phase, fails, edits, faults>>

(***************************************************************************)
(* The rest of handleFirstTimeReconciliation and handleRealBootstrap.  If  *)
(* the status cannot be synchronised, or the command not be created, the   *)
(* node stays picked.                                                      *)
(***************************************************************************)
HandleRealBootstrap(m) ==
    /\ At(m, "create")
    /\ LET n == run[m].pick
       IN  \/ /\ SyncNodes(SetNodeState(node, n, "BootStrapping"))
              /\ \E rest \in AfterUnique("boot", n), c \in NewCommands("boot", n, m) :
                     cmd' = rest \cup {c}
              /\ Goto(m, End([run[m] EXCEPT !.obj.label = n, !.obj.node = n]))
              /\ UNCHANGED faults
           \/ /\ Fault
              /\ \/ /\ node' = SetNodeState(node, n, "BootStrapping")
                    /\ UNCHANGED cmd
                 \/ /\ node' = SetNodeState(node, n, "BootStrapFailed")
                    /\ cmd' \in {cmd} \cup AfterUnique("boot", n)
              /\ Goto(m, End([run[m] EXCEPT !.err = TRUE]))
              /\ UNCHANGED rec
    /\ UNCHANGED <<machine, seen, seenCmd, joined, bootRecord, replicas, paused,
                   queue, phase, fails, edits>>

-----------------------------------------------------------------------------
(* The deletion of a machine.                                              *)

\* mutant: the finalizer stays
Hold(r) == r

\* The finalizer is taken off the copy.
LetGo(r) == [r EXCEPT !.obj.fin = FALSE]

\* handlePostNodeSetupCleanup and handlePreDeletionCleanup: a node that is gone
\* with its machine.
Cleanup(n) ==
    /\ bootRecord' = bootRecord \ {n}
    /\ node' = [node EXCEPT ![n] = [NewNode EXCEPT !.exists = FALSE]]

\* reconcileDelete of a machine that is not marked (one that is only has its
\* commands looked at): the machine is marked; one without a node, or whose
\* node cannot be looked up, is let go.
ReconcileDelete(m) ==
    /\ At(m, "delete")
    /\ LET obj == run[m].obj
           n == IF obj.node # None THEN obj.node ELSE obj.label
           failed == [run[m] EXCEPT !.err = TRUE]
       IN  \/ /\ machine[m].exists
              /\ machine' = [machine EXCEPT ![m].marked = TRUE]
              /\ \/ /\ Goto(m, IF n = None THEN End(LetGo(failed))
                               ELSE [To(m, "newReset") EXCEPT !.pick = n])
                    /\ UNCHANGED faults
                 \/ Fault /\ Goto(m, End(LetGo(failed)))
           \/ /\ IF machine[m].exists THEN Fault ELSE UNCHANGED faults
              /\ Goto(m, End(failed))
              /\ UNCHANGED machine
    /\ UNCHANGED <<node, seen, cmd, seenCmd, joined, bootRecord, rec, replicas,
                   paused, queue, phase, fails, edits>>

(***************************************************************************)
(* The node is set to Deleting and executeResetCommand creates the reset   *)
(* command.  If the status cannot be synchronised the reconcile fails; if  *)
(* the command cannot be created that is only logged.                      *)
(***************************************************************************)
ExecuteResetCommand(m) ==
    /\ At(m, "newReset")
    /\ LET n == run[m].pick
           nd == SetNodeState(node, n, "Deleting")
       IN  \/ /\ SyncNodes(nd)
              /\ \E rest \in AfterUnique("reset", n), c \in NewCommands("reset", n, m) :
                     /\ cmd' = rest \cup {c}
                     /\ Goto(m, [To(m, "waitReset") EXCEPT !.todo = {c}])
              /\ UNCHANGED faults
           \/ /\ Fault
              /\ node' = nd
              /\ \E synced \in BOOLEAN :
                     Goto(m, End([run[m] EXCEPT !.err = ~synced]))
              /\ UNCHANGED <<cmd, rec>>
    /\ UNCHANGED <<machine, seen, seenCmd, joined, bootRecord, replicas, paused,
                   queue, phase, fails, edits>>

\* Wait reads the cache and removes the command, if it has seen it, whether it
\* has succeeded, failed or not ended in time; the machine is let go in each case.
WaitReset(m) ==
    /\ At(m, "waitReset")
    /\ \E x \in run[m].todo :
           /\ IF \/ \E c \in Named(x, seenCmd) : c.result # Blank
                 \/ Named(x, cmd) = {}
              THEN UNCHANGED faults ELSE Fault
           /\ cmd' = IF Named(x, seenCmd) = {} THEN cmd ELSE cmd \ Named(x, cmd)
    /\ Cleanup(run[m].pick)
    /\ Goto(m, End(LetGo([run[m] EXCEPT !.todo = {}])))
    /\ UNCHANGED <<machine, seen, seenCmd, joined, rec, replicas, paused, queue,
                   phase, fails, edits>>

(***************************************************************************)
(* The end of a reconcile.  The patch of reconcileBootstrap, or of         *)
(* reconcileDelete, and that of handleMainReconcile write the same         *)
(* changes and stand next to each other: one step is both of them, and it  *)
(* fails when both do, which is only logged.                               *)
(***************************************************************************)
Patch(m) ==
    /\ At(m, "patch")
    /\ queue' = IF run[m].err \/ run[m].again THEN queue \cup {m} ELSE queue
    /\ Goto(m, IF ~run[m].obj.fin /\ run[m].obj.label # None
               THEN To(m, "cleanup") ELSE Idle)
    /\ \/ PatchMachine(m) /\ UNCHANGED faults
       \/ ToPatch(m) /\ Fault /\ UNCHANGED <<machine, cmd>>
    /\ UNCHANGED <<node, seen, seenCmd, joined, bootRecord, rec, replicas, paused,
                   phase, fails, edits>>

\* handlePreDeletionCleanup: the node of the label goes when the machine has gone.
HandlePreDeletionCleanup(m) ==
    /\ At(m, "cleanup")
    /\ Cleanup(run[m].obj.label)
    /\ Goto(m, Idle)
    /\ UNCHANGED <<machine, seen, cmd, seenCmd, joined, rec, replicas, paused,
                   queue, phase, fails, edits, faults>>

ReconcileStep(m) ==
    \/ Reconcile(m)
    \/ \E x \in run[m].todo :
           \/ ProcessBootstrapCommand(m, x)
           \/ ProcessBootstrapFailure(m, x)
           \/ ProcessBootstrapSuccess(m, x)
           \/ HandleBootstrapSuccessFailure(m, x)
           \/ ProcessResetCommand(m, x)
    \/ PatchCommands(m)
    \/ FilterAvailableNode(m)
    \/ HandleRealBootstrap(m)
    \/ ReconcileDelete(m)
    \/ ExecuteResetCommand(m)
    \/ WaitReset(m)
    \/ Patch(m)
    \/ HandlePreDeletionCleanup(m)

-----------------------------------------------------------------------------
(* The phases of the BKECluster controller.                                *)

\* GetNeedJoinWorkerNodes.
NeedJoin == {n \in Existing : ~node[n].skip /\ ~node[n].boot /\ ~node[n].flag}

\* scaleMachineDeployment: never more replicas than nodes.
ScaleUp(count) == Min({replicas + count, Cardinality(Existing)})

\* EnsureWorkerJoin up to the wait: a node whose machine has its provider id
\* has joined.
WorkerJoin ==
    /\ phase.at = "idle"
    /\ NeedJoin # {}
    /\ LET there == {n \in NeedJoin : NodeToMachine(n) # {}}
           todo == NeedJoin \ there
       IN  /\ node' = [n \in Nodes |-> IF n \in there
                                       THEN [node[n] EXCEPT !.boot = TRUE]
                                       ELSE node[n]]
           /\ replicas' = ScaleUp(Cardinality(todo))
           /\ phase' = IF todo = {} THEN NoPhase
                       ELSE [NoPhase EXCEPT !.at = "join", !.todo = todo,
                                            !.old = replicas]
    /\ paused' = FALSE
    /\ UNCHANGED <<machine, seen, cmd, seenCmd, joined, bootRecord, rec, queue,
                   run, fails, edits, faults>>

Waiting == phase.todo \ (phase.good \cup phase.bad)

\* checkSingleNodeStatus: what was found once is not looked at again.
CheckSingleNodeStatus(n) ==
    /\ phase.at = "join"
    /\ n \in Waiting
    /\ IF node[n].exists /\ (node[n].flag \/ IsFailedState(node[n].state))
       THEN /\ node' = [node EXCEPT ![n].skip = TRUE]
            /\ phase' = [phase EXCEPT !.bad = @ \cup {n}]
       ELSE /\ \E m \in NodeToMachine(n) : TRUE
            /\ phase' = [phase EXCEPT !.good = @ \cup {n}]
            /\ UNCHANGED node
    /\ UNCHANGED <<machine, seen, cmd, seenCmd, joined, bootRecord, rec,
                   replicas, paused, queue, run, fails, edits, faults>>

(***************************************************************************)
(* The end of waitWorkerJoin: all nodes are known, or the boot time-out    *)
(* has passed.  Nodes that have not joined are skipped from now on; when   *)
(* all have failed, the replicas are put back, but not after a time-out.   *)
(***************************************************************************)
JoinEnds ==
    /\ phase.at = "join"
    /\ LET bad == phase.todo \ phase.good
           timeout == Waiting # {}
       IN  /\ node' = [n \in Nodes |->
                           IF ~node[n].exists THEN node[n]
                           ELSE [node[n] EXCEPT
                                    !.state = IF n \in phase.good
                                              THEN "NotReady" ELSE @,
                                    !.skip = @ \/ n \in bad]]
           /\ replicas' = IF phase.good = {} /\ ~timeout THEN phase.old
                          ELSE replicas
    /\ phase' = NoPhase
    /\ UNCHANGED <<machine, seen, cmd, seenCmd, joined, bootRecord, rec, paused,
                   queue, run, fails, edits, faults>>

\* GetNeedDeleteWorkerNodesWithTargetNodes: in the target cluster, not here.
NeedDelete == joined \ Existing

(***************************************************************************)
(* EnsureWorkerDelete up to the wait.  A node without a machine is taken   *)
(* out of the target cluster at once; the machines of the others are       *)
(* marked and the MachineDeployment is scaled down.  If no node can be     *)
(* drained the phase fails and leaves the MachineDeployment paused.        *)
(***************************************************************************)
WorkerDelete ==
    /\ phase.at = "idle"
    /\ NeedDelete # {}
    /\ LET lone == {n \in NeedDelete : NodeToMachine(n) = {}}
           ms == UNION {NodeToMachine(n) : n \in NeedDelete}
           del == {m \in ms : Live(m)}
       IN  /\ joined' = joined \ lone
           /\ \/ /\ machine' = [m \in Machines |->
                                   IF m \in del
                                   THEN [machine[m] EXCEPT !.chosen = TRUE]
                                   ELSE machine[m]]
                 /\ replicas' = Max({replicas - Cardinality(del), 0})
                 /\ paused' = (paused /\ del = {})
                 /\ phase' = IF ms = {} THEN NoPhase
                             ELSE [NoPhase EXCEPT !.at = "delete",
                                        !.todo = NeedDelete \ lone]
                 /\ UNCHANGED faults
              \/ /\ del # {}
                 /\ Fault
                 /\ paused' = TRUE
                 /\ UNCHANGED <<machine, replicas, phase>>
    /\ UNCHANGED <<node, seen, cmd, seenCmd, bootRecord, rec, queue, run, fails, edits>>

\* waitWorkerDelete: the machines are gone, or the wait has timed out.
DeleteEnds ==
    /\ phase.at = "delete"
    /\ phase' = NoPhase
    /\ UNCHANGED <<node, machine, seen, cmd, seenCmd, joined, bootRecord, rec,
                   replicas, paused, queue, run, fails, edits, faults>>

-----------------------------------------------------------------------------
(* Cluster API, the agents, the informer, users and restarts.              *)

\* The MachineSet creates machines.  A name is taken again only when nothing
\* remembers the machine that had it.
CreateMachine(m) ==
    /\ ~paused
    /\ Cardinality({o \in Machines : Live(o)}) < replicas
    /\ ~machine[m].exists /\ Fresh(m) /\ At(m, "idle")
    /\ machine' = [machine EXCEPT ![m] = [NoMachine EXCEPT !.exists = TRUE]]
    /\ UNCHANGED <<node, seen, cmd, seenCmd, joined, bootRecord, rec, replicas,
                   paused, queue, run, phase, fails, edits, faults>>

\* The MachineSet deletes annotated machines first, then those without a Node.
DeleteMachine(m) ==
    /\ ~paused
    /\ Cardinality({o \in Machines : Live(o)}) > replicas
    /\ Live(m)
    /\ \/ machine[m].chosen
       \/ /\ \A o \in Machines : Live(o) => ~machine[o].chosen
          /\ ~machine[m].ref \/ \A o \in Machines : Live(o) => machine[o].ref
    /\ machine' = [machine EXCEPT
                       ![m] = IF @.fin THEN [@ EXCEPT !.deleting = TRUE]
                              ELSE NoMachine]
    /\ UNCHANGED <<node, seen, cmd, seenCmd, joined, bootRecord, rec, replicas,
                   paused, queue, run, phase, fails, edits, faults>>

\* The Machine gets the provider id of a bootstrapped BKEMachine and finds
\* its Node.
SetNodeRef(m) ==
    /\ machine[m].exists /\ machine[m].booted /\ ~machine[m].ref
    /\ machine[m].node \in joined
    /\ machine' = [machine EXCEPT ![m].ref = TRUE]
    /\ UNCHANGED <<node, seen, cmd, seenCmd, joined, bootRecord, rec, replicas,
                   paused, queue, run, phase, fails, edits, faults>>

\* The agent of a node runs its commands.
AgentBootstraps(c) ==
    /\ c.kind = "boot" /\ c.result = Blank
    /\ \/ /\ cmd' = Changed(c, [c EXCEPT !.result = "ok"])
          /\ joined' = joined \cup {c.node}
          /\ UNCHANGED fails
       \/ /\ fails < MaxFails /\ MoreEvents
          /\ fails' = fails + 1
          /\ cmd' = Changed(c, [c EXCEPT !.result = "fail"])
          /\ UNCHANGED joined
    /\ UNCHANGED <<node, machine, seen, seenCmd, bootRecord, rec, replicas,
                   paused, queue, run, phase, edits, faults>>

AgentResets(c) ==
    /\ c.kind = "reset" /\ c.result = Blank
    /\ \/ /\ cmd' = Changed(c, [c EXCEPT !.result = "ok"])
          /\ joined' = joined \ {c.node}
          /\ UNCHANGED fails
       \/ /\ fails < MaxFails /\ MoreEvents
          /\ fails' = fails + 1
          /\ cmd' = Changed(c, [c EXCEPT !.result = "fail"])
          /\ UNCHANGED joined
    /\ UNCHANGED <<node, machine, seen, seenCmd, bootRecord, rec, replicas,
                   paused, queue, run, phase, edits, faults>>

\* An event of the informer of machines.
Informer(m) ==
    /\ seen[m] # machine[m]
    /\ seen' = [seen EXCEPT ![m] = machine[m]]
    /\ queue' = queue \cup {m}
    /\ UNCHANGED <<node, machine, cmd, seenCmd, joined, bootRecord, rec,
                   replicas, paused, run, phase, fails, edits, faults>>

\* The informer of Commands catches up.  CommandUpdateCompleted lets updates
\* pass, which wake the owner, but neither creations nor deletions.
CommandInformer ==
    LET updated == {c \in cmd \ seenCmd : Named(c, seenCmd) # {} \/ c.result # Blank}
    IN  /\ seenCmd # cmd
        /\ seenCmd' = cmd
        /\ queue' = queue \cup {c.owner : c \in updated}
        /\ UNCHANGED <<node, machine, seen, cmd, joined, bootRecord, rec, replicas,
                       paused, run, phase, fails, edits, faults>>

\* The informer hands all objects out again every few hours, when the
\* controller has nothing else to do.
Resync ==
    /\ queue = {}
    /\ \A m \in Machines : At(m, "idle")
    /\ queue' = {m \in Machines : seen[m].exists}
    /\ queue' # {}
    /\ UNCHANGED <<node, machine, seen, cmd, seenCmd, joined, bootRecord, rec,
                   replicas, paused, run, phase, fails, edits, faults>>

UserRemoves(n) ==
    /\ edits < MaxEdits /\ MoreEvents
    /\ edits' = edits + 1
    /\ node[n].exists
    /\ node' = [node EXCEPT ![n] = [NewNode EXCEPT !.exists = FALSE]]
    /\ UNCHANGED <<machine, seen, cmd, seenCmd, joined, bootRecord, rec,
                   replicas, paused, queue, run, phase, fails, faults>>

UserAdds(n) ==
    /\ edits < MaxEdits /\ MoreEvents
    /\ edits' = edits + 1
    /\ ~node[n].exists
    /\ node' = [node EXCEPT ![n] = NewNode]
    /\ UNCHANGED <<machine, seen, cmd, seenCmd, joined, bootRecord, rec,
                   replicas, paused, queue, run, phase, fails, faults>>

\* The manager is restarted.
Crash ==
    /\ Fault
    /\ bootRecord' = {}
    /\ rec' = [n \in Nodes |-> EmptyRecord]
    /\ run' = [m \in Machines |-> Idle]
    /\ phase' = NoPhase
    /\ seen' = machine
    /\ seenCmd' = cmd
    /\ queue' = {m \in Machines : machine[m].exists}
    /\ UNCHANGED <<node, machine, cmd, joined, replicas, paused, fails, edits>>

PhaseStep ==
    \/ WorkerJoin
    \/ \E n \in Nodes : CheckSingleNodeStatus(n)
    \/ JoinEnds
    \/ WorkerDelete
    \/ DeleteEnds

MachineSet == \E m \in Machines : CreateMachine(m) \/ DeleteMachine(m)

Agent(n) == \E c \in cmd : c.node = n /\ (AgentBootstraps(c) \/ AgentResets(c))

Next ==
    \/ \E m \in Machines :
           \/ ReconcileStep(m)
           \/ SetNodeRef(m)
           \/ Informer(m)
    \/ CommandInformer
    \/ \E n \in Nodes :
           \/ Agent(n)
           \/ UserRemoves(n)
           \/ UserAdds(n)
    \/ PhaseStep
    \/ MachineSet
    \/ Resync
    \/ Crash

Spec == Init /\ [][Next]_vars

(***************************************************************************)
(* The queue serves every machine, the BKECluster controller goes on from  *)
(* phase to phase, watches deliver, and Cluster API and agents answer.     *)
(***************************************************************************)
Fairness ==
    /\ \A m \in Machines :
           /\ WF_vars(ReconcileStep(m))
           /\ WF_vars(SetNodeRef(m))
           /\ WF_vars(Informer(m))
    /\ \A n \in Nodes : WF_vars(Agent(n))
    /\ WF_vars(CommandInformer)
    /\ WF_vars(PhaseStep)
    /\ WF_vars(MachineSet)
    /\ WF_vars(Resync)

FairSpec == Spec /\ Fairness

-----------------------------------------------------------------------------
(* Properties.                                                             *)

(***************************************************************************)
(* No two machines have the label of the same node.  The comment at        *)
(* nodesBootRecord in filterAvailableNode promises it: a node is not given *)
(* to several workers although the labels may come late.                   *)
(***************************************************************************)
OneMachinePerNode ==
    \A m, o \in Machines :
        /\ machine[m].exists /\ machine[o].exists
        /\ machine[m].label # None
        /\ machine[m].label = machine[o].label
        => m = o

\* A node that was picked, but is the node of no machine: it stays picked until
\* the manager is restarted.
Leaked == \E n \in bootRecord : \A m \in Machines : machine[m].label # n

Open(m, kind) == \E c \in OwnedBy(m, cmd) : c.kind = kind /\ ~c.done

\* Nothing is left that could move the machine: its bootstrap command is done
\* but the machine was not patched, or it is marked and has no reset command
\* that reconcileCommand could find.
Stranded(m) ==
    \/ machine[m].label # None /\ ~Open(m, "boot")
    \/ machine[m].marked /\ (machine[m].label = None \/ ~Open(m, "reset"))

\* A machine without a node that can be joined, after users removed nodes.
NoNodeLeft(m) ==
    /\ edits > 0
    /\ ~machine[m].deleting
    /\ machine[m].label \notin Existing
    /\ machine[m].label = None => ReadyNodes = {}

(***************************************************************************)
(* No machine stays in its deletion, which reconcileDelete starts once and *)
(* never again, and every machine that stays gets a node and bootstraps    *)
(* it, after its bootstraps have failed too.  A fault (a crash, a refused  *)
(* call, a stale read, a time-out) excuses only the two situations named   *)
(* above, which the code does not recover from.                            *)
(***************************************************************************)
MachinesSettle ==
    <>[](\A m \in Machines :
             \/ ~machine[m].deleting /\ (machine[m].exists => machine[m].booted)
             \/ faults > 0 /\ (Leaked \/ Stranded(m))
             \/ NoNodeLeft(m))
=============================================================================
