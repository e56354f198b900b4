------------------------- MODULE RollingUpgradeProofs -----------------------
(***************************************************************************)
(* Proofs about the rolling upgrade, for any masters and workers, any      *)
(* retry budget and any number of restarts.  The type invariant comes      *)
(* first; FlowInv says what the phases that ran have left behind, and      *)
(* carries what must hold before a master is upgraded and before a version *)
(* is recorded; SnapshotInv follows the node that saves etcd; LostInv      *)
(* accounts for every node that is down.                                   *)
(***************************************************************************)
EXTENDS RollingUpgrade, FiniteSetTheorems, TLAPS

\* The phase has selected its nodes.
Looping == mgr.pc \in {"pick", "wait", "health", "record"}

\* The node the manager has sent a Command and has not yet settled.
Watched == IF mgr.pc \in {"wait", "health"} THEN {mgr.node} ELSE {}

\* The node runs the version the phase is to bring.
Runs(p, n) == IF p = "Etcd" THEN etcd[n] = "new" ELSE kubelet[n] = "new"

\* A phase is in progress exactly when the flow is; the node of the loop is
\* still to do, and a Command has a task.
FlowShape ==
    /\ mgr.pc = "idle" <=> mgr.phase = "none"
    /\ mgr.pc \in {"wait", "health"} => mgr.node \in mgr.todo
    /\ mgr.pc = "record" => mgr.todo = {} /\ mgr.errs = {}
    /\ \A n \in Nodes : cmd[n].result # "none" => cmd[n].task \in Tasks

\* The nodes the loop has left behind run the new version, unless they failed.
NodesDone ==
    Looping => \A n \in Select(mgr.phase) \ (mgr.todo \cup mgr.errs) :
                  Runs(mgr.phase, n)

\* What the phases before the current one have brought about.
PhasesBefore ==
    /\ mgr.phase \in {"Worker", "Master"} => status.etcd = "new"
    /\ mgr.phase = "Master" =>
          \A w \in Workers \cap agentReady : kubelet[w] = "new"

FlowInv == FlowShape /\ NodesDone /\ PhasesBefore

\* The node that is to save etcd has done so when the loop has left it.
SnapshotInv ==
    (Looping /\ mgr.phase = "Etcd") =>
        /\ mgr.backup \in Masters
        /\ mgr.backup \in agentReady \ mgr.todo => saved
        /\ (mgr.pc = "wait" /\ mgr.node = mgr.backup) =>
               /\ cmd[mgr.node].result = "running" => cmd[mgr.node].backup
               /\ cmd[mgr.node].result = "ok" => saved
        /\ (mgr.pc = "health" /\ mgr.node = mgr.backup) => saved

\* L holds the nodes with a run that the manager stopped watching: there are
\* no more of them than such runs, a node that is down is watched, reported or
\* one of them, and so is a node on which an agent is at work.
Accounts(L) ==
    /\ Cardinality(L) <= lost
    /\ down \subseteq reported \cup Watched \cup L
    /\ \A n \in Nodes : cmd[n].result = "running" =>
          (mgr.pc = "wait" /\ n = mgr.node) \/ n \in L
    /\ \A n \in Nodes, t \in Tasks : <<n, t>> \in orphans => n \in L

LostInv == \E L \in SUBSET Nodes : Accounts(L)

IInv == TypeOK /\ FlowInv /\ SnapshotInv /\ LostInv

-----------------------------------------------------------------------------
(***************************************************************************)
(* The operators.                                                          *)
(***************************************************************************)
RecordType == [failed : {Blank, "UpgradeFailed"}, normal : {Blank, "Upgrading"},
               count : 0 .. (Limit - 1), requeue : BOOLEAN]

\* The retry budget stays below its limit, whatever is recorded.
LEMMA RecordClusterType ==
    ASSUME NEW r \in RecordType
    PROVE  /\ RecordCluster(r, "UpgradeFailed", TRUE, FALSE).rec \in RecordType
           /\ RecordCluster(r, "UpgradeFailed", TRUE, FALSE).spent \in BOOLEAN
           /\ RecordCluster(r, "Upgrading", FALSE, FALSE).rec \in RecordType
<1>1. /\ Limit \in Nat /\ Limit > 0
      /\ r.count \in 0 .. (Limit - 1) /\ r.requeue \in BOOLEAN
      /\ r.failed \in {Blank, "UpgradeFailed"} /\ r.normal \in {Blank, "Upgrading"}
  BY LimitAssumption DEF RecordType
<1> DEFINE c == CountFailure(r, "UpgradeFailed")
<1>2. c.count \in 1 .. Limit
  BY <1>1 DEF CountFailure, RecordType
<1>3. RecordCluster(r, "Upgrading", FALSE, FALSE).rec \in RecordType
  <2>1. RecordCluster(r, "Upgrading", FALSE, FALSE).rec
          = [r EXCEPT !.normal = "Upgrading", !.requeue = FALSE]
    BY DEF RecordCluster, Blank
  <2>2. [r EXCEPT !.normal = "Upgrading", !.requeue = FALSE] \in RecordType
    BY DEF RecordType
  <2> QED BY <2>1, <2>2
<1>4. c \in [failed : {Blank, "UpgradeFailed"}, normal : {Blank, "Upgrading"},
             count : 1 .. Limit, requeue : BOOLEAN]
  BY <1>1, <1>2 DEF CountFailure, RecordType
<1>5. CASE AllowFailed(c)
  <2>1. /\ RecordCluster(r, "UpgradeFailed", TRUE, FALSE).rec
                = [c EXCEPT !.requeue = TRUE]
        /\ RecordCluster(r, "UpgradeFailed", TRUE, FALSE).spent = FALSE
    BY <1>5 DEF RecordCluster, Blank
  <2> HIDE DEF c
  <2>2. c.count \in 0 .. (Limit - 1)
    BY <1>1, <1>2, <1>5 DEF AllowFailed
  <2>3. [c EXCEPT !.requeue = TRUE] \in RecordType
    BY <1>4, <2>2 DEF RecordType
  <2> QED BY <1>3, <2>1, <2>3
<1>6. CASE ~AllowFailed(c)
  <2>1. /\ RecordCluster(r, "UpgradeFailed", TRUE, FALSE).rec = Spend(c)
        /\ RecordCluster(r, "UpgradeFailed", TRUE, FALSE).spent = TRUE
    BY <1>6 DEF RecordCluster, Blank
  <2> HIDE DEF c
  <2>2. 0 \in 0 .. (Limit - 1)
    BY <1>1
  <2>3. Spend(c) \in RecordType
    BY <1>4, <2>2 DEF Spend, RecordType
  <2> QED BY <1>3, <2>1, <2>3
<1> QED BY <1>5, <1>6

LEMMA IdleIs ==
    Idle = [pc |-> "idle", phase |-> "none", todo |-> {}, node |-> "none",
            backup |-> "none", errs |-> {}]
BY DEF Idle

\* What Enter starts is needed, and nothing needed comes before it.
LEMMA EnterFirst ==
    ASSUME NEW left \in SUBSET Phases, NEW st, Enter(left, st) # Idle
    PROVE  \E p \in left :
              /\ NeedExecute(p, st)
              /\ \A q \in left : NeedExecute(q, st) => Place[p] <= Place[q]
              /\ Enter(left, st) = [pc |-> "select", phase |-> p, todo |-> {},
                                    node |-> "none", backup |-> "none",
                                    errs |-> {}]
<1> DEFINE need == {p \in left : NeedExecute(p, st)}
           IsFirst(p) == \A q \in need : Place[p] <= Place[q]
           first == CHOOSE p \in need : IsFirst(p)
<1>1. need # {}
  BY DEF Enter
<1>2. /\ Place["Etcd"] = 1 /\ Place["Worker"] = 2 /\ Place["Master"] = 3
      /\ \A p \in need : p = "Etcd" \/ p = "Worker" \/ p = "Master"
  BY DEF Place, Phases
<1>3. \E p \in need : IsFirst(p)
  <2> HIDE DEF need
  <2> QED BY <1>1, <1>2
<1>4. first \in need /\ IsFirst(first)
  <2> HIDE DEF need, IsFirst
  <2> QED BY <1>3
<1>5. Enter(left, st) = [Idle EXCEPT !.pc = "select", !.phase = first]
  BY <1>1 DEF Enter
<1>6. Enter(left, st) = [pc |-> "select", phase |-> first, todo |-> {},
                         node |-> "none", backup |-> "none", errs |-> {}]
  <2> HIDE DEF first
  <2> QED BY <1>5, IdleIs
<1> HIDE DEF first
<1> QED BY <1>4, <1>6

\* The three phases, in the order of the flow.
LEMMA AfterIs ==
    /\ After("Etcd") = {"Worker", "Master"}
    /\ After("Worker") = {"Master"}
    /\ After("Master") = {}
BY DEF After, Place, Phases

LEMMA AfterType == \A p \in Phases : After(p) \in SUBSET Phases
BY DEF After

MgrType == [pc : {"idle", "select", "pick", "wait", "health", "record"},
            phase : Phases \cup {"none"}, todo : SUBSET Nodes,
            node : Nodes \cup {"none"}, backup : Masters \cup {"none"},
            errs : SUBSET Nodes]

LEMMA IdleType == Idle \in MgrType
BY DEF Idle, MgrType

LEMMA EnterType ==
    ASSUME NEW left \in SUBSET Phases, NEW st
    PROVE  Enter(left, st) \in MgrType
<1>1. CASE Enter(left, st) = Idle
  BY <1>1, IdleType
<1>2. CASE Enter(left, st) # Idle
  BY <1>2, EnterFirst DEF MgrType
<1> QED BY <1>1, <1>2

-----------------------------------------------------------------------------
(***************************************************************************)
(* Type correctness.                                                       *)
(***************************************************************************)
LEMMA TypeParts ==
    TypeOK => /\ mgr \in MgrType /\ rec \in RecordType
              /\ agentReady \subseteq Nodes /\ down \subseteq Nodes
              /\ reported \subseteq Nodes
BY DEF TypeOK, MgrType, RecordType

\* Ends of a phase that are used by several actions.
LEMMA AbortType ==
    ASSUME TypeOK, Abort
    PROVE  mgr' = Idle /\ mgr' \in MgrType /\ rec' \in RecordType /\ failed' \in BOOLEAN
<1> DEFINE r == RecordCluster(rec, "UpgradeFailed", TRUE, FALSE)
<1>1. mgr' = Idle /\ rec' = r.rec /\ failed' = r.spent
  BY DEF Abort, RecordFailure
<1>2. r.rec \in RecordType /\ r.spent \in BOOLEAN
  BY TypeParts, RecordClusterType
<1> HIDE DEF r
<1> QED BY <1>1, <1>2, IdleType

LEMMA NodeFailsType ==
    ASSUME TypeOK, NodeFails, mgr.node \in Nodes
    PROVE  /\ mgr' \in MgrType /\ rec' \in RecordType /\ failed' \in BOOLEAN
           /\ reported' = reported \cup {mgr.node}
           /\ mgr'.pc \in {"idle", "pick"}
<1>1. CASE Abort
  BY <1>1, AbortType DEF NodeFails, Idle
<1>2. CASE ~Abort
  <2>1. /\ mgr' = [mgr EXCEPT !.pc = "pick", !.node = "none",
                              !.todo = @ \ {mgr.node},
                              !.errs = @ \cup {mgr.node}]
        /\ UNCHANGED <<rec, failed>>
        /\ reported' = reported \cup {mgr.node}
    BY <1>2 DEF NodeFails
  <2> QED BY <2>1, TypeParts DEF MgrType, TypeOK
<1> QED BY <1>1, <1>2

\* The manager and its records keep their types.
LEMMA ManagerType ==
    ASSUME TypeOK, FlowShape, Manager \/ ApiError \/ Restart
    PROVE  mgr' \in MgrType /\ rec' \in RecordType /\ failed' \in BOOLEAN
<1> USE TypeParts
<1>0. /\ mgr \in MgrType /\ rec \in RecordType /\ failed \in BOOLEAN
      /\ mgr.todo \subseteq Nodes
      /\ mgr.pc \in {"wait", "health"} => mgr.node \in Nodes
      /\ mgr.pc = "record" => mgr.phase \in Phases
  BY DEF TypeOK, FlowShape, MgrType, Phases
<1>1. CASE Reconcile
  BY <1>0, <1>1, EnterType DEF Reconcile
<1>2. CASE SelectNodes
  <2>1. CASE Abort
    BY <2>1, AbortType
  <2>2. ASSUME NEW b \in Masters,
               mgr' = [mgr EXCEPT !.pc = "pick", !.todo = Select(mgr.phase),
                                  !.backup = b, !.errs = {}],
               UNCHANGED <<rec, failed>>
        PROVE  mgr' \in MgrType /\ rec' \in RecordType /\ failed' \in BOOLEAN
    <3>1. Select(mgr.phase) \in SUBSET Nodes
      BY DEF TypeOK, Select
    <3> QED BY <1>0, <2>2, <3>1 DEF MgrType
  <2> QED BY <1>2, <2>1, <2>2 DEF SelectNodes
<1>3. CASE CommandOK
  BY <1>0, <1>3 DEF CommandOK, MgrType
<1>4. CASE CommandFails \/ HealthTimeout
  BY <1>0, <1>4, NodeFailsType DEF CommandFails, HealthTimeout
<1>5. CASE NodeOK
  BY <1>0, <1>5 DEF NodeOK, MgrType
<1>6. CASE EndLoop
  <2>1. CASE Abort
    BY <2>1, AbortType
  <2>2. CASE ~Abort
    BY <1>0, <1>6, <2>2 DEF EndLoop, MgrType
  <2> QED BY <2>1, <2>2
<1>7. CASE Record
  <2>1. mgr' \in MgrType
    BY <1>0, <1>7, AfterType, EnterType DEF Record
  <2>2. rec' \in RecordType /\ failed' \in BOOLEAN
    BY <1>0, <1>7, RecordClusterType DEF Record, RecordSuccess
  <2> QED BY <2>1, <2>2
<1>8. ASSUME NEW n \in Nodes, SkipNode(n) \/ StartNode(n)
      PROVE  mgr' \in MgrType /\ rec' \in RecordType /\ failed' \in BOOLEAN
  BY <1>0, <1>8 DEF SkipNode, StartNode, MgrType
<1>9. CASE ApiError
  BY <1>9, AbortType DEF ApiError
<1>10. CASE Restart
  <2>1. EmptyRecord \in RecordType
    BY LimitAssumption DEF EmptyRecord, RecordType
  <2> QED BY <1>0, <1>10, <2>1, IdleType DEF Restart
<1> QED BY <1>1, <1>2, <1>3, <1>4, <1>5, <1>6, <1>7, <1>8, <1>9, <1>10 DEF Manager

CmdType == [task : Tasks \cup {"none"}, backup : BOOLEAN,
            result : {"none", "running", "ok", "failed"}]

\* What the agents, the nodes and the manager's other operations touch.
LEMMA ClusterType ==
    ASSUME TypeOK, FlowShape, Next
    PROVE  /\ agentReady' \subseteq Nodes /\ down' \subseteq Nodes
           /\ etcd' \in [Masters -> Versions] /\ kubelet' \in [Nodes -> Versions]
           /\ saved' \in BOOLEAN
<1> USE DEF TypeOK, cluster
<1>1. CASE Manager \/ ApiError \/ Restart
  BY <1>1 DEF Manager, ApiError, Restart, Reconcile, SelectNodes, CommandOK,
      CommandFails, NodeOK, HealthTimeout, EndLoop, Record, SkipNode, StartNode
<1>2. ASSUME NEW n \in Nodes,
             UpgradeEtcd(n) \/ UpgradeNode(n) \/ AgentFails(n) \/ Recover(n)
             \/ AgentAnswers(n) \/ \E t \in Tasks : OrphanEnds(n, t)
      PROVE  /\ agentReady' \subseteq Nodes /\ down' \subseteq Nodes
             /\ etcd' \in [Masters -> Versions]
             /\ kubelet' \in [Nodes -> Versions]
             /\ saved' \in BOOLEAN
  <2>1. Saved(n) \in BOOLEAN
    BY DEF Saved
  <2> QED BY <1>2, <2>1, ZenonT(30) DEF UpgradeEtcd, UpgradeNode, AgentFails, Recover,
          AgentAnswers, OrphanEnds, Versions
<1> QED BY <1>1, <1>2 DEF Next, Environment

LEMMA CommandType ==
    ASSUME TypeOK, FlowShape, Next
    PROVE  /\ cmd' \in [Nodes -> CmdType]
           /\ orphans' \subseteq Nodes \X Tasks
           /\ reported' \subseteq Nodes
<1>0. /\ cmd \in [Nodes -> CmdType] /\ orphans \subseteq Nodes \X Tasks
      /\ reported \subseteq Nodes /\ mgr \in MgrType
      /\ mgr.pc \in {"wait", "health"} => mgr.node \in Nodes
      /\ NoCmd \in CmdType
  BY TypeParts DEF TypeOK, CmdType, FlowShape, MgrType, NoCmd
<1>1. CASE CommandOK
  BY <1>0, <1>1 DEF CommandOK
<1>2. CASE CommandFails
  <2>1. reported' = reported \cup {mgr.node}
    BY <1>2 DEF CommandFails, NodeFails
  <2>2. cmd' = cmd \/ cmd' = [cmd EXCEPT ![mgr.node] = NoCmd]
    BY <1>2 DEF CommandFails
  <2> QED BY <1>0, <1>2, <2>1, <2>2 DEF CommandFails
<1>3. CASE HealthTimeout
  BY <1>0, <1>3 DEF HealthTimeout, NodeFails
<1>4. ASSUME NEW n \in Nodes, StartNode(n)
      PROVE  /\ cmd' \in [Nodes -> CmdType]
             /\ orphans' \subseteq Nodes \X Tasks
             /\ reported' \subseteq Nodes
  <2> DEFINE new == [task |-> Task(mgr.phase), result |-> "running",
                     backup |-> mgr.phase # "Worker" /\ n = mgr.backup]
  <2>1. new \in CmdType
    BY DEF CmdType, Task, Tasks
  <2>2. cmd' = [cmd EXCEPT ![n] = new]
    BY <1>4 DEF StartNode
  <2> HIDE DEF new
  <2>3. cmd' \in [Nodes -> CmdType]
    BY <1>0, <2>1, <2>2
  <2>4. orphans' \subseteq Nodes \X Tasks
    <3>1. cmd[n].result = "running" => cmd[n].task \in Tasks
      BY <1>4 DEF FlowShape
    <3> QED BY <1>0, <1>4, <3>1 DEF StartNode
  <2> QED BY <1>0, <1>4, <2>3, <2>4 DEF StartNode
<1>5. ASSUME NEW n \in Nodes, UpgradeEtcd(n) \/ UpgradeNode(n) \/ AgentFails(n)
      PROVE  /\ cmd' \in [Nodes -> CmdType]
             /\ UNCHANGED <<orphans, reported>>
  BY <1>0, <1>5 DEF UpgradeEtcd, UpgradeNode, AgentFails, CmdType
<1>6. CASE \/ Reconcile \/ SelectNodes \/ NodeOK \/ EndLoop \/ Record
           \/ ApiError \/ Restart \/ \E n \in Nodes : SkipNode(n)
  BY <1>0, <1>6 DEF Reconcile, SelectNodes, NodeOK, EndLoop, Record, ApiError,
      Restart, SkipNode
<1>7. ASSUME NEW n \in Nodes, Recover(n) \/ AgentAnswers(n)
      PROVE  UNCHANGED <<cmd, orphans, reported>>
  BY <1>7 DEF Recover, AgentAnswers
<1>8. ASSUME NEW n \in Nodes, NEW t \in Tasks, OrphanEnds(n, t)
      PROVE  UNCHANGED <<cmd, reported>> /\ orphans' \subseteq orphans
  BY <1>8 DEF OrphanEnds
<1> QED BY <1>0, <1>1, <1>2, <1>3, <1>4, <1>5, <1>6, <1>7, <1>8
     DEF Next, Manager, Environment

LEMMA TypeStep == TypeOK /\ FlowShape /\ [Next]_vars => TypeOK'
<1> SUFFICES ASSUME TypeOK, FlowShape, [Next]_vars PROVE TypeOK'
  OBVIOUS
<1>1. CASE UNCHANGED vars
  BY <1>1 DEF vars, TypeOK
<1>2. CASE Next
  <2>1. mgr' \in MgrType /\ rec' \in RecordType /\ failed' \in BOOLEAN
    <3>1. CASE Environment
      BY <3>1, TypeParts DEF Environment, UpgradeEtcd, UpgradeNode, AgentFails,
          Recover, AgentAnswers, OrphanEnds, TypeOK
    <3> QED BY <1>2, <3>1, ManagerType DEF Next
  <2>2. status' \in [etcd : Versions, k8s : Versions]
    <3>1. CASE Record
      <4>1. mgr.phase \in Phases
        BY <3>1, TypeParts DEF Record, FlowShape, MgrType
      <4> QED BY <3>1, <4>1 DEF Record, TypeOK, Versions, Phases
    <3>2. ASSUME ~Record PROVE UNCHANGED status
      <4>1. CASE Environment
        BY <4>1 DEF Environment, UpgradeEtcd, UpgradeNode, AgentFails, Recover,
            AgentAnswers, OrphanEnds
      <4>2. CASE Manager
        BY <3>2, <4>2 DEF Manager, Reconcile, SelectNodes, CommandOK,
            CommandFails, NodeOK, HealthTimeout, EndLoop, SkipNode, StartNode
      <4> QED BY <1>2, <4>1, <4>2 DEF Next, ApiError, Restart
    <3> QED BY <3>1, <3>2 DEF TypeOK
  <2>3. lost' \in Nat /\ restarts' \in 0 .. MaxRestarts
    <3>1. CASE Environment
      BY <3>1 DEF Environment, UpgradeEtcd, UpgradeNode, AgentFails, Recover,
          AgentAnswers, OrphanEnds, TypeOK
    <3>2. CASE CommandFails \/ Restart
      BY <3>2, MaxRestartsAssumption DEF CommandFails, Restart, TypeOK
    <3>3. CASE (Manager /\ ~CommandFails) \/ ApiError
      BY <3>3 DEF Manager, Reconcile, SelectNodes, CommandOK, NodeOK,
          HealthTimeout, EndLoop, Record, SkipNode, StartNode, ApiError, TypeOK
    <3> QED BY <1>2, <3>1, <3>2, <3>3 DEF Next
  <2> QED BY <1>2, <2>1, <2>2, <2>3, ClusterType, CommandType
       DEF TypeOK, MgrType, RecordType, CmdType
<1> QED BY <1>1, <1>2

-----------------------------------------------------------------------------
(***************************************************************************)
(* The flow.                                                               *)
(***************************************************************************)

\* A new phase starts where the order of the flow and the status allow.
LEMMA EnterShape ==
    ASSUME TypeOK, NEW left \in SUBSET Phases, NEW st, mgr' = Enter(left, st)
    PROVE  /\ mgr'.pc = "idle" <=> mgr'.phase = "none"
           /\ mgr'.pc \in {"idle", "select"}
           /\ mgr'.phase # "none" => mgr'.phase \in left
           /\ "Etcd" \in left /\ mgr'.phase \in {"Worker", "Master"} => st.etcd # "old"
           /\ "Worker" \in left /\ mgr'.phase = "Master" => Workers = {}
<1>1. CASE Enter(left, st) = Idle
  BY <1>1 DEF Idle
<1>2. CASE Enter(left, st) # Idle
  <2>1. PICK p \in left :
              /\ NeedExecute(p, st)
              /\ \A q \in left : NeedExecute(q, st) => Place[p] <= Place[q]
              /\ mgr' = [pc |-> "select", phase |-> p, todo |-> {},
                         node |-> "none", backup |-> "none", errs |-> {}]
    BY <1>2, EnterFirst
  <2>2. mgr'.pc = "select" /\ mgr'.phase = p /\ p \in Phases
    BY <2>1
  <2>3. /\ Place["Etcd"] = 1 /\ Place["Worker"] = 2 /\ Place["Master"] = 3
    BY DEF Place, Phases
  <2>4. ASSUME "Etcd" \in left, p \in {"Worker", "Master"}
        PROVE  st.etcd # "old"
    <3>1. ~NeedExecute("Etcd", st)
      BY <2>1, <2>3, <2>4
    <3> QED BY <3>1 DEF NeedExecute
  <2>5. ASSUME "Worker" \in left, p = "Master"
        PROVE  Workers = {}
    <3>1. ~NeedExecute("Worker", st)
      BY <2>1, <2>3, <2>5
    <3>2. st.k8s = "old"
      BY <2>1, <2>5 DEF NeedExecute
    <3> QED BY <3>1, <3>2 DEF NeedExecute
  <2> QED BY <2>2, <2>4, <2>5 DEF Phases
<1> QED BY <1>1, <1>2

\* A failed node ends the flow, unless the phase goes on without it.
LEMMA NodeFailsShape ==
    ASSUME TypeOK, FlowShape, NodeFails, mgr.pc \in {"wait", "health"}
    PROVE  /\ mgr'.pc = "idle" <=> mgr'.phase = "none"
           /\ mgr'.pc \in {"idle", "pick"}
           /\ \/ mgr' = Idle
              \/ /\ mgr.phase = "Worker"
                 /\ mgr' = [mgr EXCEPT !.pc = "pick", !.node = "none",
                                       !.todo = @ \ {mgr.node},
                                       !.errs = @ \cup {mgr.node}]
<1>1. CASE Abort
  BY <1>1 DEF Abort, Idle
<1>2. CASE ~Abort
  BY <1>2, TypeParts DEF NodeFails, Blocks, FlowShape, MgrType
<1> QED BY <1>1, <1>2

LEMMA FlowShapeStep == TypeOK /\ FlowShape /\ [Next]_vars => FlowShape'
<1> SUFFICES ASSUME TypeOK, FlowShape, [Next]_vars PROVE FlowShape'
  OBVIOUS
<1>0. mgr \in MgrType
  BY TypeParts
<1>1. ASSUME UNCHANGED cmd PROVE \A n \in Nodes : cmd'[n].result # "none" => cmd'[n].task \in Tasks
  BY <1>1 DEF FlowShape
<1>2. CASE Reconcile
  BY <1>1, <1>2, EnterShape DEF Reconcile, FlowShape
<1>3. CASE SelectNodes
  <2>1. mgr' = Idle \/ \E b \in Masters :
           mgr' = [mgr EXCEPT !.pc = "pick", !.todo = Select(mgr.phase),
                              !.backup = b, !.errs = {}]
    BY <1>3 DEF SelectNodes, Abort
  <2>2. UNCHANGED cmd /\ mgr.pc = "select"
    BY <1>3 DEF SelectNodes
  <2>3. /\ mgr'.pc = "idle" <=> mgr'.phase = "none"
        /\ mgr'.pc \in {"idle", "pick"}
    <3>1. CASE mgr' = Idle
      BY <3>1 DEF Idle
    <3>2. CASE mgr' # Idle
      BY <1>0, <2>1, <2>2, <3>2 DEF FlowShape, MgrType
    <3> QED BY <3>1, <3>2
  <2> QED BY <1>1, <2>2, <2>3 DEF FlowShape
<1>4. CASE CommandOK
  <2>1. \A n \in Nodes : cmd'[n].result # "none" => cmd'[n].task \in Tasks
    BY <1>4 DEF CommandOK, FlowShape, TypeOK, NoCmd
  <2> QED BY <1>0, <1>4, <2>1 DEF CommandOK, FlowShape, MgrType
<1>5. CASE CommandFails
  <2>1. \A n \in Nodes : cmd'[n].result # "none" => cmd'[n].task \in Tasks
    BY <1>5 DEF CommandFails, FlowShape, TypeOK, NoCmd
  <2>2. /\ mgr'.pc = "idle" <=> mgr'.phase = "none"
        /\ mgr'.pc \in {"idle", "pick"}
    BY <1>5, NodeFailsShape DEF CommandFails
  <2> QED BY <2>1, <2>2 DEF FlowShape
<1>6. CASE HealthTimeout
  <2>1. /\ mgr'.pc = "idle" <=> mgr'.phase = "none"
        /\ mgr'.pc \in {"idle", "pick"}
    BY <1>6, NodeFailsShape DEF HealthTimeout
  <2> QED BY <1>1, <1>6, <2>1 DEF HealthTimeout, FlowShape
<1>7. CASE NodeOK
  BY <1>0, <1>1, <1>7 DEF NodeOK, FlowShape, MgrType
<1>8. CASE EndLoop
  BY <1>0, <1>1, <1>8 DEF EndLoop, AllUpgraded, Abort, Idle, FlowShape, MgrType
<1>9. CASE Record
  <2>1. mgr.phase \in Phases
    BY <1>0, <1>9 DEF Record, FlowShape, MgrType
  <2> QED BY <1>1, <1>9, <2>1, AfterType, EnterShape DEF Record, FlowShape
<1>10. ASSUME NEW n \in Nodes, SkipNode(n)
       PROVE  FlowShape'
  BY <1>0, <1>1, <1>10 DEF SkipNode, FlowShape, MgrType
<1>11. ASSUME NEW n \in Nodes, StartNode(n)
       PROVE  FlowShape'
  <2>1. \A k \in Nodes : cmd'[k].result # "none" => cmd'[k].task \in Tasks
    BY <1>11 DEF StartNode, FlowShape, TypeOK, Task, Tasks
  <2> QED BY <1>0, <1>11, <2>1 DEF StartNode, FlowShape, MgrType
<1>12. CASE ApiError \/ Restart
  BY <1>1, <1>12 DEF ApiError, Restart, Abort, Idle, FlowShape
<1>13. ASSUME NEW n \in Nodes, UpgradeEtcd(n) \/ UpgradeNode(n) \/ AgentFails(n)
       PROVE  FlowShape'
  <2>1. UNCHANGED mgr /\ \E res \in {"ok", "failed"} :
           cmd' = [cmd EXCEPT ![n].result = res]
    BY <1>13 DEF UpgradeEtcd, UpgradeNode, AgentFails
  <2>2. cmd[n].result = "running"
    BY <1>13 DEF UpgradeEtcd, UpgradeNode, AgentFails
  <2>3. \A k \in Nodes : cmd'[k].result # "none" => cmd'[k].task \in Tasks
    BY <2>1, <2>2 DEF FlowShape, TypeOK
  <2> QED BY <2>1, <2>3 DEF FlowShape
<1>14. ASSUME NEW n \in Nodes,
              Recover(n) \/ AgentAnswers(n) \/ \E t \in Tasks : OrphanEnds(n, t)
       PROVE  FlowShape'
  BY <1>14 DEF Recover, AgentAnswers, OrphanEnds, FlowShape
<1>15. CASE UNCHANGED vars
  BY <1>15 DEF vars, FlowShape
<1> QED BY <1>2, <1>3, <1>4, <1>5, <1>6, <1>7, <1>8, <1>9, <1>10, <1>11, <1>12,
        <1>13, <1>14, <1>15 DEF Next, Manager, Environment

\* No version goes back, and agents start to answer only between two flows.
LEMMA VersionsKept ==
    ASSUME TypeOK, [Next]_vars
    PROVE  /\ \A m \in Masters : etcd[m] = "new" => etcd'[m] = "new"
           /\ \A n \in Nodes : kubelet[n] = "new" => kubelet'[n] = "new"
           /\ mgr.pc # "idle" => UNCHANGED agentReady
<1> USE DEF TypeOK
<1>1. CASE Manager \/ ApiError \/ Restart
  BY <1>1 DEF Manager, ApiError, Restart, Reconcile, SelectNodes, CommandOK,
      CommandFails, NodeOK, HealthTimeout, EndLoop, Record, SkipNode, StartNode,
      cluster
<1>2. ASSUME NEW n \in Nodes, UpgradeEtcd(n) \/ UpgradeNode(n) \/ AgentFails(n)
      PROVE  /\ \A m \in Masters : etcd[m] = "new" => etcd'[m] = "new"
             /\ \A k \in Nodes : kubelet[k] = "new" => kubelet'[k] = "new"
             /\ UNCHANGED agentReady
  BY <1>2 DEF UpgradeEtcd, UpgradeNode, AgentFails
<1>3. ASSUME NEW n \in Nodes, NEW t \in Tasks, OrphanEnds(n, t)
      PROVE  /\ \A m \in Masters : etcd[m] = "new" => etcd'[m] = "new"
             /\ \A k \in Nodes : kubelet[k] = "new" => kubelet'[k] = "new"
             /\ UNCHANGED agentReady
  BY <1>3 DEF OrphanEnds
<1>4. ASSUME NEW n \in Nodes, Recover(n) \/ AgentAnswers(n)
      PROVE  UNCHANGED <<etcd, kubelet>> /\ (mgr.pc # "idle" => UNCHANGED agentReady)
  BY <1>4 DEF Recover, AgentAnswers
<1>5. CASE UNCHANGED vars
  BY <1>5 DEF vars
<1> QED BY <1>1, <1>2, <1>3, <1>4, <1>5 DEF Next, Environment

LEMMA RunsKept ==
    ASSUME TypeOK, [Next]_vars, NEW p \in Phases, NEW n \in Role(p), Runs(p, n)
    PROVE  Runs(p, n)'
BY VersionsKept DEF Runs, Role, Nodes, Phases

\* The steps that leave the flow alone.
LEMMA EnvironmentKeepsFlow ==
    ASSUME Environment \/ UNCHANGED vars
    PROVE  UNCHANGED <<mgr, status, reported, lost>>
BY DEF Environment, UpgradeEtcd, UpgradeNode, AgentFails, Recover, AgentAnswers,
    OrphanEnds, vars

\* In one phase, a node is left behind only if it runs the version or failed.
LEMMA NodesDoneStep ==
    TypeOK /\ FlowInv /\ [Next]_vars => NodesDone'
<1> SUFFICES ASSUME TypeOK, FlowInv, [Next]_vars, Looping',
                    NEW n \in Select(mgr.phase)', n \notin mgr.todo', n \notin mgr.errs'
             PROVE  Runs(mgr.phase, n)'
  BY DEF NodesDone
<1>0. /\ mgr \in MgrType /\ FlowShape /\ NodesDone
      /\ mgr' \in MgrType /\ FlowShape'
  BY TypeParts, TypeStep, FlowShapeStep DEF FlowInv, TypeOK, MgrType
<1>1. mgr'.phase \in Phases
  BY <1>0 DEF Looping, FlowShape, MgrType
<1>2. CASE /\ Looping
           /\ mgr'.phase = mgr.phase
           /\ \/ mgr'.todo = mgr.todo /\ mgr'.errs = mgr.errs
              \/ /\ \E k \in Nodes : /\ mgr'.todo = mgr.todo \ {k}
                                     /\ mgr'.errs = mgr.errs
                                     /\ Runs(mgr.phase, k)
              \/ /\ \E k \in Nodes : /\ mgr'.todo = mgr.todo \ {k}
                                     /\ mgr'.errs = mgr.errs \cup {k}
  <2>1. mgr.pc # "idle" /\ UNCHANGED agentReady
    BY <1>2, VersionsKept DEF Looping
  <2>2. n \in Select(mgr.phase) /\ n \in Role(mgr.phase)
    BY <1>2, <2>1 DEF Select
  <2>3. Runs(mgr.phase, n)
    BY <1>0, <1>2, <2>2 DEF NodesDone
  <2> QED BY <1>1, <1>2, <2>2, <2>3, RunsKept
<1>3. CASE SelectNodes
  <2>1. mgr' # Idle
    BY DEF Looping, Idle
  <2>2. PICK b \in Masters :
           mgr' = [mgr EXCEPT !.pc = "pick", !.todo = Select(mgr.phase),
                              !.backup = b, !.errs = {}]
    BY <1>3, <2>1 DEF SelectNodes, Abort
  <2>3. mgr'.todo = Select(mgr.phase) /\ mgr'.phase = mgr.phase
    BY <1>0, <2>2 DEF MgrType
  <2>4. UNCHANGED agentReady
    BY <1>3 DEF SelectNodes, cluster
  <2> QED BY <2>3, <2>4 DEF Select
<1>4. CASE Reconcile \/ ApiError \/ Restart
  <2>1. mgr'.pc \in {"idle", "select"}
    BY <1>4, EnterShape DEF Reconcile, ApiError, Restart, Abort, Idle
  <2> QED BY <2>1 DEF Looping
<1>5. CASE Record
  <2>1. mgr.phase \in Phases
    BY <1>0, <1>5 DEF Record, FlowShape, MgrType
  <2>2. mgr'.pc \in {"idle", "select"}
    BY <1>5, <2>1, AfterType, EnterShape DEF Record
  <2> QED BY <2>2 DEF Looping
<1>6. CASE CommandFails \/ HealthTimeout
  <2>1. /\ mgr.pc \in {"wait", "health"} /\ mgr.node \in Nodes
        /\ \/ mgr' = Idle
           \/ mgr' = [mgr EXCEPT !.pc = "pick", !.node = "none",
                                 !.todo = @ \ {mgr.node},
                                 !.errs = @ \cup {mgr.node}]
    BY <1>0, <1>6, NodeFailsShape DEF CommandFails, HealthTimeout, FlowShape, MgrType
  <2>2. mgr' # Idle
    BY DEF Looping, Idle
  <2>3. /\ mgr'.phase = mgr.phase /\ mgr'.todo = mgr.todo \ {mgr.node}
        /\ mgr'.errs = mgr.errs \cup {mgr.node}
    BY <1>0, <2>1, <2>2 DEF MgrType
  <2> QED BY <1>2, <2>1, <2>3 DEF Looping
<1>7. CASE NodeOK
  <2>1. Runs(mgr.phase, mgr.node)
    BY <1>7 DEF NodeOK, Healthy, Runs
  <2>2. /\ mgr'.phase = mgr.phase /\ mgr'.todo = mgr.todo \ {mgr.node}
        /\ mgr'.errs = mgr.errs /\ Looping /\ mgr.node \in Nodes
    BY <1>0, <1>7 DEF NodeOK, MgrType, Looping, FlowShape
  <2> QED BY <1>2, <2>1, <2>2
<1>8. ASSUME NEW k \in Nodes, SkipNode(k)
      PROVE  Runs(mgr.phase, n)'
  <2>1. Runs(mgr.phase, k)
    BY <1>8 DEF SkipNode, UpToDate, Runs
  <2>2. /\ mgr'.phase = mgr.phase /\ mgr'.todo = mgr.todo \ {k}
        /\ mgr'.errs = mgr.errs /\ Looping
    BY <1>0, <1>8 DEF SkipNode, MgrType, Looping
  <2> QED BY <1>2, <2>1, <2>2
<1>9. CASE \/ CommandOK \/ \E k \in Nodes : StartNode(k)
  BY <1>0, <1>2, <1>9, ZenonT(30) DEF CommandOK, StartNode, MgrType, Looping
<1>10. CASE EndLoop
  <2>1. mgr'.pc # "idle" /\ mgr.pc = "pick"
    BY <1>10 DEF EndLoop, Looping
  <2>2. mgr' = [mgr EXCEPT !.pc = "record"]
    BY <1>10, <2>1 DEF EndLoop, Abort, Idle
  <2> QED BY <1>0, <1>2, <2>1, <2>2 DEF MgrType, Looping
<1>11. CASE Environment \/ UNCHANGED vars
  BY <1>2, <1>11, EnvironmentKeepsFlow DEF Looping
<1> QED BY <1>3, <1>4, <1>5, <1>6, <1>7, <1>8, <1>9, <1>10, <1>11 DEF Next, Manager

\* The order of the phases, as the status and the workers show it.
LEMMA PhasesBeforeStep ==
    TypeOK /\ FlowInv /\ [Next]_vars => PhasesBefore'
<1> SUFFICES ASSUME TypeOK, FlowInv, [Next]_vars PROVE PhasesBefore'
  OBVIOUS
<1>0. /\ mgr \in MgrType /\ FlowShape /\ NodesDone /\ PhasesBefore
      /\ mgr' \in MgrType /\ FlowShape'
      /\ status \in [etcd : Versions, k8s : Versions]
  BY TypeParts, TypeStep, FlowShapeStep DEF FlowInv, TypeOK, MgrType
<1>1. CASE /\ mgr'.phase = mgr.phase \/ mgr'.phase = "none"
           /\ UNCHANGED status
  <2>1. CASE mgr'.phase = "none"
    BY <2>1 DEF PhasesBefore
  <2>2. CASE mgr'.phase = mgr.phase /\ mgr'.phase # "none"
    <3>1. UNCHANGED agentReady
      BY <1>0, <2>2, VersionsKept DEF FlowShape
    <3>2. \A w \in Workers : kubelet[w] = "new" => kubelet'[w] = "new"
      BY VersionsKept DEF Nodes
    <3> QED BY <1>0, <1>1, <2>2, <3>1, <3>2 DEF PhasesBefore
  <2> QED BY <1>1, <2>1, <2>2
<1>2. CASE Reconcile
  <2>1. UNCHANGED <<status, agentReady, kubelet>> /\ mgr' = Enter(Phases, status)
    BY <1>2 DEF Reconcile, cluster
  <2>2. "Etcd" \in Phases /\ "Worker" \in Phases
    BY DEF Phases
  <2>3. /\ mgr'.phase \in {"Worker", "Master"} => status.etcd # "old"
        /\ mgr'.phase = "Master" => Workers = {}
    BY <2>1, <2>2, EnterShape
  <2> QED BY <1>0, <2>1, <2>3 DEF PhasesBefore, Versions
<1>3. CASE Record
  <2>1. /\ mgr.pc = "record" /\ mgr.phase \in Phases
        /\ mgr' = Enter(After(mgr.phase), status')
        /\ UNCHANGED <<agentReady, kubelet>>
    BY <1>0, <1>3 DEF Record, FlowShape, MgrType, cluster
  <2>2. CASE mgr.phase = "Etcd"
    <3>1. status'.etcd = "new"
      BY <1>0, <1>3, <2>2 DEF Record
    <3>2. mgr'.phase = "Master" => Workers = {}
      BY <2>1, <2>2, AfterIs, AfterType, EnterShape
    <3> QED BY <3>1, <3>2 DEF PhasesBefore
  <2>3. CASE mgr.phase = "Worker"
    <3>1. status' = status /\ status.etcd = "new"
      BY <1>0, <1>3, <2>3 DEF Record, PhasesBefore
    <3>2. mgr'.phase \in {"Master", "none"}
      BY <2>1, <2>3, AfterIs, AfterType, EnterShape
    <3>3. \A w \in Workers \cap agentReady : kubelet[w] = "new"
      BY <1>0, <2>1, <2>3 DEF NodesDone, FlowShape, Looping, Select, Role, Runs
    <3> QED BY <2>1, <3>1, <3>2, <3>3 DEF PhasesBefore
  <2>4. CASE mgr.phase = "Master"
    <3>1. mgr'.phase = "none"
      BY <2>1, <2>4, AfterIs, AfterType, EnterShape
    <3> QED BY <3>1 DEF PhasesBefore
  <2> QED BY <2>1, <2>2, <2>3, <2>4 DEF Phases
<1>4. CASE SelectNodes
  <2>1. UNCHANGED status
    BY <1>4 DEF SelectNodes
  <2>2. CASE mgr' = Idle
    BY <1>1, <2>1, <2>2 DEF Idle
  <2>3. CASE mgr' # Idle
    <3>1. PICK b \in Masters :
             mgr' = [mgr EXCEPT !.pc = "pick", !.todo = Select(mgr.phase),
                                !.backup = b, !.errs = {}]
      BY <1>4, <2>3 DEF SelectNodes, Abort
    <3>2. mgr'.phase = mgr.phase
      BY <1>0, <3>1 DEF MgrType
    <3> QED BY <1>1, <2>1, <3>2
  <2> QED BY <2>2, <2>3
<1>5. CASE CommandFails \/ HealthTimeout
  <2>1. UNCHANGED status
    BY <1>5 DEF CommandFails, HealthTimeout
  <2>2. /\ \/ mgr' = Idle
           \/ mgr' = [mgr EXCEPT !.pc = "pick", !.node = "none",
                                 !.todo = @ \ {mgr.node},
                                 !.errs = @ \cup {mgr.node}]
    BY <1>0, <1>5, NodeFailsShape DEF CommandFails, HealthTimeout
  <2>3. mgr'.phase = mgr.phase \/ mgr'.phase = "none"
    <3>1. CASE mgr' = Idle
      BY <3>1 DEF Idle
    <3>2. CASE mgr' # Idle
      BY <1>0, <2>2, <3>2 DEF MgrType
    <3> QED BY <3>1, <3>2
  <2> QED BY <1>1, <2>1, <2>3
<1>6. CASE ApiError \/ Restart
  BY <1>1, <1>6 DEF ApiError, Restart, Abort, Idle
<1>7. CASE EndLoop
  <2>1. UNCHANGED status /\ (mgr' = Idle \/ mgr' = [mgr EXCEPT !.pc = "record"])
    BY <1>7 DEF EndLoop, Abort
  <2>2. mgr'.phase = mgr.phase \/ mgr'.phase = "none"
    BY <1>0, <2>1 DEF MgrType, Idle
  <2> QED BY <1>1, <2>1, <2>2
<1>8. CASE CommandOK \/ NodeOK \/ \E k \in Nodes : SkipNode(k) \/ StartNode(k)
  BY <1>0, <1>1, <1>8 DEF CommandOK, NodeOK, SkipNode, StartNode, MgrType
<1>9. CASE Environment \/ UNCHANGED vars
  BY <1>1, <1>9, EnvironmentKeepsFlow
<1> QED BY <1>2, <1>3, <1>4, <1>5, <1>6, <1>7, <1>8, <1>9 DEF Next, Manager

LEMMA FlowInit == Init => TypeOK /\ FlowInv
<1> SUFFICES ASSUME Init PROVE TypeOK /\ FlowInv
  OBVIOUS
<1>1. TypeOK
  <2>1. mgr \in MgrType /\ rec \in RecordType
    BY LimitAssumption, IdleType DEF Init, EmptyRecord, RecordType
  <2>2. cmd \in [Nodes -> CmdType]
    BY DEF Init, NoCmd, CmdType
  <2>3. restarts \in 0 .. MaxRestarts /\ lost \in Nat
    BY MaxRestartsAssumption DEF Init
  <2>4. /\ agentReady \subseteq Nodes /\ status \in [etcd : Versions, k8s : Versions]
        /\ etcd \in [Masters -> Versions] /\ kubelet \in [Nodes -> Versions]
    BY DEF Init, Versions
  <2> QED BY <2>1, <2>2, <2>3, <2>4 DEF Init, TypeOK, MgrType, RecordType, CmdType
<1>2. FlowInv
  BY DEF Init, FlowInv, FlowShape, NodesDone, PhasesBefore, Looping, Idle, NoCmd
<1> QED BY <1>1, <1>2

\* The type invariant, with the shape of the flow it needs.
LEMMA FlowStep == TypeOK /\ FlowInv /\ [Next]_vars => TypeOK' /\ FlowInv'
BY TypeStep, FlowShapeStep, NodesDoneStep, PhasesBeforeStep DEF FlowInv

LEMMA FlowAlways == Spec => [](TypeOK /\ FlowInv)
BY FlowInit, FlowStep, PTL DEF Spec

(***************************************************************************)
(* The state of the manager, of the agents and of the nodes keep their     *)
(* types, and the retry budget of the cluster stays below its limit,       *)
(* whatever fails and whenever the manager restarts.                       *)
(***************************************************************************)
THEOREM TypeCorrect == Spec => []TypeOK
BY FlowAlways, PTL

(***************************************************************************)
(* "master is always the last": EnsureMasterUpgrade sends a master its     *)
(* Command only with the etcd upgrade recorded and every worker with a     *)
(* ready agent on the new kubelet, for any number of nodes, failed         *)
(* reconciles and restarts of the manager.                                 *)
(***************************************************************************)
THEOREM MastersAreLast == Spec => MastersLast
<1>1. TypeOK /\ FlowInv =>
        ((mgr.pc = "pick" /\ mgr'.pc = "wait" /\ mgr.phase = "Master")
           => /\ \A w \in Workers \cap agentReady : kubelet[w] = "new"
              /\ status.etcd = "new")
  BY DEF FlowInv, PhasesBefore
<1> QED BY <1>1, FlowAlways, PTL DEF MastersLast

-----------------------------------------------------------------------------
(***************************************************************************)
(* The snapshot of etcd, and what is recorded.                             *)
(***************************************************************************)

\* A snapshot is never lost.
LEMMA SnapshotKept ==
    ASSUME TypeOK, [Next]_vars, saved
    PROVE  saved'
<1>1. CASE Manager \/ ApiError \/ Restart \/ UNCHANGED vars
  BY <1>1 DEF Manager, ApiError, Restart, Reconcile, SelectNodes, CommandOK,
      CommandFails, NodeOK, HealthTimeout, EndLoop, Record, SkipNode, StartNode, vars
<1>2. CASE Environment
  BY <1>2 DEF Environment, UpgradeEtcd, UpgradeNode, AgentFails, Recover,
      AgentAnswers, OrphanEnds, Saved
<1> QED BY <1>1, <1>2 DEF Next

\* The run of a Command that is to take a snapshot and ends well has taken it.
LEMMA SnapshotTaken ==
    ASSUME TypeOK, Environment \/ UNCHANGED vars, NEW n \in Nodes
    PROVE  /\ cmd'[n].result = "running" => cmd'[n] = cmd[n]
           /\ cmd'[n].result = "ok" =>
                 \/ cmd[n].result = "ok"
                 \/ cmd[n].result = "running" /\ (cmd[n].backup => saved')
<1> USE DEF TypeOK
<1>1. ASSUME NEW k \in Nodes, UpgradeEtcd(k) \/ UpgradeNode(k)
      PROVE  /\ saved' = Saved(k)
             /\ cmd[k].result = "running"
             /\ cmd' = [cmd EXCEPT ![k].result = "ok"]
  BY <1>1 DEF UpgradeEtcd, UpgradeNode
<1>2. ASSUME NEW k \in Nodes, AgentFails(k)
      PROVE  cmd' = [cmd EXCEPT ![k].result = "failed"]
  BY <1>2 DEF AgentFails
<1>3. ASSUME NEW k \in Nodes, Recover(k) \/ AgentAnswers(k) \/ \E t \in Tasks : OrphanEnds(k, t)
      PROVE  UNCHANGED cmd
  BY <1>3 DEF Recover, AgentAnswers, OrphanEnds
<1>4. CASE UNCHANGED cmd
  BY <1>4
<1>5. ASSUME NEW k \in Nodes, UpgradeEtcd(k) \/ UpgradeNode(k)
      PROVE  /\ cmd'[n].result = "running" => cmd'[n] = cmd[n]
             /\ cmd'[n].result = "ok" =>
                   \/ cmd[n].result = "ok"
                   \/ cmd[n].result = "running" /\ (cmd[n].backup => saved')
  <2>1. CASE n = k
    BY <1>1, <1>5, <2>1 DEF Saved
  <2>2. CASE n # k
    BY <1>1, <1>5, <2>2
  <2> QED BY <2>1, <2>2
<1>6. ASSUME NEW k \in Nodes, AgentFails(k)
      PROVE  /\ cmd'[n].result = "running" => cmd'[n] = cmd[n]
             /\ cmd'[n].result = "ok" => cmd[n].result = "ok"
  BY <1>2, <1>6
<1> QED BY <1>3, <1>4, <1>5, <1>6 DEF Environment, vars

LEMMA SnapshotStep ==
    TypeOK /\ FlowInv /\ SnapshotInv /\ [Next]_vars => SnapshotInv'
<1> SUFFICES ASSUME TypeOK, FlowInv, SnapshotInv, [Next]_vars,
                    Looping', mgr'.phase = "Etcd"
             PROVE  /\ mgr'.backup \in Masters
                    /\ mgr'.backup \in agentReady' \ mgr'.todo => saved'
                    /\ (mgr'.pc = "wait" /\ mgr'.node = mgr'.backup) =>
                         /\ cmd'[mgr'.node].result = "running" => cmd'[mgr'.node].backup
                         /\ cmd'[mgr'.node].result = "ok" => saved'
                    /\ (mgr'.pc = "health" /\ mgr'.node = mgr'.backup) => saved'
  BY DEF SnapshotInv
<1>0. /\ mgr \in MgrType /\ FlowShape /\ mgr' \in MgrType /\ FlowShape'
      /\ cmd \in [Nodes -> CmdType]
      /\ mgr.pc \in {"wait", "health"} => mgr.node \in mgr.todo /\ mgr.node \in Nodes
  BY TypeParts, FlowStep DEF FlowInv, TypeOK, MgrType, FlowShape, CmdType
<1>1. CASE Reconcile \/ ApiError \/ Restart \/ Record
  <2>1. Record => mgr.phase \in Phases
    BY <1>0 DEF Record, FlowShape, MgrType
  <2>2. CASE ApiError \/ Restart
    BY <2>2 DEF ApiError, Restart, Abort, Idle, Looping
  <2>3. CASE Reconcile \/ Record
    <3>1. mgr'.pc \in {"idle", "select"}
      BY <2>1, <2>3, AfterType, EnterShape DEF Reconcile, Record
    <3> QED BY <3>1 DEF Looping
  <2> QED BY <1>1, <2>2, <2>3
<1>2. CASE SelectNodes
  <2>1. mgr' # Idle
    BY DEF Looping, Idle
  <2>2. PICK b \in Masters :
           mgr' = [mgr EXCEPT !.pc = "pick", !.todo = Select(mgr.phase),
                              !.backup = b, !.errs = {}]
    BY <1>2, <2>1 DEF SelectNodes, Abort
  <2>3. /\ mgr'.pc = "pick" /\ mgr'.backup = b /\ mgr'.todo = Select("Etcd")
    BY <1>0, <2>2 DEF MgrType
  <2>4. UNCHANGED agentReady
    BY <1>2 DEF SelectNodes, cluster
  <2> QED BY <2>3, <2>4 DEF Select, Role
<1>3. CASE CommandFails \/ HealthTimeout
  <2>1. \/ mgr' = Idle
        \/ /\ mgr.phase = "Worker"
           /\ mgr' = [mgr EXCEPT !.pc = "pick", !.node = "none",
                                 !.todo = @ \ {mgr.node},
                                 !.errs = @ \cup {mgr.node}]
    BY <1>0, <1>3, NodeFailsShape DEF CommandFails, HealthTimeout
  <2>2. mgr' # Idle
    BY DEF Looping, Idle
  <2>3. mgr'.phase = mgr.phase /\ mgr.phase = "Worker"
    BY <1>0, <2>1, <2>2 DEF MgrType
  <2> QED BY <2>3
<1>4. CASE CommandOK
  <2>1. /\ mgr'.phase = mgr.phase /\ mgr'.backup = mgr.backup
        /\ mgr'.todo = mgr.todo /\ mgr'.node = mgr.node
        /\ mgr'.pc = "health" /\ mgr.pc = "wait" /\ cmd[mgr.node].result = "ok"
        /\ UNCHANGED <<saved, agentReady>>
    BY <1>0, <1>4 DEF CommandOK, MgrType, cluster
  <2> QED BY <2>1 DEF SnapshotInv, Looping
<1>5. CASE NodeOK
  <2>1. /\ mgr'.phase = mgr.phase /\ mgr'.backup = mgr.backup
        /\ mgr'.todo = mgr.todo \ {mgr.node} /\ mgr'.pc = "pick" /\ mgr.pc = "health"
        /\ UNCHANGED <<saved, agentReady>>
    BY <1>0, <1>5 DEF NodeOK, MgrType, cluster
  <2> QED BY <2>1 DEF SnapshotInv, Looping
<1>6. CASE EndLoop
  <2>1. mgr' = [mgr EXCEPT !.pc = "record"] /\ mgr.pc = "pick" /\ UNCHANGED <<saved, agentReady>>
    BY <1>6 DEF EndLoop, Abort, Idle, Looping, cluster
  <2>2. /\ mgr'.phase = mgr.phase /\ mgr'.backup = mgr.backup
        /\ mgr'.todo = mgr.todo /\ mgr'.pc = "record"
    BY <1>0, <2>1 DEF MgrType
  <2> QED BY <2>1, <2>2 DEF SnapshotInv, Looping
<1>7. ASSUME NEW n \in Nodes, SkipNode(n)
      PROVE  FALSE
  BY <1>0, <1>7 DEF SkipNode, UpToDate, MgrType
<1>8. CASE \E n \in Nodes : StartNode(n)
  <2> PICK n \in Nodes : StartNode(n)
    BY <1>8
  <2>1. /\ mgr'.phase = mgr.phase /\ mgr'.backup = mgr.backup
        /\ mgr'.todo = mgr.todo /\ mgr'.node = n
        /\ mgr'.pc = "wait" /\ mgr.pc = "pick" /\ UNCHANGED <<saved, agentReady>>
    BY <1>0 DEF StartNode, MgrType, cluster
  <2>2. n = mgr.backup => cmd'[n].backup /\ cmd'[n].result = "running"
    BY <1>0, <2>1 DEF StartNode
  <2> QED BY <2>1, <2>2 DEF SnapshotInv, Looping
<1>9. CASE Environment \/ UNCHANGED vars
  <2>1. UNCHANGED mgr
    BY <1>9, EnvironmentKeepsFlow
  <2>2. UNCHANGED agentReady /\ (saved => saved')
    BY <2>1, VersionsKept, SnapshotKept DEF Looping
  <2>3. mgr.pc = "wait" =>
          /\ cmd'[mgr.node].result = "running" => cmd'[mgr.node] = cmd[mgr.node]
          /\ cmd'[mgr.node].result = "ok" =>
                \/ cmd[mgr.node].result = "ok"
                \/ cmd[mgr.node].result = "running" /\ (cmd[mgr.node].backup => saved')
    BY <1>0, <1>9, SnapshotTaken
  <2> QED BY <2>1, <2>2, <2>3 DEF SnapshotInv, Looping
<1> QED BY <1>1, <1>2, <1>3, <1>4, <1>5, <1>6, <1>7, <1>8, <1>9 DEF Next, Manager

LEMMA SnapshotAlways == Spec => []SnapshotInv
<1>1. Init => SnapshotInv
  BY DEF Init, SnapshotInv, Looping, Idle
<1> QED BY <1>1, SnapshotStep, FlowAlways, PTL DEF Spec

(***************************************************************************)
(* EtcdVersion and KubernetesVersion are recorded only when every node     *)
(* with a ready agent runs the version; that of etcd only with a snapshot  *)
(* besides, unless the agent of the node chosen for it is not ready: for   *)
(* any number of nodes, failed attempts, late runs and restarts.           *)
(***************************************************************************)
THEOREM RecordsAreTrue == Spec => RecordedMeansRunning
<1> DEFINE A == /\ status'.etcd # status.etcd =>
                      /\ \A m \in Masters \cap agentReady : etcd[m] = "new"
                      /\ saved \/ mgr.backup \notin agentReady
                /\ status'.k8s # status.k8s =>
                      \A n \in agentReady : kubelet[n] = "new"
<1>1. ASSUME TypeOK, FlowInv, SnapshotInv, [Next]_vars
      PROVE  [A]_vars
  <2>1. CASE UNCHANGED status
    BY <2>1
  <2>2. CASE Record
    <3>1. /\ mgr.pc = "record" /\ mgr.phase \in Phases /\ mgr.todo = {} /\ mgr.errs = {}
          /\ \A n \in Role(mgr.phase) \cap agentReady : Runs(mgr.phase, n)
      BY <1>1, <2>2, TypeParts DEF Record, FlowInv, FlowShape, NodesDone, Looping, Select,
          MgrType
    <3>2. CASE mgr.phase = "Etcd"
      <4>1. status'.k8s = status.k8s
        BY <1>1, <2>2, <3>2 DEF Record, TypeOK
      <4>2. saved \/ mgr.backup \notin agentReady
        BY <1>1, <3>1, <3>2 DEF SnapshotInv, Looping
      <4> QED BY <3>1, <3>2, <4>1, <4>2 DEF Role, Runs
    <3>3. CASE mgr.phase = "Worker"
      BY <2>2, <3>3 DEF Record
    <3>4. CASE mgr.phase = "Master"
      <4>1. status'.etcd = status.etcd
        BY <1>1, <2>2, <3>4 DEF Record, TypeOK
      <4>2. \A n \in agentReady : kubelet[n] = "new"
        BY <1>1, <3>1, <3>4 DEF FlowInv, PhasesBefore, Role, Runs, TypeOK, Nodes
      <4> QED BY <4>1, <4>2
    <3> QED BY <3>1, <3>2, <3>3, <3>4 DEF Phases
  <2>3. CASE ~Record
    BY <1>1, <2>1, <2>3, EnvironmentKeepsFlow
       DEF Next, Manager, Reconcile, SelectNodes, CommandOK, CommandFails, NodeOK,
           HealthTimeout, EndLoop, SkipNode, StartNode, ApiError, Restart
  <2> QED BY <2>2, <2>3
<1> QED BY <1>1, FlowAlways, SnapshotAlways, PTL DEF Spec, RecordedMeansRunning

-----------------------------------------------------------------------------
(***************************************************************************)
(* The nodes that are down.                                                *)
(***************************************************************************)

\* One more run that nobody watches accounts for one more node.
LEMMA OneMoreLost ==
    ASSUME NEW L \in SUBSET Nodes, NEW n \in Nodes, NEW k \in Nat, Cardinality(L) <= k
    PROVE  /\ L \cup {n} \in SUBSET Nodes
           /\ Cardinality(L \cup {n}) <= k + 1
<1>1. IsFiniteSet(L)
  BY NodesAssumption, FS_Subset
<1>2. Cardinality(L) \in Nat
  BY <1>1, FS_CardinalityType
<1>3. Cardinality(L \cup {n}) \in {Cardinality(L), Cardinality(L) + 1}
  BY <1>1, <1>2, FS_AddElement
<1> QED BY <1>2, <1>3

LEMMA LostStep ==
    TypeOK /\ FlowInv /\ LostInv /\ [Next]_vars => LostInv'
<1> SUFFICES ASSUME TypeOK, FlowInv, LostInv, [Next]_vars
             PROVE  \E K \in SUBSET Nodes : Accounts(K)'
  BY DEF LostInv
<1> PICK L \in SUBSET Nodes : Accounts(L)
  BY DEF LostInv
<1>0. /\ mgr \in MgrType /\ FlowShape /\ mgr' \in MgrType
      /\ cmd \in [Nodes -> CmdType] /\ orphans \subseteq Nodes \X Tasks
      /\ lost \in Nat /\ down \subseteq Nodes /\ reported \subseteq Nodes
      /\ mgr.pc \in {"wait", "health"} => mgr.node \in Nodes
  BY TypeParts, FlowStep DEF FlowInv, TypeOK, MgrType, FlowShape, CmdType
<1>1. CASE /\ UNCHANGED <<down, reported, cmd, orphans, lost>>
           /\ mgr.pc \notin {"wait", "health"}
           /\ mgr'.pc \notin {"wait", "health"}
  BY <1>1 DEF Accounts, Watched
<1>2. CASE Reconcile \/ SelectNodes \/ EndLoop \/ Record \/ ApiError
  <2>1. mgr.pc \notin {"wait", "health"}
    BY <1>2 DEF Reconcile, SelectNodes, EndLoop, Record, ApiError
  <2>2. UNCHANGED <<down, reported, cmd, orphans, lost>>
    BY <1>2 DEF Reconcile, SelectNodes, EndLoop, Record, ApiError, cluster
  <2>3. mgr'.pc \notin {"wait", "health"}
    <3>1. CASE mgr' = Idle
      BY <3>1 DEF Idle
    <3>2. CASE Reconcile \/ Record
      <4>1. Record => mgr.phase \in Phases
        BY <1>0 DEF Record, FlowShape, MgrType
      <4>2. mgr'.pc \in {"idle", "select"}
        BY <3>2, <4>1, AfterType, EnterShape DEF Reconcile, Record
      <4> QED BY <4>2
    <3>3. CASE SelectNodes /\ mgr' # Idle
      <4>1. PICK b \in Masters :
               mgr' = [mgr EXCEPT !.pc = "pick", !.todo = Select(mgr.phase),
                                  !.backup = b, !.errs = {}]
        BY <3>3 DEF SelectNodes, Abort
      <4> QED BY <1>0, <4>1 DEF MgrType
    <3>4. CASE EndLoop /\ mgr' # Idle
      BY <1>0, <3>4 DEF EndLoop, Abort, MgrType
    <3>5. CASE ApiError
      BY <3>1, <3>5 DEF ApiError, Abort
    <3> QED BY <1>2, <3>1, <3>2, <3>3, <3>4, <3>5
  <2> QED BY <1>1, <2>1, <2>2, <2>3
<1>3. CASE Restart
  <2>1. mgr'.pc = "idle" /\ UNCHANGED <<down, reported, cmd, orphans>>
    BY <1>3 DEF Restart, Idle, cluster
  <2>2. CASE mgr.pc \in {"wait", "health"}
    <3>1. lost' = lost + 1
      BY <1>3, <2>2 DEF Restart
    <3>2. PICK K \in SUBSET Nodes : K = L \cup {mgr.node} /\ Cardinality(K) <= lost'
      BY <1>0, <2>2, <3>1, OneMoreLost DEF Accounts
    <3>3. Accounts(K)'
      BY <2>1, <2>2, <3>2 DEF Accounts, Watched
    <3> QED BY <3>2, <3>3
  <2>3. CASE mgr.pc \notin {"wait", "health"}
    <3>1. UNCHANGED lost
      BY <1>3, <2>3 DEF Restart
    <3> QED BY <1>1, <2>1, <2>3, <3>1
  <2> QED BY <2>2, <2>3
<1>4. CASE CommandOK
  <2>1. /\ mgr'.pc = "health" /\ mgr'.node = mgr.node /\ mgr.pc = "wait"
        /\ UNCHANGED <<down, reported, orphans, lost>>
        /\ cmd' = [cmd EXCEPT ![mgr.node] = NoCmd]
    BY <1>0, <1>4 DEF CommandOK, MgrType, cluster
  <2>2. \A n \in Nodes : cmd'[n].result = "running" => n \in L
    BY <1>0, <2>1 DEF Accounts, NoCmd
  <2> QED BY <2>1, <2>2 DEF Accounts, Watched
<1>5. CASE CommandFails
  <2>1. /\ mgr.pc = "wait" /\ mgr'.pc \in {"idle", "pick"}
        /\ reported' = reported \cup {mgr.node}
        /\ UNCHANGED <<down, orphans>>
    BY <1>0, <1>5, NodeFailsType DEF CommandFails, cluster
  <2>2. CASE UNCHANGED lost /\ cmd' = [cmd EXCEPT ![mgr.node] = NoCmd]
    <3>1. \A n \in Nodes : cmd'[n].result = "running" => n \in L
      BY <1>0, <2>1, <2>2 DEF Accounts, NoCmd
    <3> QED BY <2>1, <2>2, <3>1 DEF Accounts, Watched
  <2>3. CASE lost' = lost + 1 /\ UNCHANGED cmd
    <3>1. PICK K \in SUBSET Nodes : K = L \cup {mgr.node} /\ Cardinality(K) <= lost'
      BY <1>0, <2>1, <2>3, OneMoreLost DEF Accounts
    <3>2. Accounts(K)'
      BY <2>1, <2>3, <3>1 DEF Accounts, Watched
    <3> QED BY <3>1, <3>2
  <2> QED BY <1>5, <2>2, <2>3 DEF CommandFails
<1>6. CASE NodeOK
  <2>1. /\ mgr'.pc = "pick" /\ mgr.pc = "health" /\ mgr.node \notin down
        /\ UNCHANGED <<down, reported, cmd, orphans, lost>>
    BY <1>0, <1>6 DEF NodeOK, Healthy, MgrType, cluster
  <2> QED BY <2>1 DEF Accounts, Watched
<1>7. CASE HealthTimeout
  <2>1. /\ mgr.pc = "health" /\ mgr'.pc \in {"idle", "pick"}
        /\ reported' = reported \cup {mgr.node}
        /\ UNCHANGED <<down, cmd, orphans, lost>>
    BY <1>0, <1>7, NodeFailsType DEF HealthTimeout, cluster
  <2> QED BY <2>1 DEF Accounts, Watched
<1>8. ASSUME NEW n \in Nodes, SkipNode(n)
      PROVE  Accounts(L)'
  <2>1. /\ mgr.pc = "pick" /\ mgr'.pc = "pick"
        /\ UNCHANGED <<down, reported, cmd, orphans, lost>>
    BY <1>0, <1>8 DEF SkipNode, MgrType, cluster
  <2> QED BY <2>1 DEF Accounts, Watched
<1>9. ASSUME NEW n \in Nodes, StartNode(n)
      PROVE  Accounts(L)'
  <2>1. /\ mgr.pc = "pick" /\ mgr'.pc = "wait" /\ mgr'.node = n
        /\ reported' = reported \ {n}
        /\ UNCHANGED <<down, lost>>
    BY <1>0, <1>9 DEF StartNode, MgrType, cluster
  <2>2. \A k \in Nodes \ {n} : cmd'[k] = cmd[k]
    BY <1>0, <1>9 DEF StartNode
  <2>3. \A k \in Nodes, t \in Tasks : <<k, t>> \in orphans' => k \in L
    BY <1>0, <1>9, <2>1 DEF StartNode, Accounts
  <2> QED BY <2>1, <2>2, <2>3 DEF Accounts, Watched
<1>10. ASSUME NEW n \in Nodes, UpgradeEtcd(n) \/ UpgradeNode(n) \/ AgentFails(n)
       PROVE  Accounts(L)'
  <2>1. /\ UNCHANGED <<mgr, reported, orphans, lost>>
        /\ down' \subseteq down \cup {n}
        /\ cmd[n].result = "running"
        /\ \E res \in {"ok", "failed"} : cmd' = [cmd EXCEPT ![n].result = res]
    BY <1>10 DEF UpgradeEtcd, UpgradeNode, AgentFails
  <2>2. \A k \in Nodes : cmd'[k].result = "running" => cmd[k].result = "running"
    BY <1>0, <2>1
  <2>3. n \in Watched \cup L
    BY <2>1 DEF Accounts, Watched
  <2> QED BY <2>1, <2>2, <2>3 DEF Accounts, Watched
<1>11. ASSUME NEW n \in Nodes, NEW t \in Tasks, OrphanEnds(n, t)
       PROVE  Accounts(L)'
  <2>1. /\ UNCHANGED <<mgr, reported, cmd, lost>>
        /\ down' \subseteq down \cup {n}
        /\ <<n, t>> \in orphans /\ orphans' \subseteq orphans
    BY <1>11 DEF OrphanEnds
  <2> QED BY <2>1 DEF Accounts, Watched
<1>12. ASSUME NEW n \in Nodes, Recover(n) \/ AgentAnswers(n)
       PROVE  Accounts(L)'
  <2>1. UNCHANGED <<mgr, reported, cmd, orphans, lost>> /\ down' \subseteq down
    BY <1>12 DEF Recover, AgentAnswers
  <2> QED BY <2>1 DEF Accounts, Watched
<1>13. CASE UNCHANGED vars
  BY <1>13 DEF vars, Accounts, Watched
<1> QED BY <1>2, <1>3, <1>4, <1>5, <1>6, <1>7, <1>8, <1>9, <1>10, <1>11, <1>12,
        <1>13 DEF Next, Manager, Environment

LEMMA LostAlways == Spec => []LostInv
<1>1. Init => LostInv
  <2> SUFFICES ASSUME Init PROVE Accounts({})
    BY DEF LostInv
  <2>1. Cardinality({}) = 0
    BY FS_EmptySet
  <2> QED BY <2>1 DEF Init, Accounts, NoCmd
<1> QED BY <1>1, LostStep, FlowAlways, PTL DEF Spec

(***************************************************************************)
(* The upgrade is a rolling one: besides the nodes marked UpgradeFailed,   *)
(* at most one node is down because of it, and one more for each run that  *)
(* the manager stopped watching; for any number of nodes and restarts.     *)
(***************************************************************************)
THEOREM OneNodeAtATime == Spec => []OneNodeDown
<1>1. ASSUME TypeOK, FlowInv, LostInv
      PROVE  OneNodeDown
  <2> PICK L \in SUBSET Nodes : Accounts(L)
    BY <1>1 DEF LostInv
  <2>1. PICK K \in SUBSET Nodes : Cardinality(K) <= lost + 1 /\ down \ reported \subseteq K
    <3>1. lost \in Nat
      BY <1>1 DEF TypeOK
    <3>2. CASE mgr.pc \in {"wait", "health"}
      <4>1. mgr.node \in Nodes
        BY <1>1, <3>2, TypeParts DEF FlowInv, FlowShape, MgrType
      <4>2. L \cup {mgr.node} \in SUBSET Nodes /\ Cardinality(L \cup {mgr.node}) <= lost + 1
        BY <3>1, <4>1, OneMoreLost DEF Accounts
      <4>3. down \ reported \subseteq L \cup {mgr.node}
        BY <3>2 DEF Accounts, Watched
      <4> QED BY <4>2, <4>3
    <3>3. CASE mgr.pc \notin {"wait", "health"}
      <4>1. Cardinality(L) \in Nat
        BY NodesAssumption, FS_Subset, FS_CardinalityType
      <4>2. down \ reported \subseteq L /\ Cardinality(L) <= lost + 1
        BY <3>1, <3>3, <4>1 DEF Accounts, Watched
      <4> QED BY <4>2
    <3> QED BY <3>2, <3>3
  <2>2. IsFiniteSet(K)
    BY NodesAssumption, FS_Subset
  <2>3. Cardinality(down \ reported) <= Cardinality(K)
    BY <2>1, <2>2, FS_Subset
  <2>4. Cardinality(down \ reported) \in Nat /\ Cardinality(K) \in Nat /\ lost \in Nat
    BY <1>1, <2>1, <2>2, FS_Subset, FS_CardinalityType DEF TypeOK
  <2> QED BY <2>1, <2>3, <2>4 DEF OneNodeDown
<1> QED BY <1>1, FlowAlways, LostAlways, PTL

\* Everything the theorems rest on, as one invariant.
LEMMA Invariant == Spec => []IInv
BY FlowAlways, SnapshotAlways, LostAlways, PTL DEF IInv
=============================================================================
