------------------------ MODULE MachineBootstrapProofs ------------------------
(***************************************************************************)
(* The type invariant of the bootstrap and the deletion of worker          *)
(* machines, for any nodes and machines and any number of failures, edits  *)
(* and faults.  It holds as it stands: every step gives the variables it   *)
(* changes values of their types.                                          *)
(***************************************************************************)
EXTENDS MachineBootstrap, FiniteSetTheorems, TLAPS

-----------------------------------------------------------------------------
(***************************************************************************)
(* The operators.                                                          *)
(***************************************************************************)
Records == [failed: NodeStates, normal: NodeStates, count: Nat, requeue: BOOLEAN]

Phases == [at: {"idle", "join", "delete"}, todo: SUBSET Nodes, good: SUBSET Nodes,
           bad: SUBSET Nodes, old: 0..Cardinality(Nodes)]

\* A record stays a record, and the state that is written is a state.
LEMMA RecordNodeType ==
    ASSUME NEW r \in Records, NEW state \in NodeStates, NEW isFailed \in BOOLEAN
    PROVE  /\ RecordNode(r, state, isFailed).rec \in Records
           /\ RecordNode(r, state, isFailed).state \in NodeStates
<1> DEFINE c == CountFailure(r, state)
<1>1. c \in Records
  <2> DEFINE k == IF r.failed = state THEN r.count + 1 ELSE 1
  <2>1. k \in Nat
    BY DEF Records
  <2>2. c = [r EXCEPT !.failed = state, !.count = k]
    BY DEF CountFailure
  <2> HIDE DEF k, c
  <2> QED BY <2>1, <2>2 DEF Records
<1>2. c.count \in Nat
  BY <1>1 DEF Records
<1>3. [c EXCEPT !.requeue = TRUE] \in Records
  BY <1>1 DEF Records
<1>4. Spend(c) \in Records
  BY <1>1 DEF Spend, Records, NodeStates
<1>5. [r EXCEPT !.normal = state] \in Records /\ r.normal \in NodeStates
  BY DEF Records
<1> HIDE DEF c
<1>6. CASE state = Blank
  BY <1>6 DEF RecordNode
<1>7. CASE state # Blank /\ ~isFailed
  BY <1>5, <1>7 DEF RecordNode
<1>8. CASE state # Blank /\ isFailed /\ AllowFailed(c)
  BY <1>3, <1>5, <1>8 DEF RecordNode, c
<1>9. CASE state # Blank /\ isFailed /\ ~AllowFailed(c)
  BY <1>4, <1>9 DEF RecordNode, c
<1> QED BY <1>6, <1>7, <1>8, <1>9

\* Nodes that are recorded lose the mark, so that none of them is written.
LEMMA SyncKeeps ==
    ASSUME NEW nd \in [Nodes -> BKENode], rec \in [Nodes -> Records], SyncNodes(nd)
    PROVE  node' = nd /\ rec' \in [Nodes -> Records]
<1>1. \A n \in Nodes : n \notin NeedRecord(Recorded(nd))
  <2> TAKE n \in Nodes
  <2>1. CASE n \in NeedRecord(nd)
    <3>1. Recorded(nd)[n].need = FALSE
      BY <2>1 DEF Recorded, BKENode
    <3> QED BY <3>1 DEF NeedRecord
  <2>2. CASE n \notin NeedRecord(nd)
    <3>1. Recorded(nd)[n] = nd[n]
      BY <2>2 DEF Recorded
    <3> QED BY <2>2, <3>1 DEF NeedRecord
  <2> QED BY <2>1, <2>2
<1>2. node' = [n \in Nodes |-> nd[n]]
  BY <1>1 DEF SyncNodes
<1>3. ASSUME NEW n \in Nodes
      PROVE  RecordNode(rec[n], nd[n].state, IsFailedState(nd[n].state)).rec \in Records
  BY RecordNodeType DEF BKENode, IsFailedState
<1>4. rec' \in [Nodes -> Records]
  BY <1>3 DEF SyncNodes
<1> QED BY <1>2, <1>4

\* UpdateBKENodeState leaves a node a node.
LEMMA SetStateKeeps ==
    ASSUME NEW nd \in [Nodes -> BKENode], NEW n \in Nodes \cup {None},
           NEW s \in NodeStates
    PROVE  SetNodeState(nd, n, s) \in [Nodes -> BKENode]
<1>1. CASE n \in Nodes
  BY <1>1 DEF SetNodeState, BKENode
<1>2. CASE n \notin Nodes
  <2>1. [nd EXCEPT ![n].state = s] = nd
    BY <1>2
  <2> QED BY <2>1 DEF SetNodeState
<1> QED BY <1>1, <1>2

LEMMA NewNodeType == /\ NewNode \in BKENode
                     /\ [NewNode EXCEPT !.exists = FALSE] \in BKENode
BY DEF NewNode, BKENode, NodeStates

LEMMA NothingType == /\ NoMachine \in BKEMachine
                     /\ Idle \in Runs /\ EmptyRecord \in Records
BY DEF NoMachine, BKEMachine, Idle, Runs, RunPoints, EmptyRecord, Records,
       NodeStates

LEMMA MinOfTwo ==
    ASSUME NEW a \in Nat, NEW b \in Nat
    PROVE  Min({a, b}) \in Nat /\ Min({a, b}) <= b
<1>1. \E x \in {a, b} : \A y \in {a, b} : x <= y
  <2>1. CASE a <= b
    BY <2>1
  <2>2. CASE ~(a <= b)
    BY <2>2
  <2> QED BY <2>1, <2>2
<1>2. Min({a, b}) \in {a, b} /\ \A y \in {a, b} : Min({a, b}) <= y
  BY <1>1 DEF Min
<1> QED BY <1>2

LEMMA MaxOfTwo ==
    ASSUME NEW a \in Int, NEW b \in Nat, a <= b
    PROVE  Max({a, 0}) \in 0..b
<1>1. \E x \in {a, 0} : \A y \in {a, 0} : x >= y
  <2>1. CASE a >= 0
    BY <2>1
  <2>2. CASE ~(a >= 0)
    BY <2>2
  <2> QED BY <2>1, <2>2
<1>2. Max({a, 0}) \in {a, 0} /\ \A y \in {a, 0} : Max({a, 0}) >= y
  BY <1>1 DEF Max
<1> QED BY <1>2

\* The sizes that are added and compared are numbers.
LEMMA Sizes ==
    /\ Cardinality(Nodes) \in Nat
    /\ \A S \in SUBSET Nodes :
           Cardinality(S) \in Nat /\ Cardinality(S) <= Cardinality(Nodes)
    /\ \A S \in SUBSET Machines : Cardinality(S) \in Nat
<1>1. IsFiniteSet(Nodes) /\ IsFiniteSet(Machines)
  BY BootAssumption
<1> QED BY <1>1, FS_Subset, FS_CardinalityType

\* What a reconcile does with its copy leaves it a reconcile.
LEMMA RunsType ==
    ASSUME NEW r \in Runs, NEW l \in Nodes \cup {None}
    PROVE  /\ \A point \in RunPoints : [r EXCEPT !.at = point] \in Runs
           /\ \A b \in BOOLEAN : [r EXCEPT !.err = b] \in Runs
           /\ [r EXCEPT !.again = TRUE] \in Runs
           /\ [r EXCEPT !.again = FALSE] \in Runs
           /\ [r EXCEPT !.pick = l] \in Runs
           /\ [r EXCEPT !.host = l] \in Runs
           /\ [r EXCEPT !.old = r.obj] \in Runs
           /\ [r EXCEPT !.obj.label = l] \in Runs
           /\ [r EXCEPT !.obj.node = l] \in Runs
           /\ [r EXCEPT !.obj.booted = TRUE] \in Runs
           /\ [r EXCEPT !.obj.fin = FALSE] \in Runs
           /\ \A C \in SUBSET Nodes : [r EXCEPT !.cands = C] \in Runs
           /\ \A C \in SUBSET Commands : [r EXCEPT !.todo = C] \in Runs
<1>1. /\ \A point \in RunPoints : [r EXCEPT !.at = point] \in Runs
      /\ \A b \in BOOLEAN : [r EXCEPT !.err = b] \in Runs
      /\ [r EXCEPT !.again = TRUE] \in Runs
      /\ [r EXCEPT !.again = FALSE] \in Runs
  BY DEF Runs
<1>2. /\ [r EXCEPT !.pick = l] \in Runs
      /\ [r EXCEPT !.host = l] \in Runs
      /\ [r EXCEPT !.old = r.obj] \in Runs
  BY DEF Runs
<1>3. /\ \A C \in SUBSET Nodes : [r EXCEPT !.cands = C] \in Runs
      /\ \A C \in SUBSET Commands : [r EXCEPT !.todo = C] \in Runs
  BY DEF Runs
<1>4. \A o \in BKEMachine : [r EXCEPT !.obj = o] \in Runs
  BY DEF Runs
<1>5. r.obj \in BKEMachine
  BY DEF Runs
<1>6. /\ [r.obj EXCEPT !.label = l] \in BKEMachine
      /\ [r.obj EXCEPT !.node = l] \in BKEMachine
      /\ [r.obj EXCEPT !.booted = TRUE] \in BKEMachine
      /\ [r.obj EXCEPT !.fin = FALSE] \in BKEMachine
  BY <1>5 DEF BKEMachine
<1> QED BY <1>1, <1>2, <1>3, <1>4, <1>6

LEMMA EndType == ASSUME NEW r \in Runs PROVE End(r) \in Runs
<1>1. [r EXCEPT !.at = "patch", !.host = None, !.cands = {}, !.pick = None] \in Runs
  BY DEF Runs, RunPoints
<1> QED BY <1>1, NothingType DEF End

LEMMA ReconcileBootstrapType ==
    ASSUME TypeOK, NEW r \in Runs
    PROVE  ReconcileBootstrap(r) \in Runs
<1>1. ReadyNodes \subseteq Nodes
  BY DEF ReadyNodes, Existing
<1>2. [r EXCEPT !.at = "pick", !.host = None, !.cands = ReadyNodes] \in Runs
  BY <1>1 DEF Runs, RunPoints
<1> QED BY <1>2, EndType DEF ReconcileBootstrap

LEMMA ReconcileCommandType ==
    ASSUME TypeOK, NEW r \in Runs, NEW m
    PROVE  ReconcileCommand(m, r) \in Runs
<1>1. Associated(m) \subseteq Commands
  BY DEF Associated, OwnedBy, TypeOK
<1>2. \A l \in Existing :
          [r EXCEPT !.at = "commands", !.host = l, !.todo = Associated(m)] \in Runs
  BY <1>1 DEF Runs, RunPoints, Existing
<1> QED BY <1>2, ReconcileBootstrapType DEF ReconcileCommand

LEMMA ProcessedType ==
    ASSUME TypeOK, NEW r \in Runs, NEW x
    PROVE  Processed(x, r) \in Runs
<1> DEFINE s == [r EXCEPT !.todo = @ \ {x}]
<1>1. s \in Runs
  <2>1. r.todo \ {x} \in SUBSET Commands
    BY DEF Runs
  <2> QED BY <2>1 DEF Runs
<1> HIDE DEF s
<1>2. [s EXCEPT !.at = "patchCommands"] \in Runs
  BY <1>1 DEF Runs, RunPoints
<1>3. Processed(x, r) = IF s.todo # {} THEN s
                        ELSE IF s.obj # s.old THEN [s EXCEPT !.at = "patchCommands"]
                        ELSE ReconcileBootstrap(s)
  BY DEF Processed, s
<1> QED BY <1>1, <1>2, <1>3, ReconcileBootstrapType

LEMMA GotoType ==
    ASSUME TypeOK, NEW m \in Machines, NEW r \in Runs, Goto(m, r)
    PROVE  run' \in [Machines -> Runs]
BY DEF Goto, TypeOK

LEMMA FaultType == ASSUME TypeOK, Fault PROVE faults' \in 0..MaxFaults
<1>1. MaxFaults \in Nat
  BY BootAssumption
<1> QED BY <1>1 DEF Fault, TypeOK

LEMMA CleanupType ==
    ASSUME TypeOK, NEW n, Cleanup(n)
    PROVE  node' \in [Nodes -> BKENode] /\ bootRecord' \subseteq Nodes
<1>1. node \in [Nodes -> BKENode]
  BY DEF TypeOK
<1>2. [node EXCEPT ![n] = [NewNode EXCEPT !.exists = FALSE]] \in [Nodes -> BKENode]
  BY <1>1, NewNodeType
<1> QED BY <1>2 DEF Cleanup, TypeOK

\* A new command is a command, and the one that it replaces is dropped.
LEMMA NewCommandsType ==
    ASSUME TypeOK, NEW kind \in {"boot", "reset"}, NEW n \in Nodes \cup {None},
           NEW m \in Machines
    PROVE  /\ \A rest \in AfterUnique(kind, n) : rest \subseteq Commands
           /\ \A c \in NewCommands(kind, n, m) : n \in Nodes => c \in Commands
<1>1. cmd \subseteq Commands
  BY DEF TypeOK
<1>2. \A rest \in AfterUnique(kind, n) : rest \subseteq Commands
  BY <1>1 DEF AfterUnique
<1>3. Times(kind, n) \subseteq 1..MaxCommands
  BY DEF Times
<1>4. ASSUME n \in Nodes PROVE NewCommands(kind, n, m) \subseteq Commands
  BY <1>3, <1>4 DEF NewCommands, Commands
<1> QED BY <1>2, <1>4

-----------------------------------------------------------------------------
(***************************************************************************)
(* The steps of a reconcile.                                               *)
(***************************************************************************)
LEMMA ReconcileType ==
    ASSUME TypeOK, NEW m \in Machines, Reconcile(m)
    PROVE  TypeOK'
<1> DEFINE old == [seen[m] EXCEPT !.fin = TRUE]
           r == [Idle EXCEPT !.old = old, !.obj = old]
<1>1. old \in BKEMachine
  <2>1. seen[m] \in BKEMachine
    BY DEF TypeOK
  <2> QED BY <2>1 DEF BKEMachine
<1>2. r \in Runs
  BY <1>1, NothingType DEF Runs
<1>3. [r EXCEPT !.at = "delete"] \in Runs
  <2> HIDE DEF r
  <2>1. r \in Runs
    BY <1>2
  <2> QED BY <2>1 DEF Runs, RunPoints
<1>4. ReconcileCommand(m, r) \in Runs
  <2> HIDE DEF r
  <2> QED BY <1>2, ReconcileCommandType
<1>5. faults' \in 0..MaxFaults
  BY FaultType DEF Reconcile, TypeOK
<1>6. machine' \in [Machines -> BKEMachine]
  <2>1. machine \in [Machines -> BKEMachine]
    BY DEF TypeOK
  <2>2. [machine EXCEPT ![m].fin = TRUE] \in [Machines -> BKEMachine]
    BY <2>1 DEF BKEMachine
  <2> QED BY <2>1, <2>2 DEF Reconcile
<1>7. run' \in [Machines -> Runs]
  <2>1. CASE UNCHANGED run
    BY <2>1 DEF TypeOK
  <2>2. CASE ~UNCHANGED run
    <3>1. \E x \in {[r EXCEPT !.at = "delete"], Idle, ReconcileCommand(m, r)} :
              Goto(m, x)
      BY <2>2 DEF Reconcile
    <3> HIDE DEF r
    <3> QED BY <3>1, <1>3, <1>4, NothingType, GotoType
  <2> QED BY <2>1, <2>2
<1> QED BY <1>5, <1>6, <1>7 DEF Reconcile, TypeOK

LEMMA MarkCommandReconciledType ==
    ASSUME TypeOK, NEW m \in Machines, NEW x, NEW r \in Runs,
           NEW nd \in [Nodes -> BKENode], MarkCommandReconciled(m, x, nd, r)
    PROVE  /\ faults' \in 0..MaxFaults
           /\ cmd' \subseteq Commands
           /\ node' \in [Nodes -> BKENode] /\ rec' \in [Nodes -> Records]
           /\ run' \in [Machines -> Runs]
<1>1. PICK marked \in BOOLEAN, synced \in BOOLEAN :
          /\ IF marked /\ synced THEN UNCHANGED faults ELSE Fault
          /\ cmd' = {[c EXCEPT !.done = @ \/ (marked /\ SameName(c, x))] : c \in cmd}
          /\ IF synced THEN SyncNodes(nd) ELSE node' = nd /\ UNCHANGED rec
          /\ Goto(m, Processed(x, [r EXCEPT !.err = @ \/ Named(x, cmd) = {}
                                                      \/ ~marked \/ ~synced]))
  BY DEF MarkCommandReconciled
<1>2. faults' \in 0..MaxFaults
  BY <1>1, FaultType DEF TypeOK
<1>3. cmd' \subseteq Commands
  <2>1. ASSUME NEW c \in cmd
        PROVE  [c EXCEPT !.done = @ \/ (marked /\ SameName(c, x))] \in Commands
    <3> DEFINE b == c.done \/ (marked /\ SameName(c, x))
    <3>1. c \in Commands
      BY DEF TypeOK
    <3>2. b \in BOOLEAN
      BY <3>1 DEF Commands
    <3> HIDE DEF b
    <3>3. [c EXCEPT !.done = b] \in Commands
      BY <3>1, <3>2 DEF Commands
    <3> QED BY <3>3 DEF b
  <2> QED BY <1>1, <2>1
<1>4. node' \in [Nodes -> BKENode] /\ rec' \in [Nodes -> Records]
  BY <1>1, SyncKeeps DEF TypeOK, Records
<1>5. run' \in [Machines -> Runs]
  <2> DEFINE b == r.err \/ Named(x, cmd) = {} \/ ~marked \/ ~synced
  <2>1. b \in BOOLEAN
    BY DEF Runs
  <2>2. Goto(m, Processed(x, [r EXCEPT !.err = b]))
    BY <1>1
  <2> HIDE DEF b
  <2>3. [r EXCEPT !.err = b] \in Runs
    BY <2>1 DEF Runs
  <2> QED BY <2>2, <2>3, ProcessedType, GotoType
<1> QED BY <1>2, <1>3, <1>4, <1>5

LEMMA CommandsType ==
    ASSUME TypeOK, NEW m \in Machines, NEW x,
           \/ ProcessBootstrapCommand(m, x)
           \/ ProcessBootstrapFailure(m, x)
           \/ ProcessBootstrapSuccess(m, x)
           \/ HandleBootstrapSuccessFailure(m, x)
           \/ ProcessResetCommand(m, x)
    PROVE  TypeOK'
<1> DEFINE l == run[m].host
           r == run[m]
<1>1. r \in Runs /\ l \in Nodes \cup {None}
  BY DEF TypeOK, Runs
<1>2. rec \in [Nodes -> Records] /\ node \in [Nodes -> BKENode]
  BY DEF TypeOK, Records
<1>3. /\ SetNodeState(node, l, "BootStrapFailed") \in [Nodes -> BKENode]
      /\ SetNodeState(node, l, "NotReady") \in [Nodes -> BKENode]
  <2> HIDE DEF l
  <2>1. {"BootStrapFailed", "NotReady"} \subseteq NodeStates
    BY DEF NodeStates
  <2> QED BY <1>1, <1>2, <2>1, SetStateKeeps
<1>4. CASE ProcessBootstrapCommand(m, x)
  <2>1. run' \in [Machines -> Runs]
    BY <1>1, <1>4, ProcessedType, GotoType DEF ProcessBootstrapCommand
  <2> QED BY <1>4, <2>1 DEF ProcessBootstrapCommand, ForgetPick, TypeOK
<1>5. CASE ProcessBootstrapFailure(m, x)
  <2>1. [r EXCEPT !.obj.label = None, !.again = FALSE] \in Runs
    <3>1. [r EXCEPT !.obj.label = None] \in Runs
      BY <1>1, RunsType
    <3>2. [[r EXCEPT !.obj.label = None] EXCEPT !.again = FALSE] \in Runs
      BY <3>1, RunsType
    <3> QED BY <3>2
  <2>2. /\ faults' \in 0..MaxFaults /\ cmd' \subseteq Commands
        /\ node' \in [Nodes -> BKENode] /\ rec' \in [Nodes -> Records]
        /\ run' \in [Machines -> Runs]
    BY <1>3, <1>5, <2>1, MarkCommandReconciledType DEF ProcessBootstrapFailure
  <2> QED BY <1>5, <2>2 DEF ProcessBootstrapFailure, ForgetPick, TypeOK, Records
<1>6. CASE ProcessBootstrapSuccess(m, x)
  <2> DEFINE ready == SetNodeState(node, l, "NotReady")
             booted == [ready EXCEPT ![l].boot = ready[l].exists]
  <2>1. booted \in [Nodes -> BKENode]
    <3>1. ready \in [Nodes -> BKENode]
      BY <1>3
    <3> HIDE DEF ready, l
    <3>2. CASE l \in Nodes
      BY <3>1, <3>2 DEF BKENode
    <3>3. CASE l \notin Nodes
      <4>1. booted = ready
        BY <3>1, <3>3
      <4> QED BY <3>1, <4>1
    <3> QED BY <3>2, <3>3
  <2>2. [r EXCEPT !.obj.booted = TRUE] \in Runs
    BY <1>1, RunsType
  <2>3. MarkCommandReconciled(m, x, booted, [r EXCEPT !.obj.booted = TRUE])
    BY <1>6 DEF ProcessBootstrapSuccess
  <2> HIDE DEF booted
  <2>4. /\ faults' \in 0..MaxFaults /\ cmd' \subseteq Commands
        /\ node' \in [Nodes -> BKENode] /\ rec' \in [Nodes -> Records]
        /\ run' \in [Machines -> Runs]
    BY <2>1, <2>2, <2>3, MarkCommandReconciledType
  <2> QED BY <1>6, <2>4 DEF ProcessBootstrapSuccess, ForgetPick, TypeOK, Records
<1>7. CASE HandleBootstrapSuccessFailure(m, x)
  <2>1. run' \in [Machines -> Runs]
    <3>1. [r EXCEPT !.again = TRUE] \in Runs
      BY <1>1, RunsType
    <3> QED BY <1>7, <3>1, ProcessedType, GotoType DEF HandleBootstrapSuccessFailure
  <2>2. node' \in [Nodes -> BKENode] /\ rec' \in [Nodes -> Records]
    BY <1>2, <1>3, <1>7, SyncKeeps DEF HandleBootstrapSuccessFailure
  <2>3. faults' \in 0..MaxFaults
    BY <1>7, FaultType DEF HandleBootstrapSuccessFailure, TypeOK
  <2> QED BY <1>7, <2>1, <2>2, <2>3
          DEF HandleBootstrapSuccessFailure, ForgetPick, TypeOK, Records
<1>8. CASE ProcessResetCommand(m, x)
  <2> DEFINE again == [r EXCEPT !.again = TRUE]
  <2>1. again \in Runs /\ [again EXCEPT !.obj.fin = FALSE] \in Runs
    <3>1. again \in Runs
      BY <1>1, RunsType
    <3> HIDE DEF again
    <3> QED BY <3>1, RunsType
  <2>2. /\ \/ Goto(m, Processed(x, [again EXCEPT !.obj.fin = FALSE])) /\ UNCHANGED faults
           \/ Fault /\ Goto(m, Processed(x, again))
        /\ \/ node' = [node EXCEPT ![l] = [NewNode EXCEPT !.exists = FALSE]]
              /\ joined' = joined \ {l}
           \/ UNCHANGED <<node, joined>>
    BY <1>8 DEF ProcessResetCommand
  <2> HIDE DEF again, l
  <2>3. run' \in [Machines -> Runs]
    BY <2>1, <2>2, ProcessedType, GotoType
  <2>4. faults' \in 0..MaxFaults
    BY <2>2, FaultType DEF TypeOK
  <2>5. node' \in [Nodes -> BKENode] /\ joined' \subseteq Nodes
    BY <1>2, <2>2, NewNodeType DEF TypeOK
  <2> QED BY <1>8, <2>3, <2>4, <2>5 DEF ProcessResetCommand, TypeOK
<1> QED BY <1>4, <1>5, <1>6, <1>7, <1>8

\* The patch of a reconcile is a machine.
LEMMA PatchedType ==
    ASSUME TypeOK, NEW m \in Machines
    PROVE  Patched(m) \in BKEMachine
<1>1. /\ machine[m] \in BKEMachine /\ run[m].old \in BKEMachine
      /\ run[m].obj \in BKEMachine
  BY DEF TypeOK, Runs
<1> DEFINE old == run[m].old
           obj == run[m].obj
           l == IF obj.label # old.label THEN obj.label ELSE machine[m].label
           n == IF obj.node # old.node THEN obj.node ELSE machine[m].node
           b == machine[m].booted \/ (obj.booted /\ ~old.booted)
           f == machine[m].fin /\ ~(old.fin /\ ~obj.fin)
<1>2. l \in Nodes \cup {None} /\ n \in Nodes \cup {None}
  BY <1>1 DEF BKEMachine
<1>3. b \in BOOLEAN /\ f \in BOOLEAN
  BY <1>1 DEF BKEMachine
<1>4. Patched(m) = [machine[m] EXCEPT !.label = l, !.node = n, !.booted = b, !.fin = f]
  BY DEF Patched
<1> HIDE DEF l, n, b, f
<1> QED BY <1>1, <1>2, <1>3, <1>4 DEF BKEMachine

LEMMA PatchMachineType ==
    ASSUME TypeOK, NEW m \in Machines, PatchMachine(m)
    PROVE  machine' \in [Machines -> BKEMachine] /\ cmd' \subseteq Commands
<1>1. Patched(m) \in BKEMachine
  BY PatchedType
<1>2. Patched(m).fin \in BOOLEAN /\ Patched(m).deleting \in BOOLEAN
  BY <1>1 DEF BKEMachine
<1>3. ToPatch(m) \in BOOLEAN
  BY DEF ToPatch, TypeOK, BKEMachine
<1>4. \/ UNCHANGED <<machine, cmd>>
      \/ machine' = [machine EXCEPT ![m] = Patched(m)] /\ UNCHANGED cmd
      \/ machine' = [machine EXCEPT ![m] = NoMachine] /\ cmd' = cmd \ OwnedBy(m, cmd)
  BY <1>2, <1>3 DEF PatchMachine
<1> QED BY <1>1, <1>4, NothingType DEF TypeOK

LEMMA PatchType ==
    ASSUME TypeOK, NEW m \in Machines,
           PatchCommands(m) \/ Patch(m) \/ HandlePreDeletionCleanup(m)
    PROVE  TypeOK'
<1>1. run[m] \in Runs
  BY DEF TypeOK
<1>2. CASE PatchCommands(m)
  <2>1. [run[m] EXCEPT !.old = run[m].obj] \in Runs
    BY <1>1 DEF Runs
  <2>2. run' \in [Machines -> Runs]
    BY <1>1, <1>2, <2>1, ReconcileBootstrapType, GotoType DEF PatchCommands
  <2>3. machine' \in [Machines -> BKEMachine] /\ cmd' \subseteq Commands
    BY <1>2, PatchMachineType DEF PatchCommands, TypeOK
  <2>4. faults' \in 0..MaxFaults
    BY <1>2, FaultType DEF PatchCommands, TypeOK
  <2> QED BY <1>2, <2>2, <2>3, <2>4 DEF PatchCommands, TypeOK
<1>3. CASE Patch(m)
  <2>1. To(m, "cleanup") \in Runs
    BY <1>1 DEF To, Runs, RunPoints
  <2>2. run' \in [Machines -> Runs]
    BY <1>3, <2>1, NothingType, GotoType DEF Patch
  <2>3. machine' \in [Machines -> BKEMachine] /\ cmd' \subseteq Commands
    BY <1>3, PatchMachineType DEF Patch, TypeOK
  <2>4. faults' \in 0..MaxFaults
    BY <1>3, FaultType DEF Patch, TypeOK
  <2>5. queue' \subseteq Machines
    BY <1>3 DEF Patch, TypeOK
  <2> QED BY <1>3, <2>2, <2>3, <2>4, <2>5 DEF Patch, TypeOK
<1>4. CASE HandlePreDeletionCleanup(m)
  <2>1. run' \in [Machines -> Runs]
    BY <1>4, NothingType, GotoType DEF HandlePreDeletionCleanup
  <2>2. node' \in [Nodes -> BKENode] /\ bootRecord' \subseteq Nodes
    BY <1>4, CleanupType DEF HandlePreDeletionCleanup
  <2> QED BY <1>4, <2>1, <2>2 DEF HandlePreDeletionCleanup, TypeOK
<1> QED BY <1>2, <1>3, <1>4

LEMMA PickType ==
    ASSUME TypeOK, NEW m \in Machines, FilterAvailableNode(m)
    PROVE  TypeOK'
<1>1. run[m] \in Runs
  BY DEF TypeOK
<1>2. Available(m) \subseteq Nodes
  BY <1>1 DEF Available, Runs
<1>3. \A n \in Nodes : [run[m] EXCEPT !.at = "create", !.pick = n, !.cands = {}] \in Runs
  BY <1>1 DEF Runs, RunPoints
<1>4. run' \in [Machines -> Runs] /\ bootRecord' \subseteq Nodes
  <2>1. CASE Goto(m, End(run[m])) /\ UNCHANGED bootRecord
    <3>1. run' \in [Machines -> Runs]
      BY <1>1, <2>1, EndType, GotoType
    <3> QED BY <2>1, <3>1 DEF TypeOK
  <2>2. ASSUME NEW n \in Available(m), bootRecord' = bootRecord \cup {n},
               Goto(m, [run[m] EXCEPT !.at = "create", !.pick = n, !.cands = {}])
        PROVE  run' \in [Machines -> Runs] /\ bootRecord' \subseteq Nodes
    <3>1. run' \in [Machines -> Runs]
      BY <1>2, <1>3, <2>2, GotoType
    <3> QED BY <1>2, <2>2, <3>1 DEF TypeOK
  <2> QED BY <2>1, <2>2 DEF FilterAvailableNode
<1> QED BY <1>4 DEF FilterAvailableNode, TypeOK

\* filterAvailableNode has picked a node for the command, or reconcileDelete has
\* found one to reset.
Picked(r) == r.at \in {"create", "newReset"} => r.pick \in Nodes

LEMMA HandleRealBootstrapType ==
    ASSUME TypeOK, NEW m \in Machines, Picked(run[m]), HandleRealBootstrap(m)
    PROVE  TypeOK'
<1> DEFINE n == run[m].pick
<1>1. run[m] \in Runs /\ n \in Nodes
  BY DEF TypeOK, Runs, Picked, HandleRealBootstrap, At
<1>2. \A s \in {"BootStrapping", "BootStrapFailed"} :
          SetNodeState(node, n, s) \in [Nodes -> BKENode]
  <2>1. {"BootStrapFailed", "BootStrapping"} \subseteq NodeStates
    BY DEF NodeStates
  <2>2. node \in [Nodes -> BKENode]
    BY DEF TypeOK
  <2> HIDE DEF n
  <2> QED BY <1>1, <2>1, <2>2, SetStateKeeps
<1>3. [run[m] EXCEPT !.obj.label = n, !.obj.node = n] \in Runs
  <2> HIDE DEF n
  <2>1. [run[m] EXCEPT !.obj.label = n] \in Runs
    BY <1>1, RunsType
  <2>2. [[run[m] EXCEPT !.obj.label = n] EXCEPT !.obj.node = n] \in Runs
    BY <1>1, <2>1, RunsType
  <2> QED BY <2>2
<1>4. [run[m] EXCEPT !.err = TRUE] \in Runs
  BY <1>1, RunsType
<1>5. \/ /\ SyncNodes(SetNodeState(node, n, "BootStrapping"))
         /\ \E rest \in AfterUnique("boot", n), c \in NewCommands("boot", n, m) :
                cmd' = rest \cup {c}
         /\ Goto(m, End([run[m] EXCEPT !.obj.label = n, !.obj.node = n]))
         /\ UNCHANGED faults
      \/ /\ Fault
         /\ \E s \in {"BootStrapping", "BootStrapFailed"} :
                node' = SetNodeState(node, n, s)
         /\ cmd' \in {cmd} \cup AfterUnique("boot", n)
         /\ Goto(m, End([run[m] EXCEPT !.err = TRUE]))
         /\ UNCHANGED rec
  BY DEF HandleRealBootstrap
<1> HIDE DEF n
<1>6. run' \in [Machines -> Runs]
  BY <1>3, <1>4, <1>5, EndType, GotoType
<1>7. node' \in [Nodes -> BKENode] /\ rec' \in [Nodes -> Records]
  BY <1>2, <1>5, SyncKeeps DEF TypeOK, Records
<1>8. cmd' \subseteq Commands
  <2>1. cmd \subseteq Commands
    BY DEF TypeOK
  <2> QED BY <1>1, <1>5, <2>1, NewCommandsType
<1>9. faults' \in 0..MaxFaults
  BY <1>5, FaultType DEF TypeOK
<1> QED BY <1>6, <1>7, <1>8, <1>9 DEF HandleRealBootstrap, TypeOK, Records

LEMMA DeletionType ==
    ASSUME TypeOK, NEW m \in Machines, ReconcileDelete(m) \/ WaitReset(m)
    PROVE  TypeOK'
<1>1. run[m] \in Runs /\ run[m].obj \in BKEMachine
  BY DEF TypeOK, Runs
<1>2. CASE ReconcileDelete(m)
  <2> DEFINE n == IF run[m].obj.node # None THEN run[m].obj.node
                  ELSE run[m].obj.label
             failed == [run[m] EXCEPT !.err = TRUE]
  <2>1. n \in Nodes \cup {None}
    BY <1>1 DEF BKEMachine
  <2>2. failed \in Runs
    BY <1>1, RunsType
  <2>3. [To(m, "newReset") EXCEPT !.pick = n] \in Runs
    BY <1>1, <2>1 DEF To, Runs, RunPoints
  <2>4. /\ UNCHANGED machine \/ machine' = [machine EXCEPT ![m].marked = TRUE]
        /\ \/ Goto(m, End(LetGo(failed)))
           \/ Goto(m, [To(m, "newReset") EXCEPT !.pick = n])
           \/ Goto(m, End(failed))
        /\ UNCHANGED faults \/ Fault
    BY <1>2 DEF ReconcileDelete
  <2> HIDE DEF n, failed
  <2>5. End(failed) \in Runs /\ End(LetGo(failed)) \in Runs
    BY <2>2, RunsType, EndType DEF LetGo
  <2>6. run' \in [Machines -> Runs]
    BY <2>3, <2>4, <2>5, GotoType
  <2>7. machine' \in [Machines -> BKEMachine]
    <3>1. machine \in [Machines -> BKEMachine]
      BY DEF TypeOK
    <3>2. [machine EXCEPT ![m].marked = TRUE] \in [Machines -> BKEMachine]
      BY <3>1 DEF BKEMachine
    <3> QED BY <2>4, <3>1, <3>2
  <2>8. faults' \in 0..MaxFaults
    BY <2>4, FaultType DEF TypeOK
  <2> QED BY <1>2, <2>6, <2>7, <2>8 DEF ReconcileDelete, TypeOK
<1>3. CASE WaitReset(m)
  <2>1. End(LetGo([run[m] EXCEPT !.todo = {}])) \in Runs
    <3>1. [run[m] EXCEPT !.todo = {}] \in Runs
      BY <1>1 DEF Runs
    <3> QED BY <3>1, RunsType, EndType DEF LetGo
  <2>2. run' \in [Machines -> Runs]
    BY <1>3, <2>1, GotoType DEF WaitReset
  <2>3. node' \in [Nodes -> BKENode] /\ bootRecord' \subseteq Nodes
    BY <1>3, CleanupType DEF WaitReset
  <2>4. cmd' \subseteq Commands /\ faults' \in 0..MaxFaults
    BY <1>3, FaultType DEF WaitReset, TypeOK
  <2> QED BY <1>3, <2>2, <2>3, <2>4 DEF WaitReset, TypeOK
<1> QED BY <1>2, <1>3

LEMMA ExecuteResetCommandType ==
    ASSUME TypeOK, NEW m \in Machines, Picked(run[m]), ExecuteResetCommand(m)
    PROVE  TypeOK'
<1> DEFINE n == run[m].pick
           nd == SetNodeState(node, n, "Deleting")
<1>1. run[m] \in Runs /\ n \in Nodes
  BY DEF TypeOK, Runs, Picked, ExecuteResetCommand, At
<1>2. nd \in [Nodes -> BKENode]
  <2>1. "Deleting" \in NodeStates
    BY DEF NodeStates
  <2>2. node \in [Nodes -> BKENode]
    BY DEF TypeOK
  <2> HIDE DEF n
  <2> QED BY <1>1, <2>1, <2>2, SetStateKeeps
<1>3. \/ /\ SyncNodes(nd)
         /\ \E rest \in AfterUnique("reset", n), c \in NewCommands("reset", n, m) :
                /\ cmd' = rest \cup {c}
                /\ Goto(m, [To(m, "waitReset") EXCEPT !.todo = {c}])
         /\ UNCHANGED faults
      \/ /\ Fault
         /\ node' = nd
         /\ \E synced \in BOOLEAN :
                Goto(m, End([run[m] EXCEPT !.err = ~synced]))
         /\ UNCHANGED <<cmd, rec>>
  BY DEF ExecuteResetCommand
<1> HIDE DEF n, nd
<1>4. run' \in [Machines -> Runs] /\ cmd' \subseteq Commands
  <2>1. \A c \in Commands : [To(m, "waitReset") EXCEPT !.todo = {c}] \in Runs
    BY <1>1 DEF To, Runs, RunPoints
  <2>2. \A synced \in BOOLEAN : End([run[m] EXCEPT !.err = ~synced]) \in Runs
    <3>1. \A b \in BOOLEAN : End([run[m] EXCEPT !.err = b]) \in Runs
      BY <1>1, RunsType, EndType
    <3>2. \A b \in BOOLEAN : (~b) \in BOOLEAN
      OBVIOUS
    <3> QED BY <3>1, <3>2
  <2>3. CASE /\ \E rest \in AfterUnique("reset", n), c \in NewCommands("reset", n, m) :
                   /\ cmd' = rest \cup {c}
                   /\ Goto(m, [To(m, "waitReset") EXCEPT !.todo = {c}])
    <3>1. PICK rest \in AfterUnique("reset", n), c \in NewCommands("reset", n, m) :
              /\ cmd' = rest \cup {c}
              /\ Goto(m, [To(m, "waitReset") EXCEPT !.todo = {c}])
      BY <2>3
    <3>2. rest \subseteq Commands /\ c \in Commands
      BY <1>1, NewCommandsType
    <3> QED BY <2>1, <3>1, <3>2, GotoType
  <2>4. CASE /\ \E synced \in BOOLEAN : Goto(m, End([run[m] EXCEPT !.err = ~synced]))
             /\ UNCHANGED cmd
    BY <2>2, <2>4, GotoType DEF TypeOK
  <2> QED BY <1>3, <2>3, <2>4
<1>5. node' \in [Nodes -> BKENode] /\ rec' \in [Nodes -> Records]
  BY <1>2, <1>3, SyncKeeps DEF TypeOK, Records
<1>6. faults' \in 0..MaxFaults
  BY <1>3, FaultType DEF TypeOK
<1> QED BY <1>4, <1>5, <1>6 DEF ExecuteResetCommand, TypeOK, Records

-----------------------------------------------------------------------------
(***************************************************************************)
(* The steps of everybody else.                                            *)
(***************************************************************************)
LEMMA NoPhaseType == NoPhase \in Phases
<1>1. 0 \in 0..Cardinality(Nodes)
  BY Sizes
<1> QED BY <1>1 DEF NoPhase, Phases

LEMMA PhaseType ==
    ASSUME TypeOK, PhaseStep
    PROVE  TypeOK'
<1>1. /\ phase \in Phases /\ node \in [Nodes -> BKENode] /\ joined \subseteq Nodes
      /\ machine \in [Machines -> BKEMachine]
      /\ replicas \in 0..Cardinality(Nodes)
  BY DEF TypeOK, Phases
<1>2. CASE WorkerJoin
  <2> DEFINE there == {n \in NeedJoin : NodeToMachine(n) # {}}
             todo == NeedJoin \ there
  <2>1. todo \subseteq Nodes /\ Existing \subseteq Nodes
    BY DEF NeedJoin, Existing
  <2>2. /\ node' = [n \in Nodes |-> IF n \in there
                                    THEN [node[n] EXCEPT !.boot = TRUE]
                                    ELSE node[n]]
        /\ replicas' = ScaleUp(Cardinality(todo))
        /\ phase' = IF todo = {} THEN NoPhase
                    ELSE [NoPhase EXCEPT !.at = "join", !.todo = todo,
                                         !.old = replicas]
    BY <1>2 DEF WorkerJoin
  <2> HIDE DEF there, todo
  <2>3. node' \in [Nodes -> BKENode]
    BY <1>1, <2>2 DEF BKENode
  <2>4. replicas' \in 0..Cardinality(Nodes)
    <3> DEFINE a == replicas + Cardinality(todo)
               b == Cardinality(Existing)
    <3>1. a \in Nat /\ b \in Nat /\ b <= Cardinality(Nodes)
      BY <1>1, <2>1, Sizes
    <3> HIDE DEF a, b
    <3>2. Min({a, b}) \in Nat /\ Min({a, b}) <= b
      BY <3>1, MinOfTwo
    <3>3. replicas' = Min({a, b})
      BY <2>2 DEF ScaleUp, a, b
    <3> QED BY <3>1, <3>2, <3>3, Sizes
  <2>5. phase' \in Phases
    BY <1>1, <2>1, <2>2, NoPhaseType DEF Phases
  <2> QED BY <1>2, <2>3, <2>4, <2>5 DEF WorkerJoin, TypeOK, Phases
<1>3. ASSUME NEW n \in Nodes, CheckSingleNodeStatus(n)
      PROVE  TypeOK'
  <2>1. node' \in [Nodes -> BKENode]
    <3>1. UNCHANGED node \/ node' = [node EXCEPT ![n].skip = TRUE]
      BY <1>3 DEF CheckSingleNodeStatus
    <3>2. node \in [Nodes -> BKENode]
      BY <1>1
    <3>3. [node EXCEPT ![n].skip = TRUE] \in [Nodes -> BKENode]
      BY <3>2 DEF BKENode
    <3> QED BY <3>1, <3>2, <3>3
  <2>2. phase' \in Phases
    <3>1. \/ phase' = [phase EXCEPT !.bad = @ \cup {n}]
          \/ phase' = [phase EXCEPT !.good = @ \cup {n}]
      BY <1>3 DEF CheckSingleNodeStatus
    <3> QED BY <1>1, <3>1 DEF Phases
  <2> QED BY <1>3, <2>1, <2>2 DEF CheckSingleNodeStatus, TypeOK, Phases
<1>4. CASE JoinEnds
  <2> DEFINE bad == phase.todo \ phase.good
  <2>1. node' = [n \in Nodes |->
                    IF ~node[n].exists THEN node[n]
                    ELSE [node[n] EXCEPT
                             !.state = IF n \in phase.good THEN "NotReady" ELSE @,
                             !.skip = @ \/ n \in bad]]
    BY <1>4 DEF JoinEnds
  <2> HIDE DEF bad
  <2>2. node' \in [Nodes -> BKENode]
    <3>1. ASSUME NEW n \in Nodes
          PROVE  [node[n] EXCEPT !.state = IF n \in phase.good THEN "NotReady" ELSE @,
                                 !.skip = @ \/ n \in bad] \in BKENode
      <4> DEFINE s == IF n \in phase.good THEN "NotReady" ELSE node[n].state
                 k == node[n].skip \/ n \in bad
      <4>1. node[n] \in BKENode
        BY <1>1
      <4>2. s \in NodeStates /\ k \in BOOLEAN
        BY <4>1 DEF BKENode, NodeStates
      <4> HIDE DEF s, k
      <4>3. [node[n] EXCEPT !.state = s, !.skip = k] \in BKENode
        BY <4>1, <4>2 DEF BKENode
      <4> QED BY <4>3 DEF s, k
    <3> QED BY <1>1, <2>1, <3>1
  <2>3. replicas' \in 0..Cardinality(Nodes)
    <3>1. replicas' \in {phase.old, replicas}
      BY <1>4 DEF JoinEnds
    <3> QED BY <1>1, <3>1 DEF Phases
  <2> QED BY <1>4, <2>2, <2>3, NoPhaseType DEF JoinEnds, TypeOK, Phases
<1>5. CASE WorkerDelete
  <2> DEFINE lone == {n \in NeedDelete : NodeToMachine(n) = {}}
             ms == UNION {NodeToMachine(n) : n \in NeedDelete}
             del == {m \in ms : Live(m)}
  <2>1. del \subseteq Machines /\ NeedDelete \subseteq Nodes
    BY <1>1 DEF NodeToMachine, NeedDelete
  <2>2. /\ joined' = joined \ lone
        /\ \/ /\ machine' = [m \in Machines |->
                                IF m \in del
                                THEN [machine[m] EXCEPT !.chosen = TRUE]
                                ELSE machine[m]]
              /\ replicas' = Max({replicas - Cardinality(del), 0})
              /\ paused' = (paused /\ del = {})
              /\ phase' = IF ms = {} THEN NoPhase
                          ELSE [NoPhase EXCEPT !.at = "delete",
                                               !.todo = NeedDelete \ lone]
              /\ UNCHANGED faults
           \/ /\ del # {}
              /\ Fault
              /\ paused' = TRUE
              /\ UNCHANGED <<machine, replicas, phase>>
    BY <1>5 DEF WorkerDelete
  <2> HIDE DEF lone, ms, del
  <2>3. machine' \in [Machines -> BKEMachine]
    <3>1. ASSUME NEW m \in Machines
          PROVE  [machine[m] EXCEPT !.chosen = TRUE] \in BKEMachine
      <4>1. machine[m] \in BKEMachine
        BY <1>1
      <4> QED BY <4>1 DEF BKEMachine
    <3> QED BY <1>1, <2>2, <3>1
  <2>4. replicas' \in 0..Cardinality(Nodes)
    <3> DEFINE a == replicas - Cardinality(del)
    <3>1. a \in Int /\ a <= replicas /\ replicas \in Nat
      BY <1>1, <2>1, Sizes
    <3> HIDE DEF a
    <3>2. Max({a, 0}) \in 0..replicas
      BY <3>1, MaxOfTwo
    <3>3. replicas' \in {Max({a, 0}), replicas}
      BY <2>2 DEF a
    <3> QED BY <1>1, <3>2, <3>3, Sizes
  <2>5. phase' \in Phases
    <3>1. \A T \in SUBSET Nodes : [NoPhase EXCEPT !.at = "delete", !.todo = T] \in Phases
      BY NoPhaseType DEF Phases
    <3>2. NeedDelete \ lone \in SUBSET Nodes
      BY <2>1
    <3> QED BY <1>1, <2>2, <3>1, <3>2, NoPhaseType
  <2>6. faults' \in 0..MaxFaults
    BY <2>2, FaultType DEF TypeOK
  <2>7. paused' \in BOOLEAN
    <3>1. (paused /\ del = {}) \in BOOLEAN
      OBVIOUS
    <3> QED BY <2>2, <3>1
  <2> QED BY <1>1, <1>5, <2>2, <2>3, <2>4, <2>5, <2>6, <2>7
          DEF WorkerDelete, TypeOK, Phases
<1>6. CASE DeleteEnds
  BY <1>6, NoPhaseType DEF DeleteEnds, TypeOK, Phases
<1> QED BY <1>2, <1>3, <1>4, <1>5, <1>6 DEF PhaseStep

LEMMA ApiType ==
    ASSUME TypeOK, NEW m \in Machines,
           CreateMachine(m) \/ DeleteMachine(m) \/ SetNodeRef(m) \/ Informer(m)
    PROVE  TypeOK'
<1>1. machine \in [Machines -> BKEMachine] /\ machine[m] \in BKEMachine
  BY DEF TypeOK
<1>2. /\ [NoMachine EXCEPT !.exists = TRUE] \in BKEMachine
      /\ [machine[m] EXCEPT !.deleting = TRUE] \in BKEMachine
      /\ [machine[m] EXCEPT !.ref = TRUE] \in BKEMachine
  <2>1. machine[m] \in BKEMachine
    BY <1>1
  <2> QED BY <2>1, NothingType DEF BKEMachine
<1>3. CASE CreateMachine(m)
  <2>1. machine' \in [Machines -> BKEMachine]
    BY <1>1, <1>2, <1>3 DEF CreateMachine
  <2> QED BY <1>3, <2>1 DEF CreateMachine, TypeOK
<1>4. CASE DeleteMachine(m)
  <2>1. machine' \in [Machines -> BKEMachine]
    BY <1>1, <1>2, <1>4, NothingType DEF DeleteMachine
  <2> QED BY <1>4, <2>1 DEF DeleteMachine, TypeOK
<1>5. CASE SetNodeRef(m)
  <2>1. machine' \in [Machines -> BKEMachine]
    BY <1>1, <1>2, <1>5 DEF SetNodeRef
  <2> QED BY <1>5, <2>1 DEF SetNodeRef, TypeOK
<1>6. CASE Informer(m)
  BY <1>1, <1>6 DEF Informer, TypeOK
<1> QED BY <1>3, <1>4, <1>5, <1>6

LEMMA AgentType ==
    ASSUME TypeOK, NEW c \in cmd, AgentBootstraps(c) \/ AgentResets(c)
    PROVE  TypeOK'
<1>1. MaxFails \in Nat
  BY BootAssumption
<1>2. c \in Commands /\ cmd \subseteq Commands /\ c.node \in Nodes
  BY DEF TypeOK, Commands
<1>3. \A s \in {"ok", "fail"} : Changed(c, [c EXCEPT !.result = s]) \subseteq Commands
  <2>1. \A s \in {"ok", "fail"} : [c EXCEPT !.result = s] \in Commands
    BY <1>2 DEF Commands
  <2> QED BY <1>2, <2>1 DEF Changed
<1>4. CASE AgentBootstraps(c)
  <2>1. cmd' \subseteq Commands /\ joined' \subseteq Nodes
    BY <1>2, <1>3, <1>4 DEF AgentBootstraps, TypeOK
  <2>2. fails' \in 0..MaxFails
    BY <1>1, <1>4 DEF AgentBootstraps, TypeOK
  <2> QED BY <1>4, <2>1, <2>2 DEF AgentBootstraps, TypeOK
<1>5. CASE AgentResets(c)
  <2>1. cmd' \subseteq Commands /\ joined' \subseteq Nodes
    BY <1>2, <1>3, <1>5 DEF AgentResets, TypeOK
  <2>2. fails' \in 0..MaxFails
    BY <1>1, <1>5 DEF AgentResets, TypeOK
  <2> QED BY <1>5, <2>1, <2>2 DEF AgentResets, TypeOK
<1> QED BY <1>4, <1>5

LEMMA UserType ==
    ASSUME TypeOK, NEW n \in Nodes, UserRemoves(n) \/ UserAdds(n)
    PROVE  TypeOK'
<1>1. MaxEdits \in Nat
  BY BootAssumption
<1>2. edits' \in 0..MaxEdits
  BY <1>1 DEF UserRemoves, UserAdds, TypeOK
<1>3. node' \in [Nodes -> BKENode]
  BY NewNodeType DEF UserRemoves, UserAdds, TypeOK
<1>4. CASE UserRemoves(n)
  BY <1>2, <1>3, <1>4 DEF UserRemoves, TypeOK
<1>5. CASE UserAdds(n)
  BY <1>2, <1>3, <1>5 DEF UserAdds, TypeOK
<1> QED BY <1>4, <1>5

LEMMA CommandInformerType ==
    ASSUME TypeOK, CommandInformer
    PROVE  TypeOK'
<1>1. \A c \in cmd : c.owner \in Machines
  BY DEF TypeOK, Commands
<1>2. seenCmd' \subseteq Commands /\ queue' \subseteq Machines
  BY <1>1 DEF CommandInformer, TypeOK
<1> QED BY <1>2 DEF CommandInformer, TypeOK

LEMMA RestartType ==
    ASSUME TypeOK, Resync \/ Crash
    PROVE  TypeOK'
<1>1. CASE Resync
  BY <1>1 DEF Resync, TypeOK
<1>2. CASE Crash
  <2>1. /\ rec' \in [Nodes -> Records] /\ run' \in [Machines -> Runs]
        /\ seen' \in [Machines -> BKEMachine] /\ queue' \subseteq Machines
        /\ seenCmd' \subseteq Commands
        /\ phase' \in Phases
    <3>1. machine \in [Machines -> BKEMachine] /\ cmd \subseteq Commands
      BY DEF TypeOK
    <3>2. /\ rec' = [n \in Nodes |-> EmptyRecord] /\ run' = [o \in Machines |-> Idle]
          /\ seen' = machine /\ seenCmd' = cmd /\ phase' = NoPhase
          /\ queue' = {o \in Machines : machine[o].exists}
      BY <1>2 DEF Crash
    <3>3. rec' \in [Nodes -> Records] /\ run' \in [Machines -> Runs]
      BY <3>2, NothingType
    <3>4. queue' \subseteq Machines
      BY <3>2
    <3> QED BY <3>1, <3>2, <3>3, <3>4, NoPhaseType
  <2>2. faults' \in 0..MaxFaults
    BY <1>2, FaultType DEF Crash
  <2> QED BY <1>2, <2>1, <2>2 DEF Crash, TypeOK, Records, Phases
<1> QED BY <1>1, <1>2

-----------------------------------------------------------------------------
(***************************************************************************)
(* The node of a command.                                                  *)
(***************************************************************************)
LEMMA EndAt ==
    ASSUME NEW r \in Runs PROVE End(r).at \in {"idle", "patch"}
BY DEF End, Idle, Runs

LEMMA ReconcileBootstrapAt ==
    ASSUME NEW r \in Runs
    PROVE  ReconcileBootstrap(r).at \in {"idle", "patch", "pick"}
<1>1. [r EXCEPT !.at = "pick", !.host = None, !.cands = ReadyNodes].at = "pick"
  BY DEF Runs
<1> QED BY <1>1, EndAt DEF ReconcileBootstrap

LEMMA ReconcileCommandAt ==
    ASSUME NEW r \in Runs, NEW m
    PROVE  ReconcileCommand(m, r).at \in {"idle", "patch", "pick", "commands"}
<1>1. [r EXCEPT !.at = "commands", !.host = r.obj.label, !.todo = Associated(m)].at
          = "commands"
  BY DEF Runs
<1> QED BY <1>1, ReconcileBootstrapAt DEF ReconcileCommand

LEMMA ProcessedAt ==
    ASSUME NEW r \in Runs, NEW x, r.at = "commands"
    PROVE  Processed(x, r).at \in {"idle", "patch", "pick", "commands", "patchCommands"}
<1> DEFINE s == [r EXCEPT !.todo = @ \ {x}]
<1>1. s \in Runs /\ s.at = "commands"
  <2>1. r.todo \ {x} \in SUBSET Commands
    BY DEF Runs
  <2> QED BY <2>1 DEF Runs
<1> HIDE DEF s
<1>2. [s EXCEPT !.at = "patchCommands"].at = "patchCommands"
  BY <1>1 DEF Runs
<1>3. Processed(x, r) = IF s.todo # {} THEN s
                        ELSE IF s.obj # s.old THEN [s EXCEPT !.at = "patchCommands"]
                        ELSE ReconcileBootstrap(s)
  BY DEF Processed, s
<1> QED BY <1>1, <1>2, <1>3, ReconcileBootstrapAt

\* Where a step of a reconcile leads to.
LEMMA ReconcilePicked ==
    ASSUME TypeOK, NEW m \in Machines, ReconcileStep(m)
    PROVE  \/ UNCHANGED run
           \/ \E r : Picked(r) /\ Goto(m, r)
<1>1. run[m] \in Runs
  BY DEF TypeOK
<1>2. CASE Reconcile(m)
  <2> DEFINE old == [seen[m] EXCEPT !.fin = TRUE]
             r == [Idle EXCEPT !.old = old, !.obj = old]
  <2>1. r \in Runs
    <3>1. seen[m] \in BKEMachine
      BY DEF TypeOK
    <3>2. old \in BKEMachine
      BY <3>1 DEF BKEMachine
    <3> QED BY <3>2, NothingType DEF Runs
  <2>2. \/ UNCHANGED run
        \/ Goto(m, [r EXCEPT !.at = "delete"])
        \/ Goto(m, Idle)
        \/ Goto(m, ReconcileCommand(m, r))
    BY <1>2 DEF Reconcile
  <2> HIDE DEF r
  <2>3. [r EXCEPT !.at = "delete"].at = "delete" /\ Idle.at = "idle"
    BY <2>1 DEF Runs, Idle
  <2> QED BY <2>1, <2>2, <2>3, ReconcileCommandAt DEF Picked
<1>3. ASSUME NEW x,
             \/ ProcessBootstrapCommand(m, x)
             \/ ProcessBootstrapFailure(m, x)
             \/ ProcessBootstrapSuccess(m, x)
             \/ HandleBootstrapSuccessFailure(m, x)
             \/ ProcessResetCommand(m, x)
      PROVE  \E r : Picked(r) /\ Goto(m, r)
  <2>1. \E r \in Runs : r.at = "commands" /\ Goto(m, Processed(x, r))
    <3>1. run[m].at = "commands"
      BY <1>3 DEF ProcessBootstrapCommand, ProcessBootstrapFailure,
         ProcessBootstrapSuccess, HandleBootstrapSuccessFailure, ProcessResetCommand,
         Processing, At
    <3>2. CASE ProcessBootstrapCommand(m, x)
      BY <1>1, <3>1, <3>2 DEF ProcessBootstrapCommand
    <3>3. ASSUME NEW r \in Runs, r.at = "commands", NEW nd,
                 MarkCommandReconciled(m, x, nd, r)
          PROVE  \E s \in Runs : s.at = "commands" /\ Goto(m, Processed(x, s))
      <4>1. PICK marked \in BOOLEAN, synced \in BOOLEAN :
                Goto(m, Processed(x, [r EXCEPT !.err = @ \/ Named(x, cmd) = {}
                                                         \/ ~marked \/ ~synced]))
        BY <3>3 DEF MarkCommandReconciled
      <4> DEFINE b == r.err \/ Named(x, cmd) = {} \/ ~marked \/ ~synced
      <4>2. b \in BOOLEAN
        BY DEF Runs
      <4>3. Goto(m, Processed(x, [r EXCEPT !.err = b]))
        BY <4>1
      <4> HIDE DEF b
      <4>4. [r EXCEPT !.err = b] \in Runs /\ [r EXCEPT !.err = b].at = "commands"
        BY <3>3, <4>2 DEF Runs
      <4> QED BY <4>3, <4>4
    <3>4. CASE ProcessBootstrapFailure(m, x)
      <4> DEFINE r == [run[m] EXCEPT !.obj.label = None, !.again = FALSE]
      <4>1. r \in Runs /\ r.at = "commands"
        <5>1. [run[m] EXCEPT !.obj.label = None] \in Runs
          BY <1>1, RunsType
        <5>2. [[run[m] EXCEPT !.obj.label = None] EXCEPT !.again = FALSE] \in Runs
          BY <5>1, RunsType
        <5> QED BY <1>1, <3>1, <5>2 DEF Runs
      <4>2. MarkCommandReconciled(m, x,
                SetNodeState(node, run[m].host, "BootStrapFailed"), r)
        BY <3>4 DEF ProcessBootstrapFailure
      <4> HIDE DEF r
      <4> QED BY <3>3, <4>1, <4>2
    <3>5. CASE ProcessBootstrapSuccess(m, x)
      <4> DEFINE r == [run[m] EXCEPT !.obj.booted = TRUE]
      <4>1. r \in Runs /\ r.at = "commands"
        <5>1. r \in Runs
          BY <1>1, RunsType
        <5> QED BY <1>1, <3>1, <5>1 DEF Runs
      <4>2. \E nd : MarkCommandReconciled(m, x, nd, r)
        BY <3>5 DEF ProcessBootstrapSuccess
      <4> HIDE DEF r
      <4> QED BY <3>3, <4>1, <4>2
    <3>6. CASE HandleBootstrapSuccessFailure(m, x) \/ ProcessResetCommand(m, x)
      <4> DEFINE r == [run[m] EXCEPT !.again = TRUE]
                 s == [r EXCEPT !.obj.fin = FALSE]
      <4>1. r \in Runs /\ r.at = "commands"
        <5>1. r \in Runs
          BY <1>1, RunsType
        <5> QED BY <1>1, <3>1, <5>1 DEF Runs
      <4>2. \/ Goto(m, Processed(x, r))
            \/ Goto(m, Processed(x, s))
        BY <3>6 DEF HandleBootstrapSuccessFailure, ProcessResetCommand
      <4> HIDE DEF r
      <4>3. s \in Runs /\ s.at = "commands"
        <5>1. s \in Runs
          BY <4>1, RunsType
        <5> QED BY <4>1, <5>1 DEF Runs
      <4> HIDE DEF s
      <4> QED BY <4>1, <4>2, <4>3
    <3> QED BY <1>3, <3>2, <3>4, <3>5, <3>6
  <2> QED BY <2>1, ProcessedAt DEF Picked
<1>4. CASE PatchCommands(m)
  <2>1. [run[m] EXCEPT !.old = run[m].obj] \in Runs
    BY <1>1 DEF Runs
  <2>2. \/ Goto(m, ReconcileBootstrap([run[m] EXCEPT !.old = run[m].obj]))
        \/ Goto(m, ReconcileBootstrap(run[m]))
    BY <1>4 DEF PatchCommands
  <2> QED BY <1>1, <2>1, <2>2, ReconcileBootstrapAt DEF Picked
<1>5. CASE FilterAvailableNode(m)
  <2>1. Available(m) \subseteq Nodes
    BY <1>1 DEF Available, Runs
  <2>2. \A n \in Nodes :
            Picked([run[m] EXCEPT !.at = "create", !.pick = n, !.cands = {}])
    BY <1>1 DEF Picked, Runs
  <2> QED BY <1>1, <1>5, <2>1, <2>2, EndAt DEF FilterAvailableNode, Picked
<1>6. CASE HandleRealBootstrap(m)
  <2>1. \E r \in Runs : Goto(m, End(r))
    <3> DEFINE n == run[m].pick
    <3>1. [run[m] EXCEPT !.err = TRUE] \in Runs
      BY <1>1, RunsType
    <3>2. [run[m] EXCEPT !.obj.label = n, !.obj.node = n] \in Runs
      <4>1. n \in Nodes \cup {None}
        BY <1>1 DEF Runs
      <4> HIDE DEF n
      <4>2. [run[m] EXCEPT !.obj.label = n] \in Runs
        BY <1>1, <4>1, RunsType
      <4>3. [[run[m] EXCEPT !.obj.label = n] EXCEPT !.obj.node = n] \in Runs
        BY <4>1, <4>2, RunsType
      <4> QED BY <4>3
    <3> QED BY <1>6, <3>1, <3>2 DEF HandleRealBootstrap
  <2> QED BY <2>1, EndAt DEF Picked
<1>7. CASE ReconcileDelete(m)
  <2> DEFINE n == IF run[m].obj.node # None THEN run[m].obj.node
                  ELSE run[m].obj.label
             failed == [run[m] EXCEPT !.err = TRUE]
  <2>1. n \in Nodes \cup {None}
    BY <1>1 DEF Runs, BKEMachine
  <2>2. failed \in Runs
    BY <1>1, RunsType
  <2>3. \/ Goto(m, End(LetGo(failed)))
        \/ n # None /\ Goto(m, [To(m, "newReset") EXCEPT !.pick = n])
        \/ Goto(m, End(failed))
    BY <1>7 DEF ReconcileDelete
  <2> HIDE DEF n, failed
  <2>4. LetGo(failed) \in Runs
    BY <2>2, RunsType DEF LetGo
  <2>5. n # None => Picked([To(m, "newReset") EXCEPT !.pick = n])
    BY <1>1, <2>1 DEF Picked, To, Runs
  <2> QED BY <2>2, <2>3, <2>4, <2>5, EndAt DEF Picked
<1>8. CASE ExecuteResetCommand(m)
  <2>1. \/ \E C : Goto(m, [To(m, "waitReset") EXCEPT !.todo = C])
        \/ \E b \in BOOLEAN : Goto(m, End([run[m] EXCEPT !.err = b]))
    <3>1. CASE \E c : Goto(m, [To(m, "waitReset") EXCEPT !.todo = {c}])
      BY <3>1
    <3>2. CASE \E synced \in BOOLEAN : Goto(m, End([run[m] EXCEPT !.err = ~synced]))
      <4>1. \A b \in BOOLEAN : (~b) \in BOOLEAN
        OBVIOUS
      <4> QED BY <3>2, <4>1
    <3> QED BY <1>8, <3>1, <3>2 DEF ExecuteResetCommand
  <2>2. \A C : Picked([To(m, "waitReset") EXCEPT !.todo = C])
    BY <1>1 DEF Picked, To, Runs
  <2>3. \A b \in BOOLEAN : Picked(End([run[m] EXCEPT !.err = b]))
    BY <1>1, RunsType, EndAt DEF Picked
  <2> QED BY <2>1, <2>2, <2>3
<1>9. CASE WaitReset(m)
  <2>1. LetGo([run[m] EXCEPT !.todo = {}]) \in Runs
    <3>1. [run[m] EXCEPT !.todo = {}] \in Runs
      BY <1>1 DEF Runs
    <3> QED BY <3>1, RunsType DEF LetGo
  <2> QED BY <1>9, <2>1, EndAt DEF WaitReset, Picked
<1>10. CASE Patch(m) \/ HandlePreDeletionCleanup(m)
  <2>1. Picked(To(m, "cleanup")) /\ Picked(Idle)
    BY <1>1 DEF Picked, To, Idle, Runs
  <2> QED BY <1>10, <2>1 DEF Patch, HandlePreDeletionCleanup
<1> QED BY <1>2, <1>3, <1>4, <1>5, <1>6, <1>7, <1>8, <1>9, <1>10 DEF ReconcileStep

AllPicked == \A m \in Machines : Picked(run[m])

LEMMA PickedStep ==
    ASSUME TypeOK, AllPicked, [Next]_vars
    PROVE  AllPicked'
<1>1. UNCHANGED run => AllPicked'
  BY DEF AllPicked, Picked
<1>2. ASSUME NEW m \in Machines, ReconcileStep(m)
      PROVE  AllPicked'
  <2>1. ASSUME NEW r, Picked(r), Goto(m, r)
        PROVE  AllPicked'
    <3>1. \A o \in Machines : run'[o] \in {run[o], r}
      BY <2>1 DEF Goto, TypeOK
    <3> QED BY <2>1, <3>1 DEF AllPicked, Picked
  <2> QED BY <1>1, <1>2, <2>1, ReconcilePicked
<1>3. CASE Crash
  <2>1. \A o \in Machines : run'[o] = Idle
    BY <1>3 DEF Crash
  <2> QED BY <2>1 DEF AllPicked, Picked, Idle
<1>4. CASE UNCHANGED vars
  BY <1>1, <1>4 DEF vars
<1>5. ASSUME Next, ~Crash, \A m \in Machines : ~ReconcileStep(m)
      PROVE  UNCHANGED run
  BY <1>5 DEF Next, PhaseStep, MachineSet, Agent, SetNodeRef, Informer,
     CommandInformer, AgentBootstraps, AgentResets, UserRemoves, UserAdds, WorkerJoin,
     CheckSingleNodeStatus, JoinEnds, WorkerDelete, DeleteEnds, CreateMachine,
     DeleteMachine, Resync
<1> QED BY <1>1, <1>2, <1>3, <1>4, <1>5

-----------------------------------------------------------------------------
LEMMA InitType == Init => TypeOK
<1> SUFFICES ASSUME Init PROVE TypeOK
  OBVIOUS
<1>1. node \in [Nodes -> BKENode]
  <2>1. PICK S \in SUBSET Nodes : node = [n \in Nodes |-> [NewNode EXCEPT !.exists = n \in S]]
    BY DEF Init
  <2>2. \A n \in Nodes : [NewNode EXCEPT !.exists = n \in S] \in BKENode
    <3>1. \A b \in BOOLEAN : [NewNode EXCEPT !.exists = b] \in BKENode
      BY NewNodeType DEF BKENode
    <3>2. \A n \in Nodes : (n \in S) \in BOOLEAN
      OBVIOUS
    <3> QED BY <3>1, <3>2
  <2> QED BY <2>1, <2>2
<1>2. /\ machine \in [Machines -> BKEMachine] /\ seen \in [Machines -> BKEMachine]
      /\ cmd \subseteq Commands /\ seenCmd \subseteq Commands
      /\ rec \in [Nodes -> Records] /\ run \in [Machines -> Runs]
      /\ phase \in Phases
  BY NothingType, NoPhaseType DEF Init
<1>3. 0 \in 0..Cardinality(Nodes)
  BY Sizes
<1>4. 0 \in 0..MaxFails /\ 0 \in 0..MaxEdits /\ 0 \in 0..MaxFaults
  BY BootAssumption
<1> QED BY <1>1, <1>2, <1>3, <1>4 DEF Init, TypeOK, Records, Phases

LEMMA TypeStep == TypeOK /\ AllPicked /\ [Next]_vars => TypeOK'
<1> SUFFICES ASSUME TypeOK, AllPicked, [Next]_vars PROVE TypeOK'
  OBVIOUS
<1>1. CASE Next
  <2>1. ASSUME NEW m \in Machines, ReconcileStep(m) PROVE TypeOK'
    <3>1. Picked(run[m])
      BY DEF AllPicked
    <3> QED BY <2>1, <3>1, ReconcileType, CommandsType, PatchType, PickType,
               HandleRealBootstrapType, DeletionType, ExecuteResetCommandType
            DEF ReconcileStep
  <2>2. ASSUME NEW n \in Nodes, Agent(n) \/ UserRemoves(n) \/ UserAdds(n)
        PROVE  TypeOK'
    BY <2>2, AgentType, UserType DEF Agent
  <2> QED BY <1>1, <2>1, <2>2, PhaseType, ApiType, CommandInformerType, RestartType
          DEF Next, MachineSet
<1>2. CASE UNCHANGED vars
  BY <1>2 DEF vars, TypeOK
<1> QED BY <1>1, <1>2

(***************************************************************************)
(* The variables keep their types.  What scaleMachineDeployment writes     *)
(* stays between zero and the number of nodes, over every retry, time-out  *)
(* and restart, and no Command is created for a node that was not picked.  *)
(***************************************************************************)
THEOREM TypeCorrect == Spec => []TypeOK
<1>1. Init => AllPicked
  BY DEF Init, AllPicked, Picked, Idle
<1>2. TypeOK /\ AllPicked /\ [Next]_vars => AllPicked'
  BY PickedStep
<1> QED BY <1>1, <1>2, InitType, TypeStep, PTL DEF Spec
=============================================================================
