----------------------- MODULE ClusterReconcileProofs -----------------------
(***************************************************************************)
(* Proofs about the reconcile loop, for any list of work phases, any retry *)
(* budget and any number of edits, failures, crashes and refused updates.  *)
(* Shape says which points of the reconcile go with which memory;          *)
(* BudgetInv relates each copy of the status to the failures behind it;    *)
(* PauseInv says which copies have seen that the cluster is paused or      *)
(* deleted; FinInv follows the finalizer through the copies.               *)
(***************************************************************************)
EXTENDS ClusterReconcile, WellFoundedInduction, TLAPS

\* The points between the PreHook of a phase and the report of its PostHook.
InPhase == {"preSync", "exec", "pauseSync", "suspend", "dryRunSync", "dryRun",
            "unpauseSync", "clear", "deletingSync", "wipe", "eraseSync",
            "readySync", "recheck", "post", "postSync"}

\* Only a PostHook marks a status to be recorded, in the object of the context.
Shape ==
    /\ run.merged => run.at \in SyncPoints
    /\ run.at \in InPhase \cup {"skipSync"} => run.plan # {}
    /\ run.patch = "retry" => run.at = "initSync" /\ rec = EmptyRecord
    /\ run.at \in {"idle", "initSync", "plan"} => ~run.split /\ ~run.watch
    /\ run.mem.record \/ run.at \in InPhase => run.split
    /\ run.at \in InPhase \ {"postSync"} => ~run.mem.record
    /\ ~obj.record /\ ~run.entry.record

\* A copy that shows a failed status has used up the budget of it.
Exhausted(c) == IsFailed(c.status) => fails[c.status] >= Limit

\* The record counts no more failures than there were, one that a PostHook
\* has just marked included.
BudgetInv ==
    /\ Exhausted(obj) /\ Exhausted(run.entry)
    /\ ~run.mem.record => Exhausted(run.mem)
    /\ run.patch = "retry" /\ run.merged => run.mem.status = "Checking"
    /\ rec.failed \in Failures => rec.count <= fails[rec.failed]
    /\ run.mem.record /\ IsFailed(run.mem.status) =>
          fails[run.mem.status] > (IF rec.failed = run.mem.status
                                   THEN rec.count ELSE 0)

\* The copy knows that the cluster is deleted, or at least paused.
Sees(c) ==
    /\ obj.deleting => c.deleting
    /\ obj.pause => c.pause \/ c.deleting

\* Once a phase has been started, the reconcile has seen what users asked for.
PauseInv ==
    /\ run.mem.deleting \/ run.new.deleting \/ run.entry.deleting =>
          obj.deleting
    /\ run.patch = "unpause" => run.at = "unpauseSync" /\ run.mem.deleting
    /\ run.at \in {"preSync", "exec"} /\ Phase = "EnsureDeleteOrReset" =>
          run.mem.deleting
    /\ starts >= 1 =>
          /\ run.at \notin {"idle", "noteSync", "finish"} => Sees(run.mem)
          /\ run.at \in {"decide", "skipSync"} => Sees(run.new)
          /\ run.merged => \/ run.mem.pause = obj.pause
                           \/ ~run.mem.pause /\ obj.deleting
    /\ PauseStopsWork

\* The cluster has no finalizer yet.
Adding == obj.exists /\ ~obj.fin /\ ~wiped

\* A flow past the phase that adds the finalizer, which was refused, has one
\* fault to its credit for the one failure it can report.
InCredit ==
    /\ run.at \in InPhase \cup {"decide", "skipSync"}
    /\ "EnsureFinalizer" \notin run.plan
    /\ run.at = "postSync" => ~run.err

\* Every copy that may be written has the finalizer if the object has.
FinInv ==
    /\ obj.exists /\ obj.deleting => obj.fin
    /\ run.at # "idle" /\ obj.fin => run.mem.fin \/ wiped
    /\ IsFailed(run.entry.status) => run.entry.fin \/ wiped
    /\ run.at = "initSync" /\ IsFailed(run.mem.status) =>
          run.mem.fin \/ wiped
    /\ run.at \in {"initSync", "plan"} /\ obj.exists => run.mem.fin = obj.fin
    /\ run.at = "decide" /\ "EnsureFinalizer" \in run.plan => ~run.new.fin
    /\ run.at \in {"initSync", "plan", "decide", "skipSync"} => ~run.err
    /\ run.at = "skipSync" => "EnsureFinalizer" \notin run.plan
    /\ run.at \in {"unpauseSync", "clear"} => Phase = "EnsureDeleteOrReset"
    /\ run.at \in InPhase /\ "EnsureFinalizer" \in run.plan =>
          /\ run.at \in {"preSync", "exec", "post", "postSync"} /\ ~run.err
          /\ run.at \in {"post", "postSync"} => run.mem.fin
    /\ run.at \in InPhase \ {"postSync"} /\ Phase = "EnsureCluster" =>
          ~IsFailed(run.mem.status)
    /\ Adding => \A s \in Failures : fails[s] <= faults
    /\ Adding /\ InCredit => \A s \in Failures : fails[s] < faults

-----------------------------------------------------------------------------
(***************************************************************************)
(* The operators.                                                          *)
(***************************************************************************)
LEMMA FailuresAre ==
    /\ Failures = {"InitializationFailed", "ScaleFailed", "DeployAddonFailed",
                   "UpgradeFailed", "PauseFailed", "DeleteFailed",
                   "DryRunFailed"}
    /\ {Blank, "Initializing", "ScalingMasterNodesUp", "ScalingWorkerNodesUp",
        "ScalingMasterNodesDown", "ScalingWorkerNodesDown", "DeployingAddon",
        "Upgrading", "Paused", "Deleting", "DryRun", "Unknown", "Checking",
        "Ready", "Unhealthy"} \subseteq Statuses \ Failures
    /\ Failures \subseteq Statuses
<1>1. DOMAIN ClassStatus = {"init", "masterUp", "workerUp", "masterDown",
          "workerDown", "addon", "upgrade", "paused", "delete", "dryRun",
          "selfUpgrade", "unknown"}
  BY DEF ClassStatus
<1>2. {ClassStatus[k][2] : k \in DOMAIN ClassStatus} =
         {"InitializationFailed", "ScaleFailed", "DeployAddonFailed",
          "UpgradeFailed", "PauseFailed", "DeleteFailed", "DryRunFailed",
          "Unknown"}
  BY <1>1 DEF ClassStatus
<1>3. {ClassStatus[k][1] : k \in DOMAIN ClassStatus} =
         {"Initializing", "ScalingMasterNodesUp", "ScalingWorkerNodesUp",
          "ScalingMasterNodesDown", "ScalingWorkerNodesDown", "DeployingAddon",
          "Upgrading", "Paused", "Deleting", "DryRun", "Unknown"}
  BY <1>1 DEF ClassStatus
<1> QED BY <1>2, <1>3 DEF Failures, Statuses, Blank

\* The phases of the flow other than EnsureCluster have a class with statuses.
LEMMA PhaseStatus ==
    ASSUME NEW p \in FullPhases, p # "EnsureCluster"
    PROVE  /\ ClassStatus[PhaseClass[p]][1] \in Statuses \ Failures
           /\ ClassStatus[PhaseClass[p]][2] \in Failures \cup {"Unknown"}
<1>1. p \in DOMAIN PhaseClass
  <2>1. p \in Work => p \in DOMAIN PhaseClass
    BY WorkAssumption DEF Work, Range
  <2> QED BY <2>1 DEF FullPhases, PhaseClass
<1>2. PhaseClass[p] # "cluster"
  BY WorkAssumption DEF FullPhases, PhaseClass
<1>3. PhaseClass[p] \in DOMAIN ClassStatus
  BY <1>1, <1>2 DEF PhaseClass, ClassStatus
<1>4. /\ ClassStatus[PhaseClass[p]][1] \in {ClassStatus[k][1] : k \in DOMAIN ClassStatus}
      /\ ClassStatus[PhaseClass[p]][2] \in {ClassStatus[k][2] : k \in DOMAIN ClassStatus}
  BY <1>3
<1>5. \A k \in DOMAIN ClassStatus : ClassStatus[k][1] \notin Failures
  BY FailuresAre DEF ClassStatus
<1> QED BY <1>3, <1>4, <1>5 DEF Failures, Statuses

\* Work phases are not among the special ones.
LEMMA WorkIsOrdinary ==
    Work \cap {"EnsureFinalizer", "EnsurePaused", "EnsureDeleteOrReset",
               "EnsureDryRun", "EnsureCluster"} = {}
BY WorkAssumption DEF PhaseClass

LEMMA LeastNumber ==
    ASSUME NEW T \in SUBSET Nat, T # {}
    PROVE  \E i \in T : \A j \in T : i <= j
<1> DEFINE R == {ss \in Nat \X Nat : ss[1] < ss[2]}
<1>1. IsWellFoundedOn(R, Nat)
  BY NatLessThanWellFounded, Zenon DEF OpToRel
<1>2. \A i, j \in Nat : <<j, i>> \in R <=> j < i
  OBVIOUS
<1> HIDE DEF R
<1>3. PICK i \in T : \A j \in T : ~(<<j, i>> \in R)
  BY <1>1, WFMin
<1>4. ASSUME NEW j \in T PROVE i <= j
  <2>1. i \in Nat /\ j \in Nat /\ ~(<<j, i>> \in R)
    BY <1>3
  <2>2. ~(j < i)
    BY <1>2, <2>1
  <2> QED BY <2>1, <2>2
<1> QED BY <1>4

LEMMA PlaceIs ==
    /\ \A p \in FullPhases : Place(p) \in Nat
    /\ \A p \in FullPhases : Place(p) <= 1 <=> p = "EnsureFinalizer"
    /\ Place("EnsureFinalizer") = 1
<1>1. ASSUME NEW p \in Work PROVE Place(p) \in Nat /\ Place(p) > 4
  <2> DEFINE i == CHOOSE i \in DOMAIN WorkPhases : WorkPhases[i] = p
  <2>1. Place(p) = 4 + i
    BY <1>1, WorkIsOrdinary DEF Place
  <2>2. WorkPhases \in Seq(DOMAIN PhaseClass)
    BY WorkAssumption
  <2>3. \E j \in DOMAIN WorkPhases : WorkPhases[j] = p
    BY <1>1 DEF Work, Range
  <2>4. i \in DOMAIN WorkPhases
    BY <2>3
  <2> HIDE DEF i
  <2>5. i \in Nat /\ i >= 1
    BY <2>2, <2>4
  <2> QED BY <2>1, <2>5
<1>2. /\ Place("EnsureFinalizer") = 1 /\ Place("EnsurePaused") = 2
      /\ Place("EnsureDeleteOrReset") = 3 /\ Place("EnsureDryRun") = 4
  BY WorkIsOrdinary DEF Place
<1>3. Len(WorkPhases) \in Nat
  <2>1. \A D, w : w \in Seq(D) => Len(w) \in Nat
    OBVIOUS
  <2> QED BY <2>1, WorkAssumption, Zenon
<1>4. Place("EnsureCluster") \in Nat /\ Place("EnsureCluster") > 1
  <2>1. "EnsureCluster" \notin Work
    BY WorkIsOrdinary
  <2>2. Place("EnsureCluster") = 5 + Len(WorkPhases)
    BY <2>1 DEF Place
  <2> QED BY <1>3, <2>2
<1>5. "EnsureFinalizer" \notin Work
  BY WorkAssumption
<1>6. ASSUME NEW p \in FullPhases
      PROVE  Place(p) \in Nat /\ (Place(p) <= 1 <=> p = "EnsureFinalizer")
  <2>1. CASE p \in Work
    BY <1>1, <1>5, <2>1
  <2>2. CASE p \in {"EnsureFinalizer", "EnsurePaused", "EnsureDeleteOrReset",
                    "EnsureDryRun"}
    BY <1>2, <2>2
  <2>3. CASE p = "EnsureCluster"
    BY <1>4, <2>3
  <2> QED BY <1>6, <2>1, <2>2, <2>3 DEF FullPhases
<1> QED BY <1>2, <1>6, Zenon

\* The first phase of a plan is one of it, and the finalizer comes first.
LEMMA FirstIs ==
    ASSUME NEW S \in SUBSET FullPhases, S # {}
    PROVE  /\ First(S) \in S
           /\ "EnsureFinalizer" \in S => First(S) = "EnsureFinalizer"
<1> DEFINE T == {Place(p) : p \in S}
<1>1. T \in SUBSET Nat /\ T # {}
  BY PlaceIs
<1>2. PICK k \in T : \A j \in T : k <= j
  BY <1>1, LeastNumber
<1>3. \E p \in S : \A q \in S : Place(p) <= Place(q)
  BY <1>2
<1>4. First(S) \in S /\ \A q \in S : Place(First(S)) <= Place(q)
  BY <1>3 DEF First
<1>5. ASSUME "EnsureFinalizer" \in S PROVE First(S) = "EnsureFinalizer"
  <2>1. Place(First(S)) <= Place("EnsureFinalizer")
    BY <1>4, <1>5
  <2>2. Place("EnsureFinalizer") = 1
    BY PlaceIs
  <2>3. First(S) \in FullPhases
    BY <1>4
  <2>4. Place(First(S)) <= 1
    BY <2>1, <2>2, Zenon
  <2> QED BY <2>3, <2>4, PlaceIs
<1> QED BY <1>4, <1>5

Records == [failed: Failures \cup {Blank}, normal: Statuses \ Failures,
            count: 0..(Limit - 1), requeue: BOOLEAN]

\* What recordBKEClusterStatus keeps and writes for a status.
LEMMA RecordClusterIs ==
    ASSUME NEW r \in Records, NEW s \in Statuses
    PROVE  LET o == RecordCluster(r, s, IsFailed(s), s = "Paused")
           IN  /\ o.rec \in Records
               /\ o.status \in Statuses
               /\ o.spent \in BOOLEAN
               /\ s \notin Failures =>
                     o.status = s /\ o.rec.failed = r.failed /\ o.rec.count = r.count
               /\ s \in Failures =>
                     \/ /\ o.status \notin Failures
                        /\ o.rec.failed = s
                        /\ o.rec.count = IF r.failed = s THEN r.count + 1 ELSE 1
                     \/ /\ o.status = s /\ o.rec.failed = Blank
                        /\ Limit <= IF r.failed = s THEN r.count + 1 ELSE 1
<1> DEFINE o == RecordCluster(r, s, IsFailed(s), s = "Paused")
           n == IF r.failed = s THEN r.count + 1 ELSE 1
           c == CountFailure(r, s)
<1>1. /\ Limit \in Nat /\ Limit > 0
      /\ r.count \in 0 .. (Limit - 1) /\ r.requeue \in BOOLEAN
      /\ r.failed \in Failures \cup {Blank} /\ r.normal \in Statuses \ Failures
  BY LimitAssumption DEF Records
<1>2. Blank \notin Failures /\ "Paused" \notin Failures
  BY FailuresAre
<1>3. CASE s \notin Failures
  <2>1. \/ o = [rec |-> r, status |-> s, spent |-> FALSE]
        \/ o = [rec |-> [r EXCEPT !.requeue = FALSE], status |-> s, spent |-> FALSE]
        \/ o = [rec |-> [r EXCEPT !.normal = s, !.requeue = FALSE],
                status |-> s, spent |-> FALSE]
    BY <1>3 DEF RecordCluster, IsFailed
  <2>2. /\ [r EXCEPT !.requeue = FALSE] \in Records
        /\ [r EXCEPT !.normal = s, !.requeue = FALSE] \in Records
    BY <1>3 DEF Records
  <2>4. /\ [r EXCEPT !.requeue = FALSE].failed = r.failed
        /\ [r EXCEPT !.requeue = FALSE].count = r.count
        /\ [r EXCEPT !.normal = s, !.requeue = FALSE].failed = r.failed
        /\ [r EXCEPT !.normal = s, !.requeue = FALSE].count = r.count
    BY DEF Records
  <2> HIDE DEF o
  <2>3. /\ o.rec \in Records /\ o.status = s /\ o.spent = FALSE
        /\ o.rec.failed = r.failed /\ o.rec.count = r.count
    <3>1. o.rec \in {r, [r EXCEPT !.requeue = FALSE],
                     [r EXCEPT !.normal = s, !.requeue = FALSE]}
          /\ o.status = s /\ o.spent = FALSE
      BY <2>1
    <3> QED BY <2>2, <2>4, <3>1
  <2> QED BY <1>3, <2>3 DEF o
<1>4. CASE s \in Failures
  <2>1. /\ c = [r EXCEPT !.failed = s, !.count = n]
        /\ n \in 1 .. Limit
    BY <1>1 DEF CountFailure
  <2>2. /\ c \in [failed: Failures \cup {Blank}, normal: Statuses \ Failures,
                  count: 1..Limit, requeue: BOOLEAN]
        /\ c.failed = s /\ c.count = n
    <3>1. n \in 1 .. Limit /\ c = [r EXCEPT !.failed = s, !.count = n]
      BY <2>1
    <3> HIDE DEF n, c
    <3>2. /\ DOMAIN r = {"failed", "normal", "count", "requeue"}
          /\ r = [failed |-> r.failed, normal |-> r.normal, count |-> r.count,
                  requeue |-> r.requeue]
      BY DEF Records
    <3>3. c = [failed |-> s, normal |-> r.normal, count |-> n,
               requeue |-> r.requeue]
      BY <3>1, <3>2
    <3> QED BY <1>1, <1>4, <3>1, <3>3
  <2>3. /\ IsFailed(s) /\ s # Blank /\ s # "Paused"
    BY <1>2, <1>4 DEF IsFailed
  <2>4. CASE n < Limit
    <3>1. o = [rec |-> [c EXCEPT !.requeue = TRUE], status |-> r.normal,
               spent |-> FALSE]
      BY <2>2, <2>3, <2>4 DEF RecordCluster, AllowFailed
    <3>2. n \in 0 .. (Limit - 1)
      BY <1>1, <2>1, <2>4
    <3> HIDE DEF n, c, o
    <3>3. /\ [c EXCEPT !.requeue = TRUE] \in Records
          /\ [c EXCEPT !.requeue = TRUE].failed = s
          /\ [c EXCEPT !.requeue = TRUE].count = n
      BY <2>2, <3>2 DEF Records
    <3>4. /\ o.rec \in Records /\ o.rec.failed = s /\ o.rec.count = n
          /\ o.status \in Statuses \ Failures /\ o.spent = FALSE
      BY <3>1, <3>3, <1>1
    <3> QED BY <1>4, <3>4 DEF o, n
  <2>5. CASE ~(n < Limit)
    <3>1. o = [rec |-> Spend(c), status |-> s, spent |-> TRUE]
      BY <2>2, <2>3, <2>5 DEF RecordCluster, AllowFailed
    <3>2. 0 \in 0 .. (Limit - 1)
      BY <1>1
    <3>3. Limit <= n
      BY <1>1, <2>1, <2>5
    <3> HIDE DEF n, c, o
    <3>4. Spend(c) \in Records /\ Spend(c).failed = Blank
      BY <2>2, <3>2 DEF Spend, Records
    <3>5. /\ o.rec \in Records /\ o.rec.failed = Blank
          /\ o.status = s /\ o.spent = TRUE
      BY <3>1, <3>4
    <3> QED BY <1>4, <3>3, <3>5 DEF o, n
  <2> QED BY <2>4, <2>5
<1> QED BY <1>3, <1>4

\* SetHealth touches the health only.
LEMMA MarkHealthIs ==
    ASSUME NEW c \in Clusters, NEW h \in Healths
    PROVE  /\ MarkHealth(c, h) \in Clusters
           /\ \A f \in DOMAIN c \ {"health", "reason", "msg"} :
                 MarkHealth(c, h)[f] = c[f]
           /\ DOMAIN MarkHealth(c, h) = DOMAIN c
<1>1. Blank \in Healths
  BY DEF Healths
<1> QED BY <1>1 DEF MarkHealth, Clusters

LEMMA SetHealthIs ==
    ASSUME NEW c \in Clusters
    PROVE  /\ SetHealth(c) \in Clusters
           /\ SetHealth(c).status = c.status
           /\ SetHealth(c).pause = c.pause
           /\ SetHealth(c).deleting = c.deleting
           /\ SetHealth(c).fin = c.fin
           /\ SetHealth(c).record = c.record
<1> DEFINE keep == {"status", "pause", "deleting", "fin", "record"}
           Like(d) == d \in Clusters /\ \A f \in keep : d[f] = c[f]
<1>1. /\ {"Deploying", "Upgrading", "Deleting", "UpgradeFailed"} \subseteq Healths
      /\ \A d \in Clusters : keep \subseteq DOMAIN d \ {"health", "reason", "msg"}
  BY DEF Healths, Clusters
<1>2. ASSUME NEW d, Like(d), NEW h \in Healths PROVE Like(MarkHealth(d, h))
  BY <1>1, <1>2, MarkHealthIs
<1>3. ASSUME NEW d, Like(d) PROVE Like([d EXCEPT !.health = "UpgradeFailed"])
  <2>1. d \in Clusters
    BY <1>3
  <2>2. /\ [d EXCEPT !.health = "UpgradeFailed"] \in Clusters
        /\ \A f \in keep : [d EXCEPT !.health = "UpgradeFailed"][f] = d[f]
    BY <1>1, <2>1 DEF Clusters
  <2> QED BY <1>3, <2>2
<1>4. Like(c)
  OBVIOUS
<1> DEFINE a == IF DeployFlag(c) THEN MarkHealth(c, "Deploying") ELSE c
           b == IF ~UpgradeFlag(c) THEN a
                ELSE IF IsTerminalUpgradeFailure(a)
                     THEN [a EXCEPT !.health = "UpgradeFailed"]
                     ELSE MarkHealth(a, "Upgrading")
<1>5. Like(a)
  <2> HIDE DEF Like
  <2> QED BY <1>1, <1>2, <1>4
<1>6. Like(b)
  <2> HIDE DEF Like, a
  <2> QED BY <1>1, <1>2, <1>3, <1>5
<1>7. Like(SetHealth(c))
  <2>1. SetHealth(c) = IF c.deleting THEN MarkHealth(b, "Deleting") ELSE b
    BY DEF SetHealth
  <2> HIDE DEF Like, a, b
  <2> QED BY <1>1, <1>2, <1>6, <2>1
<1> QED BY <1>7

\* The patch functions leave the deletion and the finalizer alone, and the
\* status but for the retry.
LEMMA ApplyPatchIs ==
    ASSUME TypeOK, NEW c \in Clusters
    PROVE  /\ ApplyPatch(c) \in Clusters
           /\ ApplyPatch(c).deleting = c.deleting
           /\ ApplyPatch(c).fin = c.fin
           /\ ApplyPatch(c).record = c.record
           /\ ApplyPatch(c).status =
                 IF run.patch = "retry" THEN "Checking" ELSE c.status
           /\ ApplyPatch(c).pause = (run.patch # "unpause" /\ c.pause)
<1>1. run.patch \in {"none", "retry", "pause", "resume", "unpause"}
  BY DEF TypeOK, Runs
<1>2. "Checking" \in Statuses
  BY FailuresAre
<1>3. CASE run.patch = "retry"
  BY <1>2, <1>3 DEF ApplyPatch, Clusters
<1>4. CASE run.patch = "pause"
  BY <1>4 DEF ApplyPatch, Clusters
<1>5. CASE run.patch = "resume"
  BY <1>5 DEF ApplyPatch, Clusters
<1>6. CASE run.patch = "unpause"
  BY <1>6 DEF ApplyPatch, Clusters
<1>7. CASE run.patch = "none"
  BY <1>7 DEF ApplyPatch, Clusters
<1> QED BY <1>1, <1>3, <1>4, <1>5, <1>6, <1>7, Zenon

\* What users changed is merged; the deletion is not seen.
LEMMA MergeIs ==
    ASSUME NEW m \in Clusters, NEW fresh \in Clusters
    PROVE  /\ Merge(m, fresh) \in Clusters
           /\ Merge(m, fresh).deleting = m.deleting
           /\ Merge(m, fresh).fin = m.fin
           /\ Merge(m, fresh).record = m.record
           /\ Merge(m, fresh).status = m.status
           /\ Merge(m, fresh).pause = fresh.pause
<1> DEFINE a == m.dryRun \/ fresh.dryRun
           b == m.pausedAnn \/ fresh.pausedAnn
           r == m.retry \/ fresh.retry
<1>1. a \in BOOLEAN /\ b \in BOOLEAN /\ r \in BOOLEAN
      /\ fresh.pause \in BOOLEAN
  BY DEF Clusters
<1>2. Merge(m, fresh) = [m EXCEPT !.pause = fresh.pause, !.dryRun = a,
                                  !.pausedAnn = b, !.retry = r]
  BY DEF Merge
<1> HIDE DEF a, b, r
<1> QED BY <1>1, <1>2 DEF Clusters

LEMMA FailedHealthIs ==
    ASSUME NEW h \in Healths
    PROVE  FailedHealth(h) \in Healths
BY DEF FailedHealth, Healths

\* A status that is marked is recorded, and perhaps replaced.
LEMMA SetStatusIs ==
    ASSUME TypeOK, NEW m \in Clusters
    PROVE  /\ SetStatus(m) \in Clusters
           /\ SetStatus(m).deleting = m.deleting
           /\ SetStatus(m).fin = m.fin
           /\ SetStatus(m).pause = m.pause
           /\ ~SetStatus(m).record
           /\ SetStatus(m).status =
                 IF m.record THEN Recorded(m).status ELSE m.status
<1>1. rec \in Records /\ m.status \in Statuses
  BY DEF TypeOK, Records, Clusters
<1>2. Recorded(m).status \in Statuses
  BY <1>1, RecordClusterIs DEF Recorded
<1> DEFINE t == Recorded(m).status
           s == [m EXCEPT !.record = FALSE, !.status = t]
           h == FailedHealth(m.health)
           g == IF m.reason = Blank THEN Blank
                ELSE IF h = m.health THEN Blank ELSE h
           u == [s EXCEPT !.health = h, !.msg = g]
<1>3. h \in Healths /\ g \in Healths
  <2>1. m.health \in Healths
    BY DEF Clusters
  <2> QED BY <2>1, FailedHealthIs DEF Healths
<1>4. SetStatus(m) \in {s, u} \/ (~m.record /\ SetStatus(m) = m)
  BY Zenon DEF SetStatus
<1>7. m.record => SetStatus(m) \in {s, u}
  BY <1>4
<1>t. t \in Statuses
  BY <1>2
<1>q. m.record => SetStatus(m).status = t /\ t = Recorded(m).status
  <2> HIDE DEF t, h, g
  <2> QED BY <1>7, <1>t DEF Clusters, t
<1>5. /\ s \in Clusters /\ ~s.record
      /\ s.deleting = m.deleting /\ s.fin = m.fin /\ s.pause = m.pause
  <2> HIDE DEF t
  <2> QED BY <1>t DEF Clusters
<1>6. /\ u \in Clusters /\ ~u.record
      /\ u.deleting = m.deleting /\ u.fin = m.fin /\ u.pause = m.pause
  <2> HIDE DEF h, g, s
  <2> QED BY <1>3, <1>5 DEF Clusters
<1> HIDE DEF s, u, t
<1>8. m.record =>
         /\ SetStatus(m) \in Clusters /\ ~SetStatus(m).record
         /\ SetStatus(m).deleting = m.deleting /\ SetStatus(m).fin = m.fin
         /\ SetStatus(m).pause = m.pause
  BY <1>5, <1>6, <1>7
<1>9. ~m.record => SetStatus(m) = m
  BY Zenon DEF SetStatus
<1> QED BY <1>8, <1>9, <1>q

\* Everything is written but the mark of the deletion.
LEMMA PersistIs ==
    ASSUME TypeOK, NEW m \in Clusters
    PROVE  /\ Persist(m) \in Clusters
           /\ Persist(m).deleting = obj.deleting
           /\ Persist(m).exists = (~obj.deleting \/ m.fin)
           /\ Persist(m).fin = m.fin
           /\ Persist(m).record = m.record
           /\ Persist(m).status = m.status
           /\ Persist(m).pause = m.pause
<1> DEFINE e == ~obj.deleting \/ m.fin
<1>1. obj.deleting \in BOOLEAN /\ e \in BOOLEAN
  BY DEF Clusters, TypeOK
<1>2. Persist(m) = [m EXCEPT !.deleting = obj.deleting, !.exists = e]
  BY DEF Persist
<1> HIDE DEF e
<1>3. Persist(m) \in Clusters
  BY <1>1, <1>2 DEF Clusters
<1>4. /\ Persist(m).deleting = obj.deleting
      /\ Persist(m).exists = e
      /\ Persist(m).fin = m.fin
      /\ Persist(m).record = m.record
      /\ Persist(m).status = m.status
      /\ Persist(m).pause = m.pause
  BY <1>2 DEF Clusters
<1> QED BY <1>3, <1>4 DEF e

\* Where the synchronisation leaves the reconcile, and the memory it copies.
Resumes(r, s) ==
    /\ s \in Runs
    /\ s.mem = r.mem /\ s.patch = "none" /\ ~s.merged
    /\ s.split = r.split /\ s.watch = r.watch /\ s.err = r.err
    /\ s.entry = IF r.at = "initSync" THEN r.mem ELSE r.entry
    /\ s.new = IF r.at = "postSync" THEN r.mem ELSE r.new
    /\ s.plan = IF s.at = "decide" THEN r.plan \ {First(r.plan)} ELSE r.plan
    /\ s.at \in CASE r.at = "initSync" -> {"plan"}
                  [] r.at = "skipSync" -> {"decide"}
                  [] r.at = "preSync" -> {"exec"}
                  [] r.at = "pauseSync" -> {"suspend"}
                  [] r.at = "dryRunSync" -> {"dryRun"}
                  [] r.at = "unpauseSync" -> {"clear"}
                  [] r.at = "deletingSync" -> {"wipe"}
                  [] r.at = "eraseSync" -> {"post"}
                  [] r.at = "readySync" -> {"recheck"}
                  [] r.at = "postSync" -> IF r.err THEN {"cleanSync", "return"}
                                          ELSE {"decide"}
                  [] r.at = "cleanSync" -> {"return"}
                  [] r.at = "noteSync" -> {"finish"}

LEMMA RunFields ==
    ASSUME NEW r \in Runs
    PROVE  /\ r.at \in Points /\ r.mem \in Clusters /\ r.entry \in Clusters
           /\ r.new \in Clusters /\ r.plan \in SUBSET FullPhases
           /\ r.merged \in BOOLEAN /\ r.left \in BOOLEAN /\ r.err \in BOOLEAN
           /\ r.again \in BOOLEAN /\ r.split \in BOOLEAN
           /\ r.watch \in BOOLEAN
           /\ r.patch \in {"none", "retry", "pause", "resume", "unpause"}
BY DEF Runs

LEMMA EndOfFlowIs ==
    ASSUME NEW r \in Runs
    PROVE  \E a \in {"cleanSync", "return"} : EndOfFlow(r) = [r EXCEPT !.at = a]
BY DEF EndOfFlow

LEMMA AtIs ==
    ASSUME NEW r \in Runs, NEW a \in Points
    PROVE  /\ [r EXCEPT !.at = a] \in Runs
           /\ [r EXCEPT !.at = a].at = a
           /\ \A f \in DOMAIN r \ {"at"} : [r EXCEPT !.at = a][f] = r[f]
           /\ DOMAIN r = {"at", "patch", "merged", "mem", "entry", "new",
                          "plan", "left", "err", "again", "split", "watch"}
BY DEF Runs

LEMMA AfterSyncIs ==
    ASSUME NEW r \in Runs, r.at \in SyncPoints
    PROVE  Resumes(r, AfterSync(r))
<1> DEFINE s == [r EXCEPT !.patch = "none", !.merged = FALSE]
           rest == r.plan \ {First(r.plan)}
<1>0. r.mem \in Clusters /\ rest \in SUBSET FullPhases
  BY RunFields
<1>1. /\ s \in Runs /\ s.patch = "none" /\ ~s.merged
      /\ s.at = r.at /\ s.mem = r.mem /\ s.entry = r.entry /\ s.new = r.new
      /\ s.plan = r.plan /\ s.err = r.err /\ s.split = r.split
      /\ s.watch = r.watch
  BY DEF Runs
<1>2. ASSUME NEW a \in Points, NEW n \in {r.new, r.mem},
             NEW e \in {r.entry, r.mem}, NEW p \in SUBSET FullPhases
      PROVE  /\ [s EXCEPT !.at = a] \in Runs
             /\ [s EXCEPT !.at = a, !.plan = p] \in Runs
             /\ [s EXCEPT !.at = a, !.entry = e] \in Runs
             /\ [s EXCEPT !.new = n] \in Runs
             /\ [s EXCEPT !.new = n, !.plan = p, !.at = a] \in Runs
  <2>1. n \in Clusters /\ e \in Clusters /\ r.mem \in Clusters
    BY RunFields
  <2> HIDE DEF s
  <2> QED BY <1>1, <2>1 DEF Runs
<1> DEFINE t == AfterSync(r)
<1>3. CASE r.at = "initSync"
  <2>1. t = [s EXCEPT !.at = "plan", !.entry = s.mem]
    BY <1>3 DEF AfterSync
  <2>2. "plan" \in Points
    BY DEF Points
  <2> HIDE DEF t, s
  <2>3. t \in Runs
    BY <1>1, <1>2, <2>1, <2>2, <1>0
  <2>4. /\ t.at = "plan" /\ t.entry = r.mem /\ t.mem = s.mem /\ t.patch = s.patch
        /\ t.merged = s.merged /\ t.split = s.split /\ t.watch = s.watch
        /\ t.err = s.err /\ t.new = s.new /\ t.plan = s.plan
    BY <1>1, <2>1 DEF Runs
  <2> QED BY <1>1, <1>3, <2>3, <2>4 DEF Resumes, t
<1>4. CASE r.at = "skipSync"
  <2>1. t = [s EXCEPT !.at = "decide", !.plan = rest]
    BY <1>4, <1>1 DEF AfterSync, Runs
  <2>2. "decide" \in Points
    BY DEF Points
  <2> HIDE DEF t, s, rest
  <2>3. t \in Runs
    BY <1>0, <1>2, <2>1, <2>2
  <2>4. /\ t.at = "decide" /\ t.entry = s.entry /\ t.mem = s.mem
        /\ t.patch = s.patch /\ t.merged = s.merged /\ t.split = s.split
        /\ t.watch = s.watch /\ t.err = s.err /\ t.new = s.new
        /\ t.plan = rest
    BY <1>1, <2>1 DEF Runs
  <2> QED BY <1>1, <1>4, <2>3, <2>4 DEF Resumes, t, rest
<1>5. CASE r.at = "postSync" /\ ~r.err
  <2>1. t = [s EXCEPT !.new = s.mem, !.plan = rest, !.at = "decide"]
    BY <1>5, <1>1 DEF AfterSync, Runs
  <2>2. "decide" \in Points
    BY DEF Points
  <2> HIDE DEF t, s, rest
  <2>3. t \in Runs
    BY <1>0, <1>1, <1>2, <2>1, <2>2
  <2>4. /\ t.at = "decide" /\ t.entry = s.entry /\ t.mem = s.mem
        /\ t.patch = s.patch /\ t.merged = s.merged /\ t.split = s.split
        /\ t.watch = s.watch /\ t.err = s.err /\ t.new = r.mem
        /\ t.plan = rest
    BY <1>1, <2>1 DEF Runs
  <2> QED BY <1>1, <1>5, <2>3, <2>4 DEF Resumes, t, rest
<1>6. CASE r.at = "postSync" /\ r.err
  <2> DEFINE w == [s EXCEPT !.new = s.mem]
  <2>1. t = EndOfFlow(w)
    BY <1>6, <1>1 DEF AfterSync
  <2>2. /\ w \in Runs /\ w.new = r.mem /\ w.entry = s.entry /\ w.mem = s.mem
        /\ w.patch = s.patch /\ w.merged = s.merged /\ w.split = s.split
        /\ w.watch = s.watch /\ w.err = s.err /\ w.plan = s.plan
    <3> HIDE DEF s
    <3>1. w \in Runs
      BY <1>1, <1>0 DEF Runs
    <3>2. w = [s EXCEPT !.new = s.mem] /\ s \in Runs /\ s.mem = r.mem
      BY <1>1
    <3> HIDE DEF w
    <3>3. /\ w.new = s.mem /\ w.entry = s.entry /\ w.mem = s.mem
          /\ w.patch = s.patch /\ w.merged = s.merged /\ w.split = s.split
          /\ w.watch = s.watch /\ w.err = s.err /\ w.plan = s.plan
      BY <3>2 DEF Runs
    <3> QED BY <3>1, <3>2, <3>3
  <2> HIDE DEF w, t
  <2>3. PICK a \in {"cleanSync", "return"} : t = [w EXCEPT !.at = a]
    BY <2>1, <2>2, EndOfFlowIs
  <2>4. a \in Points
    BY DEF Points, SyncPoints
  <2>5. /\ t \in Runs /\ t.at = a /\ t.entry = w.entry /\ t.mem = w.mem
        /\ t.patch = w.patch /\ t.merged = w.merged /\ t.split = w.split
        /\ t.watch = w.watch /\ t.err = w.err /\ t.new = w.new
        /\ t.plan = w.plan
    BY <2>2, <2>3, <2>4, AtIs
  <2> QED BY <1>1, <1>6, <2>2, <2>3, <2>5 DEF Resumes, t
<1>7. ASSUME NEW a \in Points, r.at \in SyncPoints
                 \ {"initSync", "skipSync", "postSync"},
             t = [s EXCEPT !.at = a], a # "decide"
      PROVE  /\ t \in Runs /\ t.at = a /\ t.entry = r.entry /\ t.mem = r.mem
             /\ t.patch = "none" /\ ~t.merged /\ t.split = r.split
             /\ t.watch = r.watch /\ t.err = r.err /\ t.new = r.new
             /\ t.plan = r.plan
  <2> HIDE DEF s, t
  <2> QED BY <1>1, <1>7, AtIs
<1>8. CASE r.at \in SyncPoints \ {"initSync", "skipSync", "postSync"}
  <2> DEFINE Goes(x, y) == r.at = x => t = [s EXCEPT !.at = y]
  <2>1. /\ Goes("preSync", "exec") /\ Goes("pauseSync", "suspend")
        /\ Goes("dryRunSync", "dryRun") /\ Goes("unpauseSync", "clear")
        /\ Goes("deletingSync", "wipe") /\ Goes("eraseSync", "post")
        /\ Goes("readySync", "recheck") /\ Goes("cleanSync", "return")
        /\ Goes("noteSync", "finish")
    BY DEF AfterSync
  <2>2. r.at \in {"preSync", "pauseSync", "dryRunSync", "unpauseSync",
                  "deletingSync", "eraseSync", "readySync", "cleanSync",
                  "noteSync"}
    BY <1>8 DEF SyncPoints
  <2>3. {"exec", "suspend", "dryRun", "clear", "wipe", "post", "recheck",
         "return", "finish"} \subseteq Points
    BY DEF Points
  <2> HIDE DEF t, s
  <2>4. CASE r.at = "preSync"
    BY <1>7, <1>8, <2>1, <2>3, <2>4 DEF Resumes, t
  <2>5. CASE r.at = "pauseSync"
    BY <1>7, <1>8, <2>1, <2>3, <2>5 DEF Resumes, t
  <2>6. CASE r.at = "dryRunSync"
    BY <1>7, <1>8, <2>1, <2>3, <2>6 DEF Resumes, t
  <2>7. CASE r.at = "unpauseSync"
    BY <1>7, <1>8, <2>1, <2>3, <2>7 DEF Resumes, t
  <2>8. CASE r.at = "deletingSync"
    BY <1>7, <1>8, <2>1, <2>3, <2>8 DEF Resumes, t
  <2>9. CASE r.at = "eraseSync"
    BY <1>7, <1>8, <2>1, <2>3, <2>9 DEF Resumes, t
  <2>10. CASE r.at = "readySync"
    BY <1>7, <1>8, <2>1, <2>3, <2>10 DEF Resumes, t
  <2>11. CASE r.at = "cleanSync"
    BY <1>7, <1>8, <2>1, <2>3, <2>11 DEF Resumes, t
  <2>12. CASE r.at = "noteSync"
    BY <1>7, <1>8, <2>1, <2>3, <2>12 DEF Resumes, t
  <2> QED BY <2>2, <2>4, <2>5, <2>6, <2>7, <2>8, <2>9, <2>10, <2>11, <2>12
<1> QED BY <1>3, <1>4, <1>5, <1>6, <1>8, RunFields

-----------------------------------------------------------------------------
(***************************************************************************)
(* The type invariant.                                                     *)
(***************************************************************************)
LEMMA TypeParts ==
    TypeOK <=>
        /\ obj \in Clusters /\ run \in Runs /\ rec \in Records
        /\ todo \subseteq Work
        /\ nodes \in BOOLEAN /\ suspended \in BOOLEAN /\ capi \in BOOLEAN
        /\ queue \in BOOLEAN /\ wiped \in BOOLEAN
        /\ starts \in Nat /\ fails \in [Failures -> Nat]
        /\ edits \in 0..MaxEdits /\ faults \in 0..MaxFaults
BY DEF TypeOK, Records

LEMMA TypePartsNext ==
    TypeOK' <=>
        /\ obj' \in Clusters /\ run' \in Runs /\ rec' \in Records
        /\ todo' \subseteq Work
        /\ nodes' \in BOOLEAN /\ suspended' \in BOOLEAN /\ capi' \in BOOLEAN
        /\ queue' \in BOOLEAN /\ wiped' \in BOOLEAN
        /\ starts' \in Nat /\ fails' \in [Failures -> Nat]
        /\ edits' \in 0..MaxEdits /\ faults' \in 0..MaxFaults
BY DEF TypeOK, Records

LEMMA NewClusterType == NewCluster \in Clusters
<1>1. Blank \in Statuses /\ Blank \in Healths
  BY FailuresAre DEF Healths
<1> QED BY <1>1 DEF NewCluster, Clusters

LEMMA IdleType == Idle \in Runs
<1>1. "idle" \in Points
  BY DEF Points
<1> QED BY <1>1, NewClusterType DEF Idle, Runs

LEMMA EmptyRecordType ==
    /\ EmptyRecord \in Records
    /\ EmptyRecord.failed = Blank /\ EmptyRecord.count = 0
<1>1. Blank \in Statuses \ Failures
  BY FailuresAre
<1>2. 0 \in 0 .. (Limit - 1)
  BY LimitAssumption
<1> QED BY <1>1, <1>2 DEF EmptyRecord, Records

LEMMA RecordedType ==
    ASSUME TypeOK, NEW m \in Clusters
    PROVE  Recorded(m).rec \in Records
<1>1. rec \in Records /\ m.status \in Statuses
  BY DEF TypeOK, Records, Clusters
<1> QED BY <1>1, RecordClusterIs DEF Recorded

LEMMA PointsAre ==
    /\ SyncPoints \subseteq Points
    /\ {"idle", "plan", "decide", "exec", "suspend", "dryRun", "clear",
        "wipe", "recheck", "post", "return", "finish"} \subseteq Points
    /\ {"initSync", "skipSync", "preSync", "pauseSync", "dryRunSync",
        "unpauseSync", "deletingSync", "eraseSync", "readySync",
        "postSync", "cleanSync", "noteSync"} = SyncPoints
BY DEF Points, SyncPoints

LEMMA InitType == Init => TypeOK
<1> SUFFICES ASSUME Init PROVE TypeOK
  OBVIOUS
<1>1. [s \in Failures |-> 0] \in [Failures -> Nat]
  OBVIOUS
<1>2. 0 \in 0 .. MaxEdits /\ 0 \in 0 .. MaxFaults
  BY BoundsAssumption
<1> QED BY <1>1, <1>2, IdleType, NewClusterType, EmptyRecordType, TypeParts
        DEF Init

\* Where the reconcile begins.
LEMMA BeginRun ==
    ASSUME TypeOK, NEW a \in Points, NEW p \in {"none", "retry"},
           NEW c \in Clusters,
           run' = [Idle EXCEPT !.mem = c, !.entry = c, !.at = a, !.patch = p]
    PROVE  /\ run' \in Runs /\ run'.at = a /\ run'.patch = p /\ run'.mem = c
           /\ run'.entry = c /\ run'.new = NewCluster /\ run'.plan = {}
           /\ ~run'.merged /\ ~run'.split /\ ~run'.watch /\ ~run'.err
BY NewClusterType DEF Idle, Runs

LEMMA BeginIs ==
    ASSUME TypeOK, Begin, obj.exists
    PROVE  /\ run'.at \in {"initSync", "plan"}
           /\ run'.patch = IF obj.retry THEN "retry" ELSE "none"
           /\ obj.retry => run'.at = "initSync"
           /\ run'.mem = SetHealth(obj) /\ run'.entry = SetHealth(obj)
           /\ run' \in Runs
           /\ run'.new = NewCluster /\ run'.plan = {}
           /\ ~run'.merged /\ ~run'.split /\ ~run'.watch /\ ~run'.err
           /\ rec' = IF obj.retry THEN EmptyRecord ELSE rec
<1>1. PICK n \in BOOLEAN :
          run' = [Idle EXCEPT !.mem = SetHealth(obj), !.entry = SetHealth(obj),
                              !.at = IF \/ DeployFlag(obj) \/ UpgradeFlag(obj)
                                        \/ obj.retry \/ n
                                     THEN "initSync" ELSE "plan",
                              !.patch = IF obj.retry THEN "retry" ELSE "none"]
  BY DEF Begin
<1> DEFINE a == IF \/ DeployFlag(obj) \/ UpgradeFlag(obj) \/ obj.retry \/ n
                THEN "initSync" ELSE "plan"
           p == IF obj.retry THEN "retry" ELSE "none"
           c == SetHealth(obj)
<1>2. a \in Points /\ p \in {"none", "retry"} /\ a \in {"initSync", "plan"}
      /\ (obj.retry => a = "initSync")
  BY PointsAre
<1>3. c \in Clusters
  BY SetHealthIs DEF TypeOK
<1>4. run' = [Idle EXCEPT !.mem = c, !.entry = c, !.at = a, !.patch = p]
  BY <1>1
<1>5. rec' = IF obj.retry THEN EmptyRecord ELSE rec
  BY DEF Begin
<1>6. p = IF obj.retry THEN "retry" ELSE "none"
  OBVIOUS
<1> HIDE DEF a, p
<1> QED BY <1>2, <1>3, <1>4, <1>5, <1>6, BeginRun

-----------------------------------------------------------------------------
(***************************************************************************)
(* The steps, as far as the invariants look at them.                       *)
(***************************************************************************)
Keeps ==
    /\ run' \in Runs
    /\ run'.merged = run.merged /\ run'.entry = run.entry
    /\ run'.new = run.new /\ run'.plan = run.plan /\ run'.watch = run.watch

\* A step that leaves all copies alone.
QuietStep ==
    /\ Keeps /\ run'.mem = run.mem /\ run'.split = run.split
    /\ obj' = obj /\ rec' = rec /\ fails' = fails /\ starts' = starts
    /\ wiped' = wiped /\ faults' \in {faults, faults + 1}
    /\ \/ /\ run.at = "decide" /\ run'.at = "skipSync" /\ run.plan # {}
          /\ ~NeedExecute(Phase, run.new) /\ run'.patch = run.patch
          /\ run'.err = run.err
       \/ /\ run.at = "decide" /\ run'.at \in {"cleanSync", "return"}
          /\ run'.patch = run.patch
       \/ /\ run.at = "exec" /\ run'.at \in {"post", "pauseSync", "dryRunSync"}
          /\ Phase # "EnsureFinalizer"
          /\ run'.patch \in {run.patch, "pause", "resume"}
       \/ /\ run.at = "exec" /\ run'.at = "unpauseSync"
          /\ Phase = "EnsureDeleteOrReset" /\ run'.patch = "unpause"
       \/ /\ run.at \in {"suspend", "dryRun", "clear", "wipe", "recheck"}
          /\ run'.at = "post" /\ run'.patch = run.patch
       \/ /\ run.at = "return" /\ run'.at = "finish" /\ run'.patch = run.patch

\* A phase changes the object in memory.
ChangeStep ==
    /\ Keeps /\ run'.patch = run.patch /\ run'.split = run.split
    /\ run'.err = run.err
    /\ obj' = obj /\ rec' = rec /\ fails' = fails /\ starts' = starts
    /\ faults' = faults
    /\ run'.mem.pause = run.mem.pause /\ run'.mem.record = run.mem.record
    /\ run'.mem.deleting = run.mem.deleting
    /\ \/ /\ run.at = "exec" /\ run'.at = "post" /\ Phase = "EnsureFinalizer"
          /\ run'.mem.fin /\ run'.mem.status = run.mem.status
          /\ wiped' = wiped
       \/ /\ \/ run.at = "recheck"
             \/ run.at = "exec" /\ Phase # "EnsureFinalizer"
          /\ run'.at \in {"deletingSync", "post", "readySync"}
          /\ run'.mem.status \in {"Deleting", "Unhealthy", "Ready"}
          /\ run'.mem.fin = run.mem.fin /\ wiped' = wiped
       \/ /\ run.at = "wipe" /\ run'.at = "eraseSync"
          /\ run'.mem.status = run.mem.status /\ wiped' = TRUE

\* The object is read again.
ReadStep ==
    /\ Keeps /\ run'.patch = run.patch /\ obj.exists
    /\ obj' = obj /\ rec' = rec /\ fails' = fails /\ wiped' = wiped
    /\ faults' = faults /\ run'.err = run.err
    /\ run'.mem.pause = obj.pause /\ run'.mem.deleting = obj.deleting
    /\ run'.mem.fin = obj.fin /\ run'.mem.record = obj.record
    /\ \/ /\ run.at = "clear" /\ run'.at = "post" /\ starts' = starts
          /\ run'.split = run.split /\ run'.mem.status = obj.status
       \/ /\ run.at = "decide" /\ run'.at = "preSync" /\ run.plan # {}
          /\ run'.split /\ run'.mem.status \in Statuses \ Failures
          /\ NeedExecute(Phase, run.new)
          /\ starts' = IF Phase \in Work THEN starts + 1 ELSE starts

\* The phase is over; its status is to be recorded.
PostStep ==
    /\ Keeps /\ run'.patch = run.patch /\ run'.split = run.split
    /\ run'.err = run.err
    /\ run.at = "post" /\ run'.at = "postSync"
    /\ obj' = obj /\ rec' = rec /\ starts' = starts /\ wiped' = wiped
    /\ faults' = faults
    /\ run'.mem.pause = run.mem.pause /\ run'.mem.deleting = run.mem.deleting
    /\ run'.mem.fin = run.mem.fin
    /\ run'.mem.record = (run'.mem.status # "Unknown")
    /\ IsFailed(run'.mem.status) =>
          run.err \/ (Phase = "EnsureCluster" /\ IsFailed(run.mem.status))
    /\ fails' = IF IsFailed(run'.mem.status)
                THEN [fails EXCEPT ![run'.mem.status] = @ + 1] ELSE fails

\* The manual intervention is to be noted in the entry object.
NoteStep ==
    /\ Keeps /\ run'.patch = run.patch /\ run'.split = run.split
    /\ obj' = obj /\ rec' = rec /\ starts' = starts /\ wiped' = wiped
    /\ faults' = faults /\ fails' = fails
    /\ run.at = "return" /\ run'.at = "noteSync"
    /\ IsFailed(run.entry.status)
    /\ run'.mem.status = run.entry.status /\ run'.mem.fin = run.entry.fin
    /\ run'.mem.deleting = run.entry.deleting
    /\ run'.mem.record = run.entry.record

\* The reconcile ends.
IdleStep ==
    /\ run' = Idle /\ obj' = obj /\ rec' \in {rec, EmptyRecord}
    /\ fails' = fails /\ starts' = starts /\ wiped' = wiped
    /\ faults' \in {faults, faults + 1}

\* The reconcile begins.
BeginStep ==
    /\ obj' = obj /\ fails' = fails /\ starts' = starts /\ wiped' = wiped
    /\ faults' = faults
    /\ run.at = "idle" /\ obj.exists
    /\ run'.at \in {"initSync", "plan"} /\ run' \in Runs
    /\ run'.patch = "retry" => run'.at = "initSync" /\ rec' = EmptyRecord
    /\ run'.patch # "unpause"
    /\ rec' \in {rec, EmptyRecord}
    /\ run'.entry = run'.mem /\ run'.new = NewCluster /\ run'.plan = {}
    /\ ~run'.merged /\ ~run'.split /\ ~run'.watch /\ ~run'.err
    /\ run'.mem.status = obj.status /\ run'.mem.pause = obj.pause
    /\ run'.mem.deleting = obj.deleting /\ run'.mem.fin = obj.fin
    /\ run'.mem.record = obj.record

\* The phases are selected.
PlanStep ==
    /\ obj' = obj /\ rec' = rec /\ fails' = fails /\ starts' = starts
    /\ wiped' = wiped /\ faults' = faults
    /\ run.at = "plan" /\ run'.at = "decide" /\ run' \in Runs
    /\ run'.mem = run.mem /\ run'.new = run.mem /\ run'.entry = run.entry
    /\ run'.patch = run.patch /\ run'.merged = run.merged
    /\ run'.split = run.split /\ run'.err = run.err
    /\ "EnsureFinalizer" \in run'.plan <=> ~run.mem.deleting /\ ~run.mem.fin

\* Users change the object.
UserStep ==
    /\ run' = run /\ rec' = rec /\ fails' = fails /\ wiped' = wiped
    /\ faults' = faults
    /\ obj'.record = obj.record /\ obj'.status = obj.status
    /\ obj'.fin = obj.fin
    /\ \/ /\ obj'.pause = obj.pause /\ obj'.deleting = obj.deleting
          /\ obj'.exists = obj.exists /\ starts' = starts
       \/ /\ obj'.deleting = obj.deleting /\ obj'.exists = obj.exists
          /\ starts' = 0
       \/ obj'.deleting /\ obj'.exists = obj.fin /\ starts' = 0
            /\ obj.exists

\* What the synchronisation read is merged.
MergeStep ==
    /\ obj' = obj /\ rec' = rec /\ fails' = fails /\ starts' = starts
    /\ wiped' = wiped /\ faults' = faults
    /\ run.at \in SyncPoints /\ run' \in Runs /\ run'.at = run.at
    /\ run'.merged /\ run'.patch = run.patch /\ run'.entry = run.entry
    /\ run'.new = run.new /\ run'.plan = run.plan /\ run'.err = run.err
    /\ run'.split = run.split /\ run'.watch = run.watch
    /\ run'.mem.deleting = run.mem.deleting /\ run'.mem.fin = run.mem.fin
    /\ run'.mem.record = run.mem.record
    /\ run'.mem.status = IF run.patch = "retry" THEN "Checking"
                         ELSE run.mem.status
    /\ run'.mem.pause = (run.patch # "unpause" /\ obj.pause)

\* A synchronisation is over and leaves m in memory.
Resume(m) ==
    /\ run.at \in SyncPoints /\ run' \in Runs
    /\ run'.mem = m /\ run'.patch = "none" /\ ~run'.merged
    /\ run'.split = run.split /\ run'.watch = run.watch
    /\ run'.err = run.err
    /\ run'.entry = IF run.at = "initSync" THEN m ELSE run.entry
    /\ run'.new = IF run.at = "postSync" THEN m ELSE run.new
    /\ run'.plan = IF run'.at = "decide" THEN run.plan \ {First(run.plan)}
                   ELSE run.plan
    /\ run'.at \in CASE run.at = "initSync" -> {"plan"}
                     [] run.at = "skipSync" -> {"decide"}
                     [] run.at = "preSync" -> {"exec"}
                     [] run.at = "pauseSync" -> {"suspend"}
                     [] run.at = "dryRunSync" -> {"dryRun"}
                     [] run.at = "unpauseSync" -> {"clear"}
                     [] run.at = "deletingSync" -> {"wipe"}
                     [] run.at = "eraseSync" -> {"post"}
                     [] run.at = "readySync" -> {"recheck"}
                     [] run.at = "postSync" ->
                            IF run.err THEN {"cleanSync", "return"}
                            ELSE {"decide"}
                     [] run.at = "cleanSync" -> {"return"}
                     [] run.at = "noteSync" -> {"finish"}

\* m is the object in memory after its status has been recorded.
Settled(m) ==
    /\ m \in Clusters
    /\ m.deleting = run.mem.deleting /\ m.fin = run.mem.fin
    /\ m.pause = run.mem.pause /\ ~m.record
    /\ m.status = IF run.mem.record THEN Recorded(run.mem).status
                  ELSE run.mem.status

WriteStep(m) ==
    /\ Resume(m) /\ Settled(m) /\ run.merged /\ obj.exists
    /\ obj'.status = m.status /\ obj'.pause = m.pause /\ obj'.fin = m.fin
    /\ obj'.record = m.record /\ obj'.deleting = obj.deleting
    /\ obj'.exists = (~obj.deleting \/ m.fin)
    /\ \/ rec' = EmptyRecord
       \/ rec' = IF run.mem.record THEN Recorded(run.mem).rec ELSE rec
    /\ fails' = IF run.patch = "retry" THEN [s \in Failures |-> 0] ELSE fails
    /\ starts' = starts /\ wiped' = wiped /\ faults' = faults

GoneStep ==
    /\ Resume(run.mem) /\ ~obj.exists
    /\ rec' \in {rec, EmptyRecord}
    /\ obj' = obj /\ fails' = fails /\ starts' = starts /\ wiped' = wiped
    /\ faults' = faults

\* The object in memory when a synchronisation gives up.
GivenUp(m) == IF run.merged THEN Settled(m) ELSE m = run.mem

TimeoutStep(m) ==
    /\ obj' = obj /\ fails' = fails /\ starts' = starts /\ wiped' = wiped
    /\ faults' = faults + 1
    /\ obj.exists /\ GivenUp(m)
    /\ rec' = IF run.merged /\ run.mem.record THEN Recorded(run.mem).rec
              ELSE rec
    /\ \/ Resume(m) /\ run.at \in Reports
       \/ /\ run' \in Runs /\ run'.mem = m /\ run'.patch = "none"
          /\ run.at \in SyncPoints \ Reports
          /\ ~run'.merged /\ run'.new = run.new /\ run'.plan = run.plan
          /\ run'.split = run.split /\ run'.watch = run.watch
          /\ \/ /\ run.at = "initSync" /\ run'.at = "finish"
                /\ run'.entry = NewCluster
             \/ /\ run.at # "initSync" /\ run'.at = "post"
                /\ run'.entry = run.entry

\* The deletion has been noticed by WatchBKEClusterStatus.
WatchStep ==
    /\ fails' = fails /\ starts' = starts /\ wiped' = wiped
    /\ faults' = faults
    /\ ~run.merged /\ run.watch /\ run' \in Runs
    /\ run'.at = run.at /\ run'.patch = run.patch /\ ~run'.merged
    /\ run'.new = run.new /\ run'.plan = run.plan /\ run'.err = run.err
    /\ run'.split = run.split /\ ~run'.watch
    /\ \/ obj' = obj /\ rec' = rec /\ run'.mem = run.mem /\ run'.entry = run.entry
       \/ /\ run.mem.deleting /\ run'.mem.deleting
          /\ run'.mem.fin = run.mem.fin /\ run'.mem.status = "Deleting"
          /\ run'.entry = IF run.split THEN run.entry ELSE run'.mem
          /\ \/ /\ obj.exists /\ ~run'.mem.record
                /\ run'.mem.pause = obj.pause
                /\ obj'.status = "Deleting" /\ obj'.pause = obj.pause
                /\ obj'.fin = run.mem.fin /\ ~obj'.record
                /\ obj'.deleting = obj.deleting
                /\ obj'.exists = (~obj.deleting \/ run.mem.fin)
                /\ rec'.failed = rec.failed /\ rec'.count = rec.count
             \/ /\ ~obj.exists /\ obj' = obj /\ rec' = rec
                /\ run'.mem.pause = run.mem.pause
                /\ run'.mem.record = run.mem.record

-----------------------------------------------------------------------------
(***************************************************************************)
(* Every action is one of these steps, and keeps the types.                *)
(***************************************************************************)
\* The run s differs from r in where it is, its patch, err and again only.
Moved(r, s, a, p) ==
    /\ s \in Runs /\ s.at = a /\ s.patch = p
    /\ s.merged = r.merged /\ s.entry = r.entry /\ s.new = r.new
    /\ s.plan = r.plan /\ s.watch = r.watch /\ s.mem = r.mem
    /\ s.split = r.split

LEMMA MovedIs ==
    ASSUME NEW r \in Runs, NEW a \in Points, NEW e \in BOOLEAN,
           NEW p \in {"none", "retry", "pause", "resume", "unpause"}
    PROVE  /\ Moved(r, [r EXCEPT !.at = a], a, r.patch)
           /\ Moved(r, [r EXCEPT !.at = a, !.err = e], a, r.patch)
           /\ Moved(r, [r EXCEPT !.at = a, !.again = TRUE], a, r.patch)
           /\ Moved(r, [r EXCEPT !.at = a, !.patch = p], a, p)
BY DEF Runs, Moved

LEMMA FailPhaseIs ==
    ASSUME TypeOK, FailPhase
    PROVE  /\ TypeOK' /\ Keeps /\ run'.mem = run.mem /\ run'.split = run.split
           /\ obj' = obj /\ rec' = rec /\ fails' = fails /\ starts' = starts
           /\ wiped' = wiped /\ faults' = faults
           /\ run'.at = "post" /\ run'.patch = run.patch
<1>1. run \in Runs /\ run' = [run EXCEPT !.at = "post", !.err = TRUE]
  BY DEF FailPhase, TypeOK
<1>2. /\ run' \in Runs /\ run'.at = "post" /\ run'.patch = run.patch
      /\ run'.merged = run.merged /\ run'.entry = run.entry
      /\ run'.new = run.new /\ run'.plan = run.plan
      /\ run'.watch = run.watch /\ run'.mem = run.mem /\ run'.split = run.split
  <2>1. Moved(run, run', "post", run.patch)
    BY <1>1, MovedIs, PointsAre
  <2> QED BY <2>1 DEF Moved
<1>3. TypeOK'
  BY <1>2, TypeParts, TypePartsNext DEF FailPhase
<1> QED BY <1>2, <1>3 DEF FailPhase, Keeps

LEMMA PhaseSkippedIs ==
    ASSUME TypeOK, PhaseSkipped
    PROVE  TypeOK' /\ QuietStep
<1>1. run \in Runs /\ run' = [run EXCEPT !.at = "skipSync"]
  BY DEF PhaseSkipped, TypeOK
<1>2. /\ run' \in Runs /\ run'.at = "skipSync" /\ run'.patch = run.patch
      /\ run'.merged = run.merged /\ run'.entry = run.entry
      /\ run'.new = run.new /\ run'.plan = run.plan
      /\ run'.watch = run.watch /\ run'.mem = run.mem /\ run'.split = run.split
  <2>1. Moved(run, run', "skipSync", run.patch)
    BY <1>1, MovedIs, PointsAre
  <2> QED BY <2>1 DEF Moved
<1>3. run'.err = run.err
  BY <1>1 DEF Runs
<1>4. TypeOK'
  BY <1>2, TypeParts, TypePartsNext DEF PhaseSkipped
<1> QED BY <1>2, <1>3, <1>4 DEF PhaseSkipped, Keeps, QuietStep

LEMMA FlowDoneIs ==
    ASSUME TypeOK, FlowDone
    PROVE  TypeOK' /\ QuietStep
<1>1. run \in Runs /\ run' = EndOfFlow(run)
  BY DEF FlowDone, TypeOK
<1>2. PICK a \in {"cleanSync", "return"} : run' = [run EXCEPT !.at = a]
  BY <1>1, EndOfFlowIs
<1>3. a \in Points
  BY PointsAre
<1>4. /\ run' \in Runs /\ run'.at = a /\ run'.patch = run.patch
      /\ run'.merged = run.merged /\ run'.entry = run.entry
      /\ run'.new = run.new /\ run'.plan = run.plan
      /\ run'.watch = run.watch /\ run'.mem = run.mem /\ run'.split = run.split
  <2>1. Moved(run, run', a, run.patch)
    BY <1>1, <1>2, <1>3, MovedIs
  <2> QED BY <2>1 DEF Moved
<1>5. TypeOK'
  BY <1>4, TypeParts, TypePartsNext DEF FlowDone
<1> QED BY <1>4, <1>5 DEF FlowDone, Keeps, QuietStep

LEMMA ExecuteWorkIs ==
    ASSUME TypeOK, ExecuteWork
    PROVE  TypeOK' /\ QuietStep
<1>0. run.at = "exec" /\ Phase # "EnsureFinalizer"
  BY WorkIsOrdinary DEF ExecuteWork
<1>1. CASE FailPhase
  BY <1>0, <1>1, FailPhaseIs DEF QuietStep
<1>2. CASE ~FailPhase
  <2>1. run \in Runs /\ run' = [run EXCEPT !.at = "post"]
    BY <1>2 DEF ExecuteWork, TypeOK
  <2>2. /\ run' \in Runs /\ run'.at = "post" /\ run'.patch = run.patch
        /\ run'.merged = run.merged /\ run'.entry = run.entry
        /\ run'.new = run.new /\ run'.plan = run.plan
        /\ run'.watch = run.watch /\ run'.mem = run.mem /\ run'.split = run.split
    <3>1. Moved(run, run', "post", run.patch)
      BY <2>1, MovedIs, PointsAre
    <3> QED BY <3>1 DEF Moved
  <2>3. /\ todo' = todo \ {Phase}
        /\ UNCHANGED <<obj, nodes, suspended, capi, queue, rec, wiped, starts,
                       fails, edits, faults>>
    BY <1>2 DEF ExecuteWork
  <2>4. TypeOK'
    BY <2>2, <2>3, TypeParts, TypePartsNext
  <2> QED BY <1>0, <2>2, <2>3, <2>4 DEF Keeps, QuietStep
<1> QED BY <1>1, <1>2

LEMMA ExecutePausedIs ==
    ASSUME TypeOK, ExecutePaused
    PROVE  TypeOK' /\ QuietStep
<1> DEFINE p == IF run.mem.pause THEN "pause" ELSE "resume"
<1>1. run \in Runs /\ run' = [run EXCEPT !.at = "pauseSync", !.patch = p]
      /\ run.at = "exec" /\ Phase # "EnsureFinalizer"
  BY DEF ExecutePaused, TypeOK
<1>2. p \in {"pause", "resume"} /\ "pauseSync" \in Points
  BY PointsAre
<1> HIDE DEF p
<1>3. /\ run' \in Runs /\ run'.at = "pauseSync" /\ run'.patch = p
      /\ run'.merged = run.merged /\ run'.entry = run.entry
      /\ run'.new = run.new /\ run'.plan = run.plan
      /\ run'.watch = run.watch /\ run'.mem = run.mem /\ run'.split = run.split
  <2>1. Moved(run, run', "pauseSync", p)
    BY <1>1, <1>2, MovedIs
  <2> QED BY <2>1 DEF Moved
<1>4. TypeOK'
  BY <1>3, TypeParts, TypePartsNext DEF ExecutePaused
<1> QED BY <1>1, <1>2, <1>3, <1>4 DEF ExecutePaused, Keeps, QuietStep

LEMMA PauseOrResumeIs ==
    ASSUME TypeOK, PauseOrResume
    PROVE  TypeOK' /\ QuietStep
<1>1. \/ run' = [run EXCEPT !.at = "post", !.err = TRUE]
      \/ run' = [run EXCEPT !.at = "post"]
  BY DEF PauseOrResume
<1>2. /\ run' \in Runs /\ run'.at = "post" /\ run'.patch = run.patch
      /\ run'.merged = run.merged /\ run'.entry = run.entry
      /\ run'.new = run.new /\ run'.plan = run.plan
      /\ run'.watch = run.watch /\ run'.mem = run.mem /\ run'.split = run.split
  <2>1. run \in Runs /\ "post" \in Points /\ TRUE \in BOOLEAN
    BY PointsAre DEF TypeOK
  <2>2. /\ Moved(run, [run EXCEPT !.at = "post", !.err = TRUE], "post", run.patch)
        /\ Moved(run, [run EXCEPT !.at = "post"], "post", run.patch)
    BY <2>1, MovedIs
  <2>3. Moved(run, run', "post", run.patch)
    BY <1>1, <2>2
  <2> QED BY <2>3 DEF Moved
<1>3. suspended' \in BOOLEAN /\ capi' \in BOOLEAN
  <2>1. run.mem \in Clusters
    BY RunFields DEF TypeOK
  <2>2. run.mem.pause \in BOOLEAN /\ suspended \in BOOLEAN /\ capi \in BOOLEAN
    BY <2>1 DEF TypeOK, Clusters
  <2> QED BY <2>2 DEF PauseOrResume
<1>4. faults' \in {faults, faults + 1} /\ faults' \in 0..MaxFaults
  BY BoundsAssumption DEF PauseOrResume, TypeOK
<1>5. UNCHANGED <<obj, todo, nodes, queue, rec, wiped, starts, fails, edits>>
      /\ run.at = "suspend"
  BY DEF PauseOrResume
<1>6. TypeOK'
  BY <1>2, <1>3, <1>4, <1>5, TypeParts, TypePartsNext
<1> QED BY <1>2, <1>4, <1>5, <1>6 DEF Keeps, QuietStep

LEMMA ExecuteDryRunIs ==
    ASSUME TypeOK, ExecuteDryRun
    PROVE  TypeOK' /\ QuietStep
<1> DEFINE a == IF run.mem.dryRun THEN "dryRunSync" ELSE "post"
<1>1. run \in Runs /\ run' = [run EXCEPT !.at = a]
      /\ run.at = "exec" /\ Phase # "EnsureFinalizer"
  BY DEF ExecuteDryRun, TypeOK
<1>2. a \in {"dryRunSync", "post"} /\ a \in Points
  BY PointsAre
<1> HIDE DEF a
<1>3. /\ run' \in Runs /\ run'.at = a /\ run'.patch = run.patch
      /\ run'.merged = run.merged /\ run'.entry = run.entry
      /\ run'.new = run.new /\ run'.plan = run.plan
      /\ run'.watch = run.watch /\ run'.mem = run.mem /\ run'.split = run.split
  <2>1. Moved(run, run', a, run.patch)
    BY <1>1, <1>2, MovedIs
  <2> QED BY <2>1 DEF Moved
<1>4. TypeOK'
  BY <1>3, TypeParts, TypePartsNext DEF ExecuteDryRun
<1> QED BY <1>1, <1>2, <1>3, <1>4 DEF ExecuteDryRun, Keeps, QuietStep

LEMMA CheckDryRunIs ==
    ASSUME TypeOK, CheckDryRun
    PROVE  TypeOK' /\ QuietStep
<1>1. CASE FailPhase
  BY <1>1, FailPhaseIs DEF QuietStep, CheckDryRun
<1>2. CASE ~FailPhase
  <2>1. run \in Runs /\ run' = [run EXCEPT !.at = "post"]
    BY <1>2 DEF CheckDryRun, TypeOK
  <2>2. /\ run' \in Runs /\ run'.at = "post" /\ run'.patch = run.patch
        /\ run'.merged = run.merged /\ run'.entry = run.entry
        /\ run'.new = run.new /\ run'.plan = run.plan
        /\ run'.watch = run.watch /\ run'.mem = run.mem /\ run'.split = run.split
    <3>1. Moved(run, run', "post", run.patch)
      BY <2>1, MovedIs, PointsAre
    <3> QED BY <3>1 DEF Moved
  <2>3. UNCHANGED <<obj, todo, nodes, suspended, capi, queue, rec, wiped,
                    starts, fails, edits, faults>> /\ run.at = "dryRun"
    BY <1>2 DEF CheckDryRun
  <2>4. TypeOK'
    BY <2>2, <2>3, TypeParts, TypePartsNext
  <2> QED BY <2>2, <2>3, <2>4 DEF Keeps, QuietStep
<1> QED BY <1>1, <1>2

\* The run s differs from r in where it is, its memory and again only.
Changed(r, s, a, m) ==
    /\ s \in Runs /\ s.at = a /\ s.mem = m /\ s.patch = r.patch
    /\ s.merged = r.merged /\ s.entry = r.entry /\ s.new = r.new
    /\ s.plan = r.plan /\ s.watch = r.watch /\ s.split = r.split
    /\ s.err = r.err

LEMMA ChangedIs ==
    ASSUME NEW r \in Runs, NEW a \in Points, NEW m \in Clusters
    PROVE  /\ Changed(r, [r EXCEPT !.at = a, !.mem = m], a, m)
           /\ Changed(r, [r EXCEPT !.at = a, !.again = TRUE, !.mem = m], a, m)
BY DEF Runs, Changed

LEMMA ChangedKeeps ==
    ASSUME NEW a, NEW m, Changed(run, run', a, m)
    PROVE  /\ Keeps /\ run' \in Runs /\ run'.at = a /\ run'.mem = m
           /\ run'.patch = run.patch /\ run'.split = run.split
           /\ run'.err = run.err
BY DEF Changed, Keeps

LEMMA ExecuteFinalizerIs ==
    ASSUME TypeOK, ExecuteFinalizer
    PROVE  TypeOK' /\ ChangeStep
<1> DEFINE m == [run.mem EXCEPT !.fin = TRUE]
<1>1. /\ run \in Runs /\ run.mem \in Clusters /\ "post" \in Points
      /\ run.at = "exec" /\ Phase = "EnsureFinalizer"
  BY RunFields, PointsAre DEF TypeOK, ExecuteFinalizer
<1>2. run' = [run EXCEPT !.at = "post", !.mem = m]
  BY DEF ExecuteFinalizer
<1>3. /\ m \in Clusters /\ m.fin /\ m.status = run.mem.status
      /\ m.pause = run.mem.pause /\ m.deleting = run.mem.deleting
      /\ m.record = run.mem.record
  BY <1>1 DEF Clusters
<1> HIDE DEF m
<1>4. Changed(run, run', "post", m)
  BY <1>1, <1>2, <1>3, ChangedIs
<1>5. /\ Keeps /\ run' \in Runs /\ run'.at = "post" /\ run'.mem = m
      /\ run'.patch = run.patch /\ run'.split = run.split
      /\ run'.err = run.err
  BY <1>4, ChangedKeeps
<1>6. TypeOK'
  BY <1>5, TypeParts, TypePartsNext DEF ExecuteFinalizer
<1> QED BY <1>1, <1>3, <1>5, <1>6 DEF ExecuteFinalizer, ChangeStep

LEMMA ExecuteDeleteIs ==
    ASSUME TypeOK, ExecuteDelete
    PROVE  TypeOK' /\ (QuietStep \/ ChangeStep)
<1>1. /\ run \in Runs /\ run.mem \in Clusters
      /\ {"unpauseSync", "deletingSync"} \subseteq Points
      /\ run.at = "exec" /\ Phase = "EnsureDeleteOrReset"
  BY RunFields, PointsAre DEF TypeOK, ExecuteDelete
<1>2. UNCHANGED <<obj, todo, nodes, suspended, capi, queue, rec, wiped,
                  starts, fails, edits, faults>>
  BY DEF ExecuteDelete
<1>3. CASE run.mem.pause
  <2>1. run' = [run EXCEPT !.at = "unpauseSync", !.patch = "unpause"]
    BY <1>3 DEF ExecuteDelete
  <2>2. Moved(run, run', "unpauseSync", "unpause")
    BY <1>1, <2>1, MovedIs
  <2>3. /\ Keeps /\ run' \in Runs /\ run'.at = "unpauseSync"
        /\ run'.patch = "unpause" /\ run'.mem = run.mem
        /\ run'.split = run.split
    BY <2>2 DEF Moved, Keeps
  <2>4. TypeOK'
    BY <1>2, <2>3, TypeParts, TypePartsNext
  <2>5. QuietStep
    BY <1>1, <1>2, <2>3 DEF QuietStep
  <2> QED BY <2>4, <2>5
<1>4. CASE ~run.mem.pause
  <2> DEFINE m == [run.mem EXCEPT !.status = "Deleting"]
  <2>1. run' = [run EXCEPT !.at = "deletingSync", !.mem = m]
    BY <1>4 DEF ExecuteDelete
  <2>2. "Deleting" \in Statuses
    BY FailuresAre
  <2>3. /\ m \in Clusters /\ m.status = "Deleting" /\ m.fin = run.mem.fin
        /\ m.pause = run.mem.pause /\ m.deleting = run.mem.deleting
        /\ m.record = run.mem.record
    BY <1>1, <2>2 DEF Clusters
  <2> HIDE DEF m
  <2>4. Changed(run, run', "deletingSync", m)
    BY <1>1, <2>1, <2>3, ChangedIs
  <2>5. /\ Keeps /\ run' \in Runs /\ run'.at = "deletingSync" /\ run'.mem = m
        /\ run'.patch = run.patch /\ run'.split = run.split
        /\ run'.err = run.err
    BY <2>4, ChangedKeeps
  <2>6. TypeOK'
    BY <1>2, <2>5, TypeParts, TypePartsNext
  <2>7. ChangeStep
    BY <1>1, <1>2, <2>3, <2>5 DEF ChangeStep
  <2> QED BY <2>6, <2>7
<1> QED BY <1>3, <1>4

LEMMA RemoveCommandsIs ==
    ASSUME TypeOK, RemoveCommands
    PROVE  TypeOK' /\ (QuietStep \/ ReadStep)
<1>1. /\ run \in Runs /\ obj \in Clusters /\ "post" \in Points
      /\ run.at = "clear" /\ TRUE \in BOOLEAN
  BY PointsAre DEF TypeOK, RemoveCommands
<1>2. UNCHANGED <<obj, todo, nodes, capi, queue, rec, wiped, starts, fails,
                  edits, faults>>
  BY DEF RemoveCommands
<1>3. CASE ~obj.exists
  <2>1. /\ run' = [run EXCEPT !.at = "post", !.err = TRUE]
        /\ suspended' = suspended
    BY <1>3 DEF RemoveCommands
  <2>2. Moved(run, run', "post", run.patch)
    BY <1>1, <2>1, MovedIs
  <2>3. /\ Keeps /\ run' \in Runs /\ run'.at = "post"
        /\ run'.patch = run.patch /\ run'.mem = run.mem
        /\ run'.split = run.split
    BY <2>2 DEF Moved, Keeps
  <2>4. TypeOK'
    BY <1>2, <2>1, <2>3, TypeParts, TypePartsNext
  <2>5. QuietStep
    BY <1>1, <1>2, <2>3 DEF QuietStep
  <2> QED BY <2>4, <2>5
<1>4. CASE obj.exists
  <2>1. /\ run' = [run EXCEPT !.at = "post", !.again = TRUE, !.mem = obj]
        /\ suspended' = FALSE
    BY <1>4 DEF RemoveCommands
  <2>2. Changed(run, run', "post", obj)
    BY <1>1, <2>1, ChangedIs
  <2>3. /\ Keeps /\ run' \in Runs /\ run'.at = "post" /\ run'.mem = obj
        /\ run'.patch = run.patch /\ run'.split = run.split
        /\ run'.err = run.err
    BY <2>2, ChangedKeeps
  <2>4. TypeOK'
    BY <1>2, <2>1, <2>3, TypeParts, TypePartsNext
  <2>5. ReadStep
    BY <1>1, <1>2, <1>4, <2>3 DEF ReadStep
  <2> QED BY <2>4, <2>5
<1> QED BY <1>3, <1>4

LEMMA WipeIs ==
    ASSUME TypeOK, Wipe
    PROVE  TypeOK' /\ (QuietStep \/ ChangeStep)
<1>0. run.at = "wipe"
  BY DEF Wipe
<1>1. CASE FailPhase
  <2>1. QuietStep
    BY <1>0, <1>1, FailPhaseIs DEF QuietStep
  <2> QED BY <1>1, <2>1, FailPhaseIs
<1>2. CASE ~FailPhase
  <2> DEFINE m == [run.mem EXCEPT !.fin = FALSE]
  <2>1. /\ run \in Runs /\ run.mem \in Clusters /\ "eraseSync" \in Points
    BY RunFields, PointsAre DEF TypeOK
  <2>2. run' = [run EXCEPT !.at = "eraseSync", !.mem = m]
    BY <1>2 DEF Wipe
  <2>3. /\ todo' = {} /\ wiped' = TRUE
        /\ UNCHANGED <<obj, nodes, suspended, capi, queue, rec, starts,
                       fails, edits, faults>>
    BY <1>2 DEF Wipe
  <2>4. /\ m \in Clusters /\ m.status = run.mem.status
        /\ m.pause = run.mem.pause /\ m.deleting = run.mem.deleting
        /\ m.record = run.mem.record
    BY <2>1 DEF Clusters
  <2> HIDE DEF m
  <2>5. Changed(run, run', "eraseSync", m)
    BY <2>1, <2>2, <2>4, ChangedIs
  <2>6. /\ Keeps /\ run' \in Runs /\ run'.at = "eraseSync" /\ run'.mem = m
        /\ run'.patch = run.patch /\ run'.split = run.split
        /\ run'.err = run.err
    BY <2>5, ChangedKeeps
  <2>7. TypeOK'
    BY <2>3, <2>6, TypeParts, TypePartsNext
  <2>8. ChangeStep
    BY <1>0, <2>3, <2>4, <2>6 DEF ChangeStep
  <2> QED BY <2>7, <2>8
<1> QED BY <1>1, <1>2

\* A status and a health that EnsureCluster reports.
LEMMA ReportIs ==
    ASSUME TypeOK, NEW a \in Points, NEW s \in Statuses, NEW h \in Healths,
           run' = [run EXCEPT !.at = a, !.again = TRUE, !.mem.status = s,
                              !.mem.health = h]
    PROVE  /\ Keeps /\ run'.at = a /\ run'.patch = run.patch
           /\ run'.split = run.split /\ run'.err = run.err
           /\ run'.mem.status = s /\ run'.mem.fin = run.mem.fin
           /\ run'.mem.pause = run.mem.pause
           /\ run'.mem.record = run.mem.record
           /\ run'.mem.deleting = run.mem.deleting
<1> DEFINE m == [run.mem EXCEPT !.status = s, !.health = h]
<1>1. run \in Runs /\ run.mem \in Clusters
  BY RunFields DEF TypeOK
<1>2. run' = [run EXCEPT !.at = a, !.again = TRUE, !.mem = m]
  BY <1>1 DEF Runs
<1>3. /\ m \in Clusters /\ m.status = s /\ m.fin = run.mem.fin
      /\ m.pause = run.mem.pause /\ m.deleting = run.mem.deleting
      /\ m.record = run.mem.record
  BY <1>1 DEF Clusters
<1> HIDE DEF m
<1>4. Changed(run, run', a, m)
  BY <1>1, <1>2, <1>3, ChangedIs
<1> QED BY <1>3, <1>4, ChangedKeeps, ZenonT(30)

LEMMA ExecuteClusterIs ==
    ASSUME TypeOK, ExecuteCluster
    PROVE  TypeOK' /\ (QuietStep \/ ChangeStep)
<1>1. /\ run \in Runs /\ {"post", "readySync"} \subseteq Points
      /\ run.at = "exec" /\ Phase # "EnsureFinalizer"
      /\ {"Unhealthy", "Ready"} \subseteq Statuses
      /\ {"Unhealthy", "Healthy"} \subseteq Healths
  BY RunFields, PointsAre, FailuresAre DEF TypeOK, ExecuteCluster, Healths
<1>2. UNCHANGED <<obj, todo, nodes, suspended, capi, queue, rec, wiped,
                  starts, fails, edits, faults>>
  BY DEF ExecuteCluster
<1>3. \/ run' = [run EXCEPT !.at = "post", !.err = TRUE]
      \/ run' = [run EXCEPT !.at = "post", !.again = TRUE]
      \/ run' = Unhealthy
      \/ run' = [run EXCEPT !.at = "readySync", !.again = TRUE,
                            !.mem.status = "Ready", !.mem.health = "Healthy"]
  BY DEF ExecuteCluster
<1>4. CASE \/ run' = [run EXCEPT !.at = "post", !.err = TRUE]
           \/ run' = [run EXCEPT !.at = "post", !.again = TRUE]
  <2>1. TRUE \in BOOLEAN
    OBVIOUS
  <2>2. /\ Moved(run, [run EXCEPT !.at = "post", !.err = TRUE], "post", run.patch)
        /\ Moved(run, [run EXCEPT !.at = "post", !.again = TRUE], "post", run.patch)
    BY <1>1, <2>1, MovedIs
  <2>3. Moved(run, run', "post", run.patch)
    BY <1>4, <2>2
  <2>4. /\ Keeps /\ run' \in Runs /\ run'.at = "post"
        /\ run'.patch = run.patch /\ run'.mem = run.mem
        /\ run'.split = run.split
    BY <2>3 DEF Moved, Keeps
  <2>5. TypeOK'
    BY <1>2, <2>4, TypeParts, TypePartsNext
  <2>6. QuietStep
    BY <1>1, <1>2, <2>4 DEF QuietStep
  <2> QED BY <2>5, <2>6
<1>5. ASSUME NEW a \in {"post", "readySync"},
             NEW s \in {"Unhealthy", "Ready"}, NEW h \in {"Unhealthy", "Healthy"},
             run' = [run EXCEPT !.at = a, !.again = TRUE, !.mem.status = s,
                                !.mem.health = h]
      PROVE  TypeOK' /\ ChangeStep
  <2>1. /\ Keeps /\ run'.at = a /\ run'.patch = run.patch
        /\ run'.split = run.split /\ run'.err = run.err
        /\ run'.mem.status = s /\ run'.mem.fin = run.mem.fin
        /\ run'.mem.pause = run.mem.pause
        /\ run'.mem.record = run.mem.record
        /\ run'.mem.deleting = run.mem.deleting
    BY <1>1, <1>5, ReportIs
  <2>2. TypeOK'
    BY <1>2, <2>1, TypeParts, TypePartsNext DEF Keeps
  <2>3. ChangeStep
    BY <1>1, <1>2, <2>1 DEF ChangeStep
  <2> QED BY <2>2, <2>3
<1> QED BY <1>3, <1>4, <1>5 DEF Unhealthy

LEMMA RecheckIs ==
    ASSUME TypeOK, Recheck
    PROVE  TypeOK' /\ (QuietStep \/ ChangeStep)
<1>1. /\ run \in Runs /\ "post" \in Points /\ run.at = "recheck"
      /\ "Unhealthy" \in Statuses /\ "Unhealthy" \in Healths
  BY RunFields, PointsAre, FailuresAre DEF TypeOK, Recheck, Healths
<1>2. UNCHANGED <<obj, todo, nodes, suspended, capi, queue, rec, wiped,
                  starts, fails, edits, faults>>
  BY DEF Recheck
<1>3. CASE run' = [run EXCEPT !.at = "post"]
  <2>1. Moved(run, run', "post", run.patch)
    BY <1>1, <1>3, MovedIs
  <2>2. /\ Keeps /\ run' \in Runs /\ run'.at = "post"
        /\ run'.patch = run.patch /\ run'.mem = run.mem
        /\ run'.split = run.split
    BY <2>1 DEF Moved, Keeps
  <2>3. TypeOK'
    BY <1>2, <2>2, TypeParts, TypePartsNext
  <2>4. QuietStep
    BY <1>1, <1>2, <2>2 DEF QuietStep
  <2> QED BY <2>3, <2>4
<1>4. CASE run' = Unhealthy
  <2>1. /\ Keeps /\ run'.at = "post" /\ run'.patch = run.patch
        /\ run'.split = run.split /\ run'.err = run.err
        /\ run'.mem.status = "Unhealthy" /\ run'.mem.fin = run.mem.fin
        /\ run'.mem.pause = run.mem.pause
        /\ run'.mem.record = run.mem.record
        /\ run'.mem.deleting = run.mem.deleting
    BY <1>1, <1>4, ReportIs DEF Unhealthy
  <2>2. TypeOK'
    BY <1>2, <2>1, TypeParts, TypePartsNext DEF Keeps
  <2>3. ChangeStep
    BY <1>1, <1>2, <2>1 DEF ChangeStep
  <2> QED BY <2>2, <2>3
<1> QED BY <1>3, <1>4 DEF Recheck

LEMMA ExecutePreHookIs ==
    ASSUME TypeOK, ExecutePreHook
    PROVE  TypeOK' /\ (QuietStep \/ ReadStep)
<1>1. /\ run \in Runs /\ obj \in Clusters /\ run.at = "decide"
      /\ run.plan # {} /\ run.plan \in SUBSET FullPhases
      /\ NeedExecute(Phase, run.new)
      /\ {"preSync", "cleanSync", "return"} \subseteq Points
  BY RunFields, PointsAre DEF TypeOK, ExecutePreHook
<1>2. UNCHANGED <<obj, todo, nodes, suspended, capi, queue, rec, wiped,
                  fails, edits, faults>>
  BY DEF ExecutePreHook
<1>3. CASE ~obj.exists
  <2> DEFINE r == [run EXCEPT !.err = TRUE]
  <2>1. run' = EndOfFlow(r) /\ starts' = starts
    BY <1>3 DEF ExecutePreHook
  <2>2. r \in Runs
    BY <1>1 DEF Runs
  <2>3. PICK a \in {"cleanSync", "return"} : run' = [r EXCEPT !.at = a]
    BY <2>1, <2>2, EndOfFlowIs
  <2>4. /\ Keeps /\ run' \in Runs /\ run'.at = a
        /\ run'.patch = run.patch /\ run'.mem = run.mem
        /\ run'.split = run.split
    <3>1. run' = [run EXCEPT !.err = TRUE, !.at = a] /\ a \in Points
      BY <1>1, <2>3
    <3> QED BY <1>1, <3>1 DEF Runs, Keeps
  <2>5. TypeOK'
    BY <1>2, <2>1, <2>4, TypeParts, TypePartsNext
  <2>6. QuietStep
    BY <1>1, <1>2, <2>1, <2>4 DEF QuietStep
  <2> QED BY <2>5, <2>6
<1>4. CASE obj.exists
  <2> DEFINE s == IF Phase = "EnsureCluster" THEN "Checking"
                  ELSE ClassStatus[PhaseClass[Phase]][1]
             m == [obj EXCEPT !.status = s]
  <2>1. /\ run' = [run EXCEPT !.at = "preSync", !.split = TRUE, !.mem = m]
        /\ starts' = IF Phase \in Work THEN starts + 1 ELSE starts
    BY <1>4 DEF ExecutePreHook
  <2>2. s \in Statuses \ Failures
    <3>1. Phase \in FullPhases
      BY <1>1, FirstIs DEF Phase
    <3> QED BY <3>1, PhaseStatus, FailuresAre
  <2> HIDE DEF s
  <2>3. /\ m \in Clusters /\ m.status = s /\ m.fin = obj.fin
        /\ m.pause = obj.pause /\ m.deleting = obj.deleting
        /\ m.record = obj.record
    BY <1>1, <2>2 DEF Clusters
  <2> HIDE DEF m
  <2>4. /\ run' \in Runs /\ run'.at = "preSync" /\ run'.mem = m
        /\ run'.patch = run.patch /\ run'.split /\ run'.err = run.err
        /\ Keeps
    BY <1>1, <2>1, <2>3 DEF Runs, Keeps
  <2>5. starts' \in Nat
    BY <2>1 DEF TypeOK
  <2>6. TypeOK'
    BY <1>2, <2>4, <2>5, TypeParts, TypePartsNext
  <2>7. ReadStep
    BY <1>1, <1>2, <1>4, <2>1, <2>2, <2>3, <2>4 DEF ReadStep
  <2> QED BY <2>6, <2>7
<1> QED BY <1>3, <1>4

LEMMA ExecutePostHookIs ==
    ASSUME TypeOK, run.plan # {}, ExecutePostHook
    PROVE  TypeOK' /\ PostStep
<1> DEFINE s == IF Phase = "EnsureCluster" THEN run.mem.status
                ELSE ClassStatus[PhaseClass[Phase]][IF run.err THEN 2 ELSE 1]
           b == s # "Unknown"
           m == [run.mem EXCEPT !.status = s, !.record = b]
<1>1. /\ run \in Runs /\ run.at = "post" /\ run.mem \in Clusters
      /\ run.plan \in SUBSET FullPhases /\ "postSync" \in Points
      /\ run.mem.status \in Statuses /\ run.err \in BOOLEAN
  BY RunFields, PointsAre DEF TypeOK, ExecutePostHook, Clusters
<1>2. UNCHANGED <<obj, todo, nodes, suspended, capi, queue, rec, wiped,
                  starts, edits, faults>>
  BY DEF ExecutePostHook
<1>3. /\ run' = [run EXCEPT !.at = "postSync", !.mem.status = s,
                            !.mem.record = b]
      /\ fails' = IF IsFailed(s) THEN [fails EXCEPT ![s] = @ + 1] ELSE fails
  BY DEF ExecutePostHook
<1>4. Phase \in FullPhases
  BY <1>1, FirstIs DEF Phase
<1>5. /\ s \in Statuses
      /\ IsFailed(s) =>
            run.err \/ (Phase = "EnsureCluster" /\ IsFailed(run.mem.status))
  <2>1. CASE Phase = "EnsureCluster"
    BY <1>1, <2>1
  <2>2. CASE Phase # "EnsureCluster" /\ run.err
    BY <1>4, <2>2, PhaseStatus, FailuresAre
  <2>3. CASE Phase # "EnsureCluster" /\ ~run.err
    BY <1>4, <2>3, PhaseStatus DEF IsFailed
  <2> QED BY <1>1, <2>1, <2>2, <2>3
<1>6. b \in BOOLEAN /\ b = (s # "Unknown")
  OBVIOUS
<1> HIDE DEF s, b
<1>7. run' = [run EXCEPT !.at = "postSync", !.mem = m]
  BY <1>1, <1>3 DEF Runs, Clusters
<1>8. /\ m \in Clusters /\ m.status = s /\ m.fin = run.mem.fin
      /\ m.pause = run.mem.pause /\ m.deleting = run.mem.deleting
      /\ m.record = b
  BY <1>1, <1>5, <1>6 DEF Clusters
<1> HIDE DEF m
<1>9. Changed(run, run', "postSync", m)
  BY <1>1, <1>7, <1>8, ChangedIs
<1>10. /\ Keeps /\ run' \in Runs /\ run'.at = "postSync" /\ run'.mem = m
       /\ run'.patch = run.patch /\ run'.split = run.split
       /\ run'.err = run.err
  BY <1>9, ChangedKeeps
<1>11. fails' \in [Failures -> Nat]
  <2>1. fails \in [Failures -> Nat]
    BY DEF TypeOK
  <2>2. IsFailed(s) => s \in Failures /\ fails[s] + 1 \in Nat
    BY <2>1 DEF IsFailed
  <2> QED BY <1>3, <2>1, <2>2
<1>12. TypeOK'
  BY <1>2, <1>10, <1>11, TypeParts, TypePartsNext
<1>13. PostStep
  <2>1. /\ run'.mem.status = s /\ run'.mem.pause = run.mem.pause
        /\ run'.mem.deleting = run.mem.deleting
        /\ run'.mem.fin = run.mem.fin
    BY <1>8, <1>10
  <2>2. run'.mem.record = (run'.mem.status # "Unknown")
    BY <1>6, <1>8, <1>10, <2>1
  <2>3. fails' = IF IsFailed(run'.mem.status)
                 THEN [fails EXCEPT ![run'.mem.status] = @ + 1] ELSE fails
    BY <1>3, <2>1
  <2>4. IsFailed(run'.mem.status) =>
           run.err \/ (Phase = "EnsureCluster" /\ IsFailed(run.mem.status))
    BY <1>5, <2>1
  <2> QED BY <1>1, <1>2, <1>10, <2>1, <2>2, <2>3, <2>4 DEF PostStep
<1> QED BY <1>12, <1>13

LEMMA NotifyInterventionIs ==
    ASSUME TypeOK, NotifyIntervention
    PROVE  TypeOK' /\ (QuietStep \/ NoteStep)
<1>1. /\ run \in Runs /\ run.at = "return" /\ run.entry \in Clusters
      /\ {"noteSync", "finish"} \subseteq Points
  BY RunFields, PointsAre DEF TypeOK, NotifyIntervention
<1>2. UNCHANGED <<obj, todo, nodes, suspended, capi, queue, rec, wiped,
                  starts, fails, edits, faults>>
  BY DEF NotifyIntervention
<1>3. CASE IsFailed(run.entry.status) /\ ~run.entry.note
  <2> DEFINE m == [run.entry EXCEPT !.note = TRUE]
  <2>1. run' = [run EXCEPT !.at = "noteSync", !.mem = m]
    BY <1>3 DEF NotifyIntervention
  <2>2. /\ m \in Clusters /\ m.status = run.entry.status
        /\ m.fin = run.entry.fin /\ m.deleting = run.entry.deleting
        /\ m.record = run.entry.record
    BY <1>1 DEF Clusters
  <2> HIDE DEF m
  <2>3. Changed(run, run', "noteSync", m)
    BY <1>1, <2>1, <2>2, ChangedIs
  <2>4. /\ Keeps /\ run' \in Runs /\ run'.at = "noteSync" /\ run'.mem = m
        /\ run'.patch = run.patch /\ run'.split = run.split
        /\ run'.err = run.err
    BY <2>3, ChangedKeeps
  <2>5. TypeOK'
    BY <1>2, <2>4, TypeParts, TypePartsNext
  <2>6. NoteStep
    BY <1>1, <1>2, <1>3, <2>2, <2>4 DEF NoteStep
  <2> QED BY <2>5, <2>6
<1>4. CASE ~(IsFailed(run.entry.status) /\ ~run.entry.note)
  <2>1. run' = [run EXCEPT !.at = "finish"]
    BY <1>4 DEF NotifyIntervention
  <2>2. Moved(run, run', "finish", run.patch)
    BY <1>1, <2>1, MovedIs
  <2>3. /\ Keeps /\ run' \in Runs /\ run'.at = "finish"
        /\ run'.patch = run.patch /\ run'.mem = run.mem
        /\ run'.split = run.split
    BY <2>2 DEF Moved, Keeps
  <2>4. TypeOK'
    BY <1>2, <2>3, TypeParts, TypePartsNext
  <2>5. QuietStep
    BY <1>1, <1>2, <2>3 DEF QuietStep
  <2> QED BY <2>4, <2>5
<1> QED BY <1>3, <1>4

LEMMA CalculatePhaseIs ==
    ASSUME TypeOK, CalculatePhase
    PROVE  TypeOK' /\ PlanStep
<1> DEFINE Needed(p) == ~SkipLegacyUpgrade(p) /\ NeedExecute(p, run.mem)
           flow == IF run.mem.deleting THEN DeletePhases ELSE FullPhases
           q == {p \in flow : Needed(p)}
           l == run.mem.deleting /\ ~Needed("EnsurePaused")
<1>1. run \in Runs /\ run.mem \in Clusters /\ "decide" \in Points
      /\ run.at = "plan"
  BY RunFields, PointsAre DEF TypeOK, CalculatePhase
<1>2. run' = [run EXCEPT !.at = "decide", !.new = run.mem, !.plan = q,
                         !.left = l, !.watch = TRUE]
  BY Zenon DEF CalculatePhase
<1>3. UNCHANGED <<obj, todo, nodes, suspended, capi, queue, rec, wiped,
                  starts, fails, edits, faults>>
  BY DEF CalculatePhase
<1>4. q \in SUBSET FullPhases /\ l \in BOOLEAN
  BY <1>1 DEF DeletePhases, FullPhases, Clusters
<1>5. "EnsureFinalizer" \in q <=> ~run.mem.deleting /\ ~run.mem.fin
  <2>1. NeedExecute("EnsureFinalizer", run.mem) <=> ~run.mem.fin
    BY WorkIsOrdinary DEF NeedExecute
  <2>2. ~SkipLegacyUpgrade("EnsureFinalizer")
    BY DEF SkipLegacyUpgrade, PhaseClass
  <2>3. "EnsureFinalizer" \in FullPhases /\ "EnsureFinalizer" \notin DeletePhases
    BY DEF FullPhases, DeletePhases
  <2> QED BY <2>1, <2>2, <2>3
<1> HIDE DEF q, l
<1>6. /\ run' \in Runs /\ run'.at = "decide" /\ run'.mem = run.mem
      /\ run'.new = run.mem /\ run'.entry = run.entry
      /\ run'.patch = run.patch /\ run'.merged = run.merged
      /\ run'.split = run.split /\ run'.plan = q /\ run'.err = run.err
  BY <1>1, <1>2, <1>4 DEF Runs
<1>7. TypeOK'
  BY <1>3, <1>6, TypeParts, TypePartsNext
<1>8. PlanStep
  BY <1>1, <1>3, <1>5, <1>6 DEF PlanStep
<1> QED BY <1>7, <1>8

LEMMA BeginStepIs ==
    ASSUME TypeOK, Begin
    PROVE  TypeOK' /\ (BeginStep \/ UNCHANGED <<obj, run, rec, wiped, starts,
                                                fails, faults>>)
<1>1. UNCHANGED <<obj, todo, nodes, suspended, capi, wiped, starts, fails,
                  edits, faults>> /\ queue' = FALSE
  BY DEF Begin
<1>2. CASE ~obj.exists
  <2>1. run' = run /\ rec' = rec
    BY <1>2 DEF Begin
  <2>2. TypeOK'
    BY <1>1, <2>1, TypeParts, TypePartsNext
  <2> QED BY <1>1, <2>1, <2>2
<1>3. CASE obj.exists
  <2>1. /\ run'.at \in {"initSync", "plan"}
        /\ run'.patch = IF obj.retry THEN "retry" ELSE "none"
        /\ obj.retry => run'.at = "initSync"
        /\ run'.mem = SetHealth(obj) /\ run'.entry = SetHealth(obj)
        /\ run' \in Runs
        /\ run'.new = NewCluster /\ run'.plan = {}
        /\ ~run'.merged /\ ~run'.split /\ ~run'.watch /\ ~run'.err
        /\ rec' = IF obj.retry THEN EmptyRecord ELSE rec
    BY <1>3, BeginIs
  <2>2. obj \in Clusters /\ run.at = "idle" /\ rec \in Records
    BY TypeParts DEF Begin
  <2>3. TypeOK'
    BY <1>1, <2>1, <2>2, EmptyRecordType, TypeParts, TypePartsNext
  <2>4. BeginStep
    BY <1>1, <1>3, <2>1, <2>2, SetHealthIs DEF BeginStep
  <2> QED BY <2>3, <2>4
<1> QED BY <1>2, <1>3

LEMMA FinishIs ==
    ASSUME TypeOK, Finish
    PROVE  TypeOK' /\ IdleStep
<1>1. queue' \in BOOLEAN
  <2>1. queue \in BOOLEAN /\ rec.requeue \in BOOLEAN /\ run.again \in BOOLEAN
        /\ obj.exists \in BOOLEAN
    BY TypeParts, RunFields DEF Records, Clusters
  <2> DEFINE more == IF run.err THEN ~IsFailed(run.entry.status)
                     ELSE obj.exists /\ (\/ run.again
                                         \/ /\ obj.status # "Paused"
                                            /\ rec.requeue)
  <2>2. queue' = (queue \/ more)
    BY DEF Finish
  <2> QED BY <2>1, <2>2
<1>2. run' = Idle /\ UNCHANGED <<obj, todo, nodes, suspended, capi, rec,
                                 wiped, starts, fails, edits, faults>>
  BY DEF Finish
<1>3. TypeOK'
  BY <1>1, <1>2, IdleType, TypeParts, TypePartsNext
<1> QED BY <1>2, <1>3 DEF IdleStep

LEMMA CrashIs ==
    ASSUME TypeOK, Crash
    PROVE  TypeOK' /\ IdleStep
<1>1. faults' = faults + 1 /\ faults' \in 0 .. MaxFaults
  BY BoundsAssumption DEF Crash, TypeOK
<1>2. /\ run' = Idle /\ rec' = EmptyRecord /\ queue' = TRUE
      /\ UNCHANGED <<obj, todo, nodes, suspended, capi, wiped, starts, fails,
                     edits>>
  BY DEF Crash
<1>3. TypeOK'
  BY <1>1, <1>2, IdleType, EmptyRecordType, TypeParts, TypePartsNext
<1> QED BY <1>1, <1>2, <1>3 DEF IdleStep

LEMMA TriggersType ==
    ASSUME NEW old \in Clusters, NEW new \in Clusters
    PROVE  Triggers(old, new) \in BOOLEAN
BY Zenon DEF Triggers

LEMMA UserIs ==
    ASSUME TypeOK, User
    PROVE  TypeOK' /\ UserStep
<1>0. obj \in Clusters /\ queue \in BOOLEAN /\ edits \in 0 .. MaxEdits
  BY TypeParts
<1>1. ASSUME NEW c \in Clusters, Edit(c), starts' \in Nat
      PROVE  TypeOK'
  <2>1. /\ edits < MaxEdits /\ edits' = edits + 1 /\ obj' = c
        /\ queue' = (queue \/ Triggers(obj, c))
        /\ UNCHANGED <<todo, nodes, suspended, capi, run, rec, wiped, fails,
                       faults>>
    BY <1>1 DEF Edit
  <2>2. edits' \in 0 .. MaxEdits
    BY <1>0, <2>1, BoundsAssumption
  <2>3. queue' \in BOOLEAN
    BY <2>1
  <2> QED BY <1>1, <2>1, <2>2, <2>3, TypeParts, TypePartsNext
<1>2. ASSUME NEW b \in BOOLEAN, SetPause(b) PROVE TypeOK' /\ UserStep
  <2> DEFINE c == [obj EXCEPT !.pause = b]
  <2>1. Edit(c) /\ starts' = 0
    BY <1>2 DEF SetPause
  <2>2. /\ c \in Clusters /\ c.record = obj.record /\ c.status = obj.status
        /\ c.fin = obj.fin /\ c.deleting = obj.deleting
        /\ c.exists = obj.exists
    BY <1>0 DEF Clusters
  <2> HIDE DEF c
  <2>3. TypeOK'
    BY <1>1, <2>1, <2>2
  <2> QED BY <2>1, <2>2, <2>3 DEF Edit, UserStep
<1>3. ASSUME NEW b \in BOOLEAN, SetDryRun(b) PROVE TypeOK' /\ UserStep
  <2> DEFINE c == [obj EXCEPT !.dryRun = b]
  <2>1. Edit(c) /\ starts' = starts
    BY <1>3 DEF SetDryRun
  <2>2. /\ c \in Clusters /\ c.record = obj.record /\ c.status = obj.status
        /\ c.fin = obj.fin /\ c.deleting = obj.deleting
        /\ c.exists = obj.exists /\ c.pause = obj.pause
    BY <1>0 DEF Clusters
  <2> HIDE DEF c
  <2>3. TypeOK'
    BY <1>1, <2>1, <2>2, TypeParts
  <2> QED BY <2>1, <2>2, <2>3 DEF Edit, UserStep
<1>4. ASSUME AskRetry PROVE TypeOK' /\ UserStep
  <2> DEFINE c == [obj EXCEPT !.retry = TRUE]
  <2>1. Edit(c) /\ starts' = starts
    BY <1>4 DEF AskRetry
  <2>2. /\ c \in Clusters /\ c.record = obj.record /\ c.status = obj.status
        /\ c.fin = obj.fin /\ c.deleting = obj.deleting
        /\ c.exists = obj.exists /\ c.pause = obj.pause
    BY <1>0 DEF Clusters
  <2> HIDE DEF c
  <2>3. TypeOK'
    BY <1>1, <2>1, <2>2, TypeParts
  <2> QED BY <2>1, <2>2, <2>3 DEF Edit, UserStep
<1>5. ASSUME DeleteCluster PROVE TypeOK' /\ UserStep
  <2> DEFINE c == [obj EXCEPT !.deleting = TRUE, !.exists = obj.fin]
  <2>1. Edit(c) /\ starts' = 0 /\ obj.exists
    BY <1>5 DEF DeleteCluster, Edit
  <2>2. /\ c \in Clusters /\ c.record = obj.record /\ c.status = obj.status
        /\ c.fin = obj.fin /\ c.deleting /\ c.exists = obj.fin
    BY <1>0 DEF Clusters
  <2> HIDE DEF c
  <2>3. TypeOK'
    BY <1>1, <2>1, <2>2
  <2> QED BY <2>1, <2>2, <2>3 DEF Edit, UserStep
<1>6. ASSUME NEW p \in Work, SpecChange(p) PROVE TypeOK' /\ UserStep
  <2>1. /\ edits < MaxEdits /\ edits' = edits + 1 /\ todo' = todo \cup {p}
        /\ queue' = (queue \/ obj.health # "Deploying" \/ obj.deleting)
        /\ UNCHANGED <<obj, nodes, suspended, capi, run, rec, wiped, starts,
                       fails, faults>>
    BY <1>6 DEF SpecChange
  <2>2. edits' \in 0 .. MaxEdits /\ todo' \subseteq Work
    BY <1>0, <2>1, BoundsAssumption, TypeParts
  <2>3. queue' \in BOOLEAN
    BY <2>1
  <2>4. TypeOK'
    BY <2>1, <2>2, <2>3, TypeParts, TypePartsNext
  <2> QED BY <2>1, <2>4 DEF UserStep
<1>7. ASSUME NEW p \in Work, NodeChange(p) PROVE TypeOK' /\ UserStep
  <2>1. /\ edits < MaxEdits /\ edits' = edits + 1 /\ todo' = todo \cup {p}
        /\ queue' = TRUE /\ nodes' = TRUE
        /\ UNCHANGED <<obj, suspended, capi, run, rec, wiped, starts,
                       fails, faults>>
    BY <1>7 DEF NodeChange
  <2>2. edits' \in 0 .. MaxEdits /\ todo' \subseteq Work
    BY <1>0, <2>1, BoundsAssumption, TypeParts
  <2>3. TypeOK'
    BY <2>1, <2>2, TypeParts, TypePartsNext
  <2> QED BY <2>1, <2>3 DEF UserStep
<1> QED BY <1>2, <1>3, <1>4, <1>5, <1>6, <1>7 DEF User

LEMMA SyncMergeIs ==
    ASSUME TypeOK, SyncMerge
    PROVE  TypeOK' /\ MergeStep
<1> DEFINE a == ApplyPatch(run.mem)
           f == ApplyPatch(obj)
           m == Merge(a, f)
<1>1. run \in Runs /\ run.mem \in Clusters /\ obj \in Clusters
      /\ run.at \in SyncPoints
  BY RunFields DEF TypeOK, SyncMerge
<1>2. /\ a \in Clusters /\ f \in Clusters
      /\ a.deleting = run.mem.deleting /\ a.fin = run.mem.fin
      /\ a.record = run.mem.record
      /\ a.status = IF run.patch = "retry" THEN "Checking" ELSE run.mem.status
      /\ f.pause = (run.patch # "unpause" /\ obj.pause)
  BY <1>1, ApplyPatchIs
<1>3. /\ run' = [run EXCEPT !.merged = TRUE, !.mem = m]
      /\ UNCHANGED <<obj, todo, nodes, suspended, capi, queue, rec, wiped,
                     starts, fails, edits, faults>>
  BY DEF SyncMerge
<1> HIDE DEF a, f
<1>4. /\ m \in Clusters /\ m.deleting = a.deleting /\ m.fin = a.fin
      /\ m.record = a.record /\ m.status = a.status /\ m.pause = f.pause
  BY <1>2, MergeIs
<1> HIDE DEF m
<1>5. /\ run' \in Runs /\ run'.at = run.at /\ run'.merged /\ run'.mem = m
      /\ run'.patch = run.patch /\ run'.entry = run.entry
      /\ run'.new = run.new /\ run'.plan = run.plan /\ run'.err = run.err
      /\ run'.split = run.split /\ run'.watch = run.watch
  BY <1>1, <1>3, <1>4 DEF Runs
<1>6. TypeOK'
  BY <1>3, <1>5, TypeParts, TypePartsNext
<1>7. MergeStep
  BY <1>1, <1>2, <1>3, <1>4, <1>5 DEF MergeStep
<1> QED BY <1>6, <1>7

LEMMA SettledIs ==
    ASSUME TypeOK
    PROVE  Settled(SetStatus(run.mem))
<1>1. run.mem \in Clusters
  BY RunFields DEF TypeOK
<1> QED BY <1>1, SetStatusIs DEF Settled

\* What AfterSync makes of the run with m in memory.
LEMMA ResumeIs ==
    ASSUME TypeOK, NEW m \in Clusters, run.at \in SyncPoints,
           run' = AfterSync([run EXCEPT !.mem = m])
    PROVE  Resume(m)
<1> DEFINE r == [run EXCEPT !.mem = m]
<1>1. run \in Runs
  BY DEF TypeOK
<1>2. /\ r \in Runs /\ r.at = run.at /\ r.mem = m /\ r.patch = run.patch
      /\ r.split = run.split /\ r.watch = run.watch /\ r.err = run.err
      /\ r.entry = run.entry /\ r.new = run.new /\ r.plan = run.plan
  BY <1>1 DEF Runs
<1> HIDE DEF r
<1>3. Resumes(r, run')
  BY <1>2, AfterSyncIs DEF r
<1> QED BY <1>2, <1>3 DEF Resumes, Resume

LEMMA SyncWriteIs ==
    ASSUME TypeOK, SyncWrite
    PROVE  TypeOK' /\ \E m \in Clusters : WriteStep(m)
<1> DEFINE m == SetStatus(run.mem)
<1>1. /\ run \in Runs /\ run.mem \in Clusters /\ obj \in Clusters
      /\ run.at \in SyncPoints /\ run.merged /\ obj.exists
      /\ queue \in BOOLEAN /\ rec \in Records
      /\ fails \in [Failures -> Nat]
  BY RunFields, TypeParts DEF SyncWrite
<1>2. /\ obj' = Persist(m)
      /\ queue' = (queue \/ Triggers(obj, Persist(m)))
      /\ run' = AfterSync([run EXCEPT !.mem = m])
      /\ rec' = IF run.at = "eraseSync" THEN EmptyRecord
                ELSE IF run.mem.record THEN Recorded(run.mem).rec ELSE rec
      /\ fails' = IF run.patch = "retry" THEN [s \in Failures |-> 0]
                  ELSE fails
      /\ UNCHANGED <<todo, nodes, suspended, capi, wiped, starts, edits,
                     faults>>
  BY DEF SyncWrite
<1>3. Settled(m) /\ m \in Clusters
  BY SettledIs DEF Settled
<1> HIDE DEF m
<1>4. Resume(m)
  BY <1>1, <1>2, <1>3, ResumeIs
<1>5. /\ obj' \in Clusters /\ obj'.status = m.status /\ obj'.pause = m.pause
      /\ obj'.fin = m.fin /\ obj'.record = m.record
      /\ obj'.deleting = obj.deleting
      /\ obj'.exists = (~obj.deleting \/ m.fin)
  BY <1>2, <1>3, PersistIs
<1>6. rec' \in Records
  BY <1>1, <1>2, RecordedType, EmptyRecordType
<1>7. queue' \in BOOLEAN /\ run' \in Runs
  BY <1>1, <1>2, <1>4 DEF Resume
<1>8. fails' \in [Failures -> Nat]
  BY <1>1, <1>2
<1>9. TypeOK'
  BY <1>2, <1>5, <1>6, <1>7, <1>8, TypeParts, TypePartsNext
<1>10. WriteStep(m)
  BY <1>1, <1>2, <1>3, <1>4, <1>5 DEF WriteStep
<1> QED BY <1>3, <1>9, <1>10

LEMMA SyncGoneIs ==
    ASSUME TypeOK, SyncGone
    PROVE  TypeOK' /\ GoneStep
<1>1. /\ run \in Runs /\ run.mem \in Clusters /\ run.at \in SyncPoints
      /\ ~obj.exists /\ rec \in Records
  BY RunFields, TypeParts DEF SyncGone
<1>2. /\ run' = AfterSync(run) /\ rec' \in {rec, EmptyRecord}
      /\ UNCHANGED <<obj, todo, nodes, suspended, capi, wiped, queue, starts,
                     fails, edits, faults>>
  BY DEF SyncGone
<1>3. [run EXCEPT !.mem = run.mem] = run
  BY <1>1 DEF Runs
<1>4. Resume(run.mem)
  BY <1>1, <1>2, <1>3, ResumeIs
<1>5. TypeOK'
  BY <1>1, <1>2, <1>4, EmptyRecordType, TypeParts, TypePartsNext DEF Resume
<1> QED BY <1>1, <1>2, <1>4, <1>5 DEF GoneStep

LEMMA SyncTimeoutIs ==
    ASSUME TypeOK, SyncTimeout
    PROVE  TypeOK' /\ \E m \in Clusters : TimeoutStep(m)
<1> DEFINE m == IF run.merged THEN SetStatus(run.mem) ELSE run.mem
           s == [run EXCEPT !.mem = m, !.patch = "none", !.merged = FALSE,
                            !.err = TRUE]
<1>1. /\ run \in Runs /\ run.mem \in Clusters /\ run.at \in SyncPoints
      /\ obj.exists /\ rec \in Records
      /\ {"finish", "post"} \subseteq Points
  BY RunFields, TypeParts, PointsAre DEF SyncTimeout
<1>2. /\ faults' = faults + 1 /\ faults' \in 0 .. MaxFaults
      /\ UNCHANGED <<obj, todo, nodes, suspended, capi, wiped, queue, starts,
                     fails, edits>>
  BY BoundsAssumption DEF SyncTimeout, TypeOK
<1>3. rec' = IF run.merged /\ run.mem.record THEN Recorded(run.mem).rec
             ELSE rec
  BY DEF SyncTimeout
<1>4. /\ run.at \in Reports => run' = AfterSync([run EXCEPT !.mem = m])
      /\ run.at = "initSync" =>
            run' = [s EXCEPT !.at = "finish", !.entry = NewCluster]
      /\ run.at \notin Reports \cup {"initSync"} => run' = [s EXCEPT !.at = "post"]
  BY DEF SyncTimeout, Reports
<1>5. GivenUp(m) /\ m \in Clusters
  BY <1>1, SettledIs DEF GivenUp, Settled
<1> HIDE DEF m
<1>6. rec' \in Records
  BY <1>1, <1>3, RecordedType
<1>7. CASE run.at \in Reports
  <2>1. Resume(m)
    BY <1>1, <1>4, <1>5, <1>7, ResumeIs
  <2>2. TypeOK'
    BY <1>2, <1>6, <2>1, TypeParts, TypePartsNext DEF Resume
  <2>3. TimeoutStep(m)
    BY <1>1, <1>2, <1>3, <1>5, <1>7, <2>1 DEF TimeoutStep
  <2> QED BY <1>5, <2>2, <2>3
<1>8. /\ s \in Runs /\ s.mem = m /\ s.patch = "none" /\ ~s.merged
      /\ s.new = run.new /\ s.plan = run.plan /\ s.split = run.split
      /\ s.watch = run.watch /\ s.entry = run.entry
  BY <1>1, <1>5 DEF Runs
<1> HIDE DEF s
<1>9. CASE run.at = "initSync"
  <2>1. run' = [s EXCEPT !.at = "finish", !.entry = NewCluster]
    BY <1>4, <1>9
  <2>2. /\ run' \in Runs /\ run'.at = "finish" /\ run'.entry = NewCluster
        /\ run'.mem = s.mem /\ run'.patch = s.patch
        /\ run'.merged = s.merged /\ run'.new = s.new /\ run'.plan = s.plan
        /\ run'.split = s.split /\ run'.watch = s.watch
    BY <1>1, <1>8, <2>1, NewClusterType DEF Runs
  <2>3. TypeOK'
    BY <1>2, <1>6, <2>2, TypeParts, TypePartsNext
  <2>4. run.at \in SyncPoints \ Reports
    BY <1>1, <1>9 DEF Reports
  <2>5. TimeoutStep(m)
    BY <1>1, <1>2, <1>3, <1>5, <1>8, <1>9, <2>2, <2>4 DEF TimeoutStep
  <2> QED BY <1>5, <2>3, <2>5
<1>10. CASE run.at \notin Reports \cup {"initSync"}
  <2>1. run' = [s EXCEPT !.at = "post"]
    BY <1>4, <1>10
  <2>2. /\ run' \in Runs /\ run'.at = "post" /\ run'.entry = s.entry
        /\ run'.mem = s.mem /\ run'.patch = s.patch
        /\ run'.merged = s.merged /\ run'.new = s.new /\ run'.plan = s.plan
        /\ run'.split = s.split /\ run'.watch = s.watch
    BY <1>1, <1>8, <2>1 DEF Runs
  <2>3. TypeOK'
    BY <1>2, <1>6, <2>2, TypeParts, TypePartsNext
  <2>4. TimeoutStep(m)
    BY <1>1, <1>2, <1>3, <1>5, <1>8, <1>10, <2>2 DEF TimeoutStep
  <2> QED BY <1>5, <2>3, <2>4
<1> QED BY <1>7, <1>9, <1>10

LEMMA WatchStatusIs ==
    ASSUME TypeOK, WatchStatus
    PROVE  TypeOK' /\ WatchStep
<1>1. /\ run \in Runs /\ run.mem \in Clusters /\ obj \in Clusters
      /\ run.watch /\ ~run.merged /\ rec \in Records
      /\ run.entry \in Clusters
  BY RunFields, TypeParts DEF WatchStatus
<1>2. UNCHANGED <<todo, nodes, suspended, capi, queue, wiped, starts, fails,
                  edits, faults>>
  BY DEF WatchStatus
<1>3. CASE ~(run.mem.deleting /\ run.mem.status # "Deleting")
  <2>1. run' = [run EXCEPT !.watch = FALSE] /\ obj' = obj /\ rec' = rec
    BY <1>3 DEF WatchStatus
  <2>2. /\ run' \in Runs /\ run'.at = run.at /\ run'.patch = run.patch
        /\ run'.merged = run.merged /\ run'.mem = run.mem
        /\ run'.entry = run.entry /\ run'.err = run.err
        /\ run'.new = run.new /\ run'.plan = run.plan
        /\ run'.split = run.split /\ ~run'.watch
    BY <1>1, <2>1 DEF Runs
  <2>3. TypeOK'
    BY <1>2, <2>1, <2>2, TypeParts, TypePartsNext
  <2> QED BY <1>1, <1>2, <2>1, <2>2, <2>3 DEF WatchStep
<1>4. CASE run.mem.deleting /\ run.mem.status # "Deleting"
  <2> DEFINE m == [run.mem EXCEPT !.status = "Deleting"]
             g == Merge(m, obj)
             w == IF obj.exists THEN SetStatus(g) ELSE m
             e == IF run.split THEN run.entry ELSE w
  <2>1. /\ run' = [run EXCEPT !.watch = FALSE, !.mem = w, !.entry = e]
        /\ obj' = IF obj.exists THEN Persist(w) ELSE obj
        /\ rec' = IF obj.exists /\ m.record THEN Recorded(m).rec ELSE rec
    BY <1>4 DEF WatchStatus
  <2>2. "Deleting" \in Statuses \ Failures
    BY FailuresAre
  <2>3. /\ m \in Clusters /\ m.status = "Deleting" /\ m.fin = run.mem.fin
        /\ m.pause = run.mem.pause /\ m.deleting /\ m.record = run.mem.record
    BY <1>1, <1>4, <2>2 DEF Clusters
  <2> HIDE DEF m
  <2>4. /\ g \in Clusters /\ g.status = "Deleting" /\ g.fin = run.mem.fin
        /\ g.pause = obj.pause /\ g.deleting
    BY <1>1, <2>3, MergeIs
  <2> HIDE DEF g
  <2>5. /\ Recorded(m).rec \in Records
        /\ Recorded(m).rec.failed = rec.failed
        /\ Recorded(m).rec.count = rec.count
        /\ Recorded(g).status = "Deleting"
    BY <1>1, <2>2, <2>3, <2>4, RecordClusterIs DEF Recorded
  <2>6. obj.exists =>
           /\ w \in Clusters /\ w.status = "Deleting" /\ w.fin = run.mem.fin
           /\ w.pause = obj.pause /\ w.deleting /\ ~w.record
    BY <2>4, <2>5, SetStatusIs
  <2>7. ~obj.exists => w = m
    OBVIOUS
  <2> HIDE DEF w
  <2>8. w \in Clusters /\ e \in Clusters
    BY <1>1, <2>3, <2>6, <2>7
  <2>9. e = IF run.split THEN run.entry ELSE w
    OBVIOUS
  <2> HIDE DEF e
  <2>10. /\ run' \in Runs /\ run'.at = run.at /\ run'.patch = run.patch
         /\ run'.merged = run.merged /\ run'.mem = w
         /\ run'.entry = e /\ run'.err = run.err
         /\ run'.new = run.new /\ run'.plan = run.plan
         /\ run'.split = run.split /\ ~run'.watch
    BY <1>1, <2>1, <2>8 DEF Runs
  <2>11. CASE obj.exists
    <3>1. /\ obj' \in Clusters /\ obj'.status = w.status
          /\ obj'.pause = w.pause /\ obj'.fin = w.fin
          /\ obj'.record = w.record /\ obj'.deleting = obj.deleting
          /\ obj'.exists = (~obj.deleting \/ w.fin)
      BY <2>1, <2>8, <2>11, PersistIs
    <3>2. rec' \in Records /\ rec'.failed = rec.failed /\ rec'.count = rec.count
      BY <1>1, <2>1, <2>5
    <3>3. TypeOK'
      BY <1>2, <2>10, <3>1, <3>2, TypeParts, TypePartsNext
    <3>4. WatchStep
      BY <1>1, <1>2, <1>4, <2>6, <2>9, <2>10, <2>11, <3>1, <3>2 DEF WatchStep
    <3> QED BY <3>3, <3>4
  <2>12. CASE ~obj.exists
    <3>1. obj' = obj /\ rec' = rec /\ w = m
      BY <2>1, <2>7, <2>12
    <3>2. TypeOK'
      BY <1>1, <1>2, <2>10, <3>1, TypeParts, TypePartsNext
    <3>3. WatchStep
      BY <1>1, <1>2, <1>4, <2>3, <2>9, <2>10, <2>12, <3>1 DEF WatchStep
    <3> QED BY <3>2, <3>3
  <2> QED BY <2>11, <2>12
<1> QED BY <1>3, <1>4

-----------------------------------------------------------------------------
\* Every step of the system is one of these.
OneOf ==
    \/ QuietStep \/ ChangeStep \/ ReadStep \/ PostStep \/ NoteStep
    \/ IdleStep \/ BeginStep \/ PlanStep \/ UserStep \/ MergeStep
    \/ (\E m \in Clusters : WriteStep(m)) \/ GoneStep
    \/ (\E m \in Clusters : TimeoutStep(m)) \/ WatchStep
    \/ UNCHANGED <<obj, run, rec, wiped, starts, fails, faults>>

LEMMA StepsAre ==
    ASSUME TypeOK, Shape, [Next]_vars
    PROVE  TypeOK' /\ OneOf
<1>1. CASE UNCHANGED vars
  <2>1. UNCHANGED <<obj, run, rec, wiped, starts, fails, faults>>
    BY <1>1 DEF vars
  <2>2. TypeOK'
    BY <1>1, TypeParts, TypePartsNext DEF vars
  <2> QED BY <2>1, <2>2 DEF OneOf
<1>2. ASSUME Reconcile PROVE TypeOK' /\ OneOf
  <2>1. CASE Begin
    BY <2>1, BeginStepIs DEF OneOf
  <2>2. CASE SyncMerge
    BY <2>2, SyncMergeIs DEF OneOf
  <2>3. CASE SyncWrite
    BY <2>3, SyncWriteIs DEF OneOf
  <2>4. CASE SyncGone
    BY <2>4, SyncGoneIs DEF OneOf
  <2>5. CASE CalculatePhase
    BY <2>5, CalculatePhaseIs DEF OneOf
  <2>6. CASE PhaseSkipped
    BY <2>6, PhaseSkippedIs DEF OneOf
  <2>7. CASE ExecutePreHook
    BY <2>7, ExecutePreHookIs DEF OneOf
  <2>8. CASE FlowDone
    BY <2>8, FlowDoneIs DEF OneOf
  <2>9. CASE ExecuteFinalizer
    BY <2>9, ExecuteFinalizerIs DEF OneOf
  <2>10. CASE ExecuteWork
    BY <2>10, ExecuteWorkIs DEF OneOf
  <2>11. CASE ExecutePaused
    BY <2>11, ExecutePausedIs DEF OneOf
  <2>12. CASE PauseOrResume
    BY <2>12, PauseOrResumeIs DEF OneOf
  <2>13. CASE ExecuteDryRun
    BY <2>13, ExecuteDryRunIs DEF OneOf
  <2>14. CASE CheckDryRun
    BY <2>14, CheckDryRunIs DEF OneOf
  <2>15. CASE ExecuteDelete
    BY <2>15, ExecuteDeleteIs DEF OneOf
  <2>16. CASE RemoveCommands
    BY <2>16, RemoveCommandsIs DEF OneOf
  <2>17. CASE Wipe
    BY <2>17, WipeIs DEF OneOf
  <2>18. CASE ExecuteCluster
    BY <2>18, ExecuteClusterIs DEF OneOf
  <2>19. CASE Recheck
    BY <2>19, RecheckIs DEF OneOf
  <2>20. CASE ExecutePostHook
    <3>1. run.plan # {}
      BY <2>20 DEF Shape, InPhase, ExecutePostHook
    <3> QED BY <2>20, <3>1, ExecutePostHookIs DEF OneOf
  <2>21. CASE NotifyIntervention
    BY <2>21, NotifyInterventionIs DEF OneOf
  <2>22. CASE Finish
    BY <2>22, FinishIs DEF OneOf
  <2> QED BY <1>2, <2>1, <2>2, <2>3, <2>4, <2>5, <2>6, <2>7, <2>8, <2>9,
             <2>10, <2>11, <2>12, <2>13, <2>14, <2>15, <2>16, <2>17, <2>18,
             <2>19, <2>20, <2>21, <2>22 DEF Reconcile
<1>3. CASE WatchStatus
  BY <1>3, WatchStatusIs DEF OneOf
<1>4. CASE SyncTimeout
  BY <1>4, SyncTimeoutIs DEF OneOf
<1>5. CASE Crash
  BY <1>5, CrashIs DEF OneOf
<1>6. CASE User
  BY <1>6, UserIs DEF OneOf
<1> QED BY <1>1, <1>2, <1>3, <1>4, <1>5, <1>6 DEF Next

LEMMA IdleFields ==
    /\ Idle.at = "idle" /\ Idle.patch = "none" /\ ~Idle.merged
    /\ Idle.mem = NewCluster /\ Idle.entry = NewCluster
    /\ Idle.new = NewCluster /\ Idle.plan = {} /\ ~Idle.split
    /\ ~Idle.watch /\ ~Idle.err
    /\ NewCluster.status = Blank /\ ~NewCluster.record
    /\ ~NewCluster.deleting /\ ~NewCluster.pause /\ ~NewCluster.fin
    /\ NewCluster.exists
BY DEF Idle, NewCluster

LEMMA InitShape == Init => Shape
BY IdleFields DEF Init, Shape, InPhase

\* What Shape says of the copies holds after a synchronisation.
LEMMA ResumeShape ==
    ASSUME TypeOK, Shape, NEW m \in Clusters, Resume(m),
           m.record => run.mem.record, ~obj'.record
    PROVE  Shape'
<1> USE DEF SyncPoints
<1>1. run.at \in SyncPoints /\ ~run'.merged /\ run'.patch = "none"
  BY DEF Resume
<1>2. run'.split = run.split /\ run'.watch = run.watch /\ run'.mem = m
      /\ run'.entry = (IF run.at = "initSync" THEN m ELSE run.entry)
  BY DEF Resume
<1>3. CASE run.at \in {"initSync", "skipSync", "cleanSync", "noteSync"}
  <2>1. /\ run'.at \in {"plan", "decide", "return", "finish"}
        /\ run'.at = "plan" => run.at = "initSync"
    BY <1>3 DEF Resume
  <2> QED BY <1>1, <1>2, <2>1 DEF Shape, InPhase
<1>4. CASE run.at = "postSync"
  <2>1. run'.at \in {"cleanSync", "return", "decide"}
    BY <1>4 DEF Resume
  <2> QED BY <1>1, <1>2, <1>4, <2>1 DEF Shape, InPhase
<1>5. CASE run.at \in SyncPoints \ {"initSync", "skipSync", "cleanSync",
                                   "noteSync", "postSync"}
  <2>1. /\ run'.at \in {"exec", "suspend", "dryRun", "clear", "wipe", "post",
                       "recheck"}
        /\ run'.plan = run.plan
    BY <1>5 DEF Resume
  <2>2. run.at \in InPhase \ {"postSync"}
    BY <1>5 DEF InPhase
  <2> QED BY <1>1, <1>2, <1>5, <2>1, <2>2 DEF Shape, InPhase
<1> QED BY <1>1, <1>3, <1>4, <1>5

LEMMA ShapeStep ==
    ASSUME TypeOK, Shape, OneOf
    PROVE  Shape'
<1> USE DEF SyncPoints
<1>1. CASE QuietStep
  BY <1>1 DEF QuietStep, Keeps, Shape, InPhase
<1>2. CASE ChangeStep
  BY <1>2 DEF ChangeStep, Keeps, Shape, InPhase
<1>3. CASE ReadStep
  BY <1>3 DEF ReadStep, Keeps, Shape, InPhase
<1>4. CASE PostStep
  BY <1>4 DEF PostStep, Keeps, Shape, InPhase
<1>5. CASE NoteStep
  BY <1>5 DEF NoteStep, Keeps, Shape, InPhase
<1>6. CASE IdleStep
  BY <1>6, IdleFields DEF IdleStep, Shape, InPhase
<1>7. CASE BeginStep
  BY <1>7 DEF BeginStep, Shape, InPhase
<1>8. CASE PlanStep
  BY <1>8 DEF PlanStep, Shape, InPhase
<1>9. CASE UserStep
  BY <1>9 DEF UserStep, Shape
<1>10. CASE MergeStep
  BY <1>10 DEF MergeStep, Shape
<1>11. ASSUME NEW m \in Clusters, WriteStep(m) PROVE Shape'
  <2>1. Resume(m) /\ ~m.record /\ ~obj'.record
    BY <1>11 DEF WriteStep, Settled
  <2> QED BY <2>1, ResumeShape
<1>12. CASE GoneStep
  <2>1. Resume(run.mem) /\ run.mem \in Clusters /\ ~obj'.record
    BY <1>12, RunFields DEF GoneStep, Shape, TypeOK
  <2> QED BY <2>1, ResumeShape
<1>13. ASSUME NEW m \in Clusters, TimeoutStep(m) PROVE Shape'
  <2>1. (m.record => run.mem.record) /\ obj' = obj
    BY <1>13 DEF TimeoutStep, GivenUp, Settled
  <2>2. CASE Resume(m)
    BY <2>1, <2>2, ResumeShape DEF Shape
  <2>3. CASE ~Resume(m)
    <3>1. /\ run'.mem = m /\ run'.patch = "none" /\ ~run'.merged
          /\ run.at \in SyncPoints \ Reports
          /\ run'.new = run.new /\ run'.plan = run.plan
          /\ run'.split = run.split /\ run'.watch = run.watch
          /\ \/ /\ run.at = "initSync" /\ run'.at = "finish"
                /\ run'.entry = NewCluster
             \/ /\ run.at # "initSync" /\ run'.at = "post"
                /\ run'.entry = run.entry
      BY <1>13, <2>3 DEF TimeoutStep
    <3>2. run.at = "initSync" \/ run.at \in InPhase \ {"postSync"}
      BY <3>1 DEF Reports, InPhase
    <3>3. CASE run.at = "initSync"
      BY <2>1, <3>1, <3>3, IdleFields DEF Shape, InPhase
    <3>4. CASE run.at # "initSync"
      BY <2>1, <3>1, <3>2, <3>4 DEF Shape, InPhase
    <3> QED BY <3>3, <3>4
  <2> QED BY <2>2, <2>3
<1>14. CASE WatchStep
  BY <1>14 DEF WatchStep, Shape
<1>15. CASE UNCHANGED <<obj, run, rec, wiped, starts, fails, faults>>
  BY <1>15 DEF Shape
<1> QED BY <1>1, <1>2, <1>3, <1>4, <1>5, <1>6, <1>7, <1>8, <1>9, <1>10,
           <1>11, <1>12, <1>13, <1>14, <1>15 DEF OneOf

\* The memory of the reconcile, the records and the objects have their types.
THEOREM TypeCorrect == Spec => []TypeOK
<1>1. Init => TypeOK /\ Shape
  BY InitType, InitShape
<1>2. TypeOK /\ Shape /\ [Next]_vars => TypeOK' /\ Shape'
  BY StepsAre, ShapeStep
<1> QED BY <1>1, <1>2, PTL DEF Spec

-----------------------------------------------------------------------------
(***************************************************************************)
(* The retry budget.                                                       *)
(***************************************************************************)
\* The record of the cluster counts failures that happened.
Counted(r, f) == r.failed \in Failures => r.count <= f[r.failed]

\* The status of a copy that is about to be recorded has one failure more
\* than the record counts.
Marked(c, r) ==
    c.record /\ IsFailed(c.status) =>
        fails[c.status] > (IF r.failed = c.status THEN r.count ELSE 0)

LEMMA BudgetParts ==
    BudgetInv <=>
        /\ Exhausted(obj) /\ Exhausted(run.entry)
        /\ ~run.mem.record => Exhausted(run.mem)
        /\ run.patch = "retry" /\ run.merged => run.mem.status = "Checking"
        /\ Counted(rec, fails) /\ Marked(run.mem, rec)
BY DEF BudgetInv, Counted, Marked

LEMMA NotFailed ==
    /\ ~IsFailed(Blank) /\ ~IsFailed("Checking") /\ ~IsFailed("Deleting")
    /\ ~IsFailed("Unhealthy") /\ ~IsFailed("Ready") /\ ~IsFailed("Unknown")
    /\ Blank \notin Failures
BY FailuresAre DEF IsFailed

LEMMA InitBudget == Init => BudgetInv
BY IdleFields, NotFailed, EmptyRecordType DEF Init, BudgetInv, Exhausted

\* Recording a marked status spends the budget, or hides the failure.
LEMMA RecordedBudget ==
    ASSUME TypeOK, BudgetInv
    PROVE  /\ run.mem.record => Counted(Recorded(run.mem).rec, fails)
           /\ \A m \in Clusters : Settled(m) => Exhausted(m)
<1>1. /\ rec \in Records /\ run.mem \in Clusters
      /\ run.mem.status \in Statuses
      /\ fails \in [Failures -> Nat] /\ Limit \in Nat /\ Limit > 0
      /\ rec.count \in Nat
  BY TypeParts, RunFields, LimitAssumption DEF Clusters, Records
<1> DEFINE s == run.mem.status
           o == Recorded(run.mem)
<1>2. /\ s \notin Failures =>
            o.status = s /\ o.rec.failed = rec.failed /\ o.rec.count = rec.count
      /\ s \in Failures =>
            \/ /\ o.status \notin Failures
               /\ o.rec.failed = s
               /\ o.rec.count = IF rec.failed = s THEN rec.count + 1 ELSE 1
            \/ /\ o.status = s /\ o.rec.failed = Blank
               /\ Limit <= IF rec.failed = s THEN rec.count + 1 ELSE 1
  BY <1>1, RecordClusterIs DEF Recorded
<1>3. /\ Counted(rec, fails) /\ Marked(run.mem, rec)
      /\ ~run.mem.record => Exhausted(run.mem)
  BY BudgetParts
<1>4. run.mem.record /\ s \in Failures =>
         fails[s] \in Nat /\ fails[s] >= IF rec.failed = s THEN rec.count + 1 ELSE 1
  BY <1>1, <1>3 DEF Marked, IsFailed
<1> HIDE DEF s, o
<1>5. run.mem.record => Counted(o.rec, fails)
  BY <1>2, <1>3, <1>4, NotFailed DEF Counted
<1>6. run.mem.record /\ o.status \in Failures => fails[o.status] >= Limit
  BY <1>1, <1>2, <1>4
<1>7. ASSUME NEW m \in Clusters, Settled(m) PROVE Exhausted(m)
  <2>1. m.status = IF run.mem.record THEN o.status ELSE s
    BY <1>7 DEF Settled, o, s
  <2> QED BY <1>3, <1>6, <2>1 DEF Exhausted, IsFailed, s
<1> QED BY <1>5, <1>7 DEF o

LEMMA BudgetStep ==
    ASSUME TypeOK, Shape, BudgetInv, TypeOK', OneOf
    PROVE  BudgetInv'
<1>0. /\ Exhausted(obj) /\ Exhausted(run.entry)
      /\ ~run.mem.record => Exhausted(run.mem)
      /\ run.patch = "retry" /\ run.merged => run.mem.status = "Checking"
      /\ Counted(rec, fails) /\ Marked(run.mem, rec)
  BY BudgetParts
<1>t. /\ fails \in [Failures -> Nat] /\ fails' \in [Failures -> Nat]
      /\ run.mem \in Clusters /\ rec.count \in Nat
      /\ Limit \in Nat
  BY TypeParts, TypePartsNext, RunFields, LimitAssumption DEF Records
<1>r. Counted(EmptyRecord, fails) /\ Counted(EmptyRecord, fails')
  BY EmptyRecordType, NotFailed DEF Counted
<1>n. Exhausted(NewCluster)'
  BY IdleFields, NotFailed DEF Exhausted
\* It is enough to look at each part.
<1>p. ASSUME Exhausted(obj)', Exhausted(run.entry)',
             ~run'.mem.record => Exhausted(run.mem)',
             run'.patch = "retry" /\ run'.merged => run'.mem.status = "Checking",
             Counted(rec', fails'), Marked(run.mem, rec)'
      PROVE  BudgetInv'
  BY <1>p DEF BudgetInv, Counted, Marked
<1>1. CASE QuietStep
  BY <1>0, <1>1 DEF QuietStep, Keeps, BudgetInv, Exhausted, Counted, Marked
<1>2. CASE ChangeStep
  <2>1. /\ obj' = obj /\ rec' = rec /\ fails' = fails
        /\ run'.entry = run.entry /\ run'.merged = run.merged
        /\ run'.patch = run.patch
        /\ run'.mem.record = run.mem.record
    BY <1>2 DEF ChangeStep, Keeps
  <2>2. \/ run'.mem.status = run.mem.status
        \/ run'.mem.status \in {"Deleting", "Unhealthy", "Ready"}
    BY <1>2 DEF ChangeStep
  <2>3. ~run.merged
    BY <1>2 DEF ChangeStep, Shape, SyncPoints
  <2> QED BY <1>0, <2>1, <2>2, <2>3, NotFailed
          DEF BudgetInv, Exhausted, Counted, Marked
<1>3. CASE ReadStep
  <2>1. /\ obj' = obj /\ rec' = rec /\ fails' = fails
        /\ run'.entry = run.entry /\ run'.merged = run.merged
        /\ run'.mem.record = obj.record
    BY <1>3 DEF ReadStep, Keeps
  <2>2. run'.mem.status = obj.status \/ run'.mem.status \notin Failures
    BY <1>3 DEF ReadStep
  <2>3. ~run.merged /\ ~obj.record
    BY <1>3 DEF ReadStep, Shape, SyncPoints
  <2> QED BY <1>0, <2>1, <2>2, <2>3 DEF BudgetInv, Exhausted, IsFailed, Counted, Marked
<1>4. CASE PostStep
  <2>1. /\ obj' = obj /\ rec' = rec /\ run'.entry = run.entry
        /\ run'.merged = run.merged
        /\ run'.mem.record = (run'.mem.status # "Unknown")
        /\ fails' = IF IsFailed(run'.mem.status)
                    THEN [fails EXCEPT ![run'.mem.status] = @ + 1] ELSE fails
    BY <1>4 DEF PostStep, Keeps
  <2>2. ~run.merged
    BY <1>4 DEF PostStep, Shape, SyncPoints
  <2>3. \A s \in Failures : fails[s] \in Nat /\ fails'[s] \in Nat /\ fails'[s] >= fails[s]
    BY <1>t, <2>1 DEF IsFailed
  <2>4. Exhausted(obj)' /\ Exhausted(run.entry)'
    BY <1>0, <1>t, <2>1, <2>3 DEF Exhausted, IsFailed
  <2>5. Counted(rec', fails')
    BY <1>0, <1>t, <2>1, <2>3 DEF Counted
  <2>6. IsFailed(run'.mem.status) => fails'[run'.mem.status] = fails[run'.mem.status] + 1
    BY <1>t, <2>1 DEF IsFailed
  <2>7. Marked(run.mem, rec)'
    BY <1>0, <1>t, <2>1, <2>3, <2>6 DEF Marked, Counted, IsFailed
  <2>8. ~run'.mem.record => Exhausted(run.mem)'
    BY <2>1, NotFailed DEF Exhausted
  <2> QED BY <1>p, <2>1, <2>2, <2>4, <2>5, <2>7, <2>8
<1>5. CASE NoteStep
  <2>1. /\ obj' = obj /\ rec' = rec /\ fails' = fails
        /\ run'.entry = run.entry /\ run'.merged = run.merged
        /\ run'.mem.record = run.entry.record
        /\ run'.mem.status = run.entry.status
    BY <1>5 DEF NoteStep, Keeps
  <2>2. ~run.merged /\ ~run.entry.record
    BY <1>5 DEF NoteStep, Shape, SyncPoints
  <2> QED BY <1>0, <2>1, <2>2 DEF BudgetInv, Exhausted, Counted, Marked
<1>6. CASE IdleStep
  <2>1. /\ obj' = obj /\ rec' \in {rec, EmptyRecord} /\ fails' = fails
        /\ run'.entry = NewCluster /\ run'.mem = NewCluster /\ ~run'.merged
    BY <1>6, IdleFields DEF IdleStep
  <2>2. Counted(rec', fails')
    BY <1>0, <1>r, <2>1
  <2> QED BY <1>0, <1>p, <1>n, <2>1, <2>2, IdleFields, NotFailed
          DEF Exhausted, Marked
<1>7. CASE BeginStep
  <2>1. /\ obj' = obj /\ rec' \in {rec, EmptyRecord} /\ fails' = fails
        /\ run'.entry = run'.mem /\ run'.mem.status = obj.status
        /\ run'.mem.record = obj.record /\ ~run'.merged /\ ~obj.record
    BY <1>7 DEF BeginStep, Shape
  <2>2. Counted(rec', fails')
    BY <1>0, <1>r, <2>1
  <2> QED BY <1>0, <1>p, <2>1, <2>2 DEF Exhausted, Marked
<1>8. CASE PlanStep
  BY <1>0, <1>8 DEF PlanStep, BudgetInv, Exhausted, Counted, Marked
<1>9. CASE UserStep
  BY <1>0, <1>9 DEF UserStep, BudgetInv, Exhausted, Counted, Marked
<1>10. CASE MergeStep
  <2>1. /\ obj' = obj /\ rec' = rec /\ fails' = fails
        /\ run'.entry = run.entry /\ run'.patch = run.patch
        /\ run'.mem.record = run.mem.record
        /\ run'.mem.status = IF run.patch = "retry" THEN "Checking"
                             ELSE run.mem.status
    BY <1>10 DEF MergeStep
  <2> QED BY <1>0, <2>1, NotFailed DEF BudgetInv, Exhausted, Counted, Marked
<1>11. ASSUME NEW m \in Clusters, WriteStep(m) PROVE BudgetInv'
  <2>1. /\ Resume(m) /\ Settled(m) /\ ~m.record /\ run.merged
        /\ obj'.status = m.status
        /\ \/ rec' = EmptyRecord
           \/ rec' = IF run.mem.record THEN Recorded(run.mem).rec ELSE rec
        /\ fails' = IF run.patch = "retry" THEN [s \in Failures |-> 0] ELSE fails
    BY <1>11 DEF WriteStep, Settled
  <2>2. /\ run'.mem = m /\ ~run'.merged
        /\ run'.entry = IF run.at = "initSync" THEN m ELSE run.entry
    BY <2>1 DEF Resume
  <2>3. Exhausted(m)
    BY <2>1, RecordedBudget
  <2>4. CASE run.patch # "retry"
    <3>1. Counted(rec', fails')
      BY <1>0, <1>r, <2>1, <2>4, RecordedBudget
    <3> QED BY <1>0, <1>p, <2>1, <2>2, <2>3, <2>4, <3>1 DEF Exhausted, Marked
  <2>5. CASE run.patch = "retry"
    <3>1. /\ run.at = "initSync" /\ rec = EmptyRecord /\ ~run.mem.record
          /\ run.mem.status = "Checking"
      BY <1>0, <2>1, <2>5 DEF Shape, InPhase
    <3>2. m.status = "Checking" /\ rec' = EmptyRecord
      BY <2>1, <3>1 DEF Settled
    <3> QED BY <1>p, <1>r, <2>1, <2>2, <3>1, <3>2, NotFailed
            DEF Exhausted, Marked
  <2> QED BY <2>4, <2>5
<1>12. CASE GoneStep
  <2>1. /\ obj' = obj /\ rec' \in {rec, EmptyRecord} /\ fails' = fails
        /\ Resume(run.mem)
    BY <1>12 DEF GoneStep
  <2>2. /\ run'.mem = run.mem /\ ~run'.merged
        /\ run'.entry = IF run.at = "initSync" THEN run.mem ELSE run.entry
    BY <2>1 DEF Resume
  <2>3. run.at = "initSync" => ~run.mem.record
    BY DEF Shape
  <2>4. Counted(rec', fails')
    BY <1>0, <1>r, <2>1
  <2>5. Marked(run.mem, EmptyRecord)
    BY <1>0, <1>t, EmptyRecordType DEF Marked, IsFailed
  <2>6. Marked(run.mem, rec)'
    BY <1>0, <2>1, <2>2, <2>5 DEF Marked
  <2> QED BY <1>0, <1>p, <2>1, <2>2, <2>3, <2>4, <2>6 DEF Exhausted
<1>13. ASSUME NEW m \in Clusters, TimeoutStep(m) PROVE BudgetInv'
  <2>1. /\ obj' = obj /\ fails' = fails /\ GivenUp(m) /\ run'.mem = m
        /\ ~run'.merged
        /\ rec' = IF run.merged /\ run.mem.record THEN Recorded(run.mem).rec
                  ELSE rec
        /\ \/ run'.entry = run.entry \/ run'.entry = NewCluster
    BY <1>13 DEF TimeoutStep, Resume, Reports
  <2>2. CASE run.merged
    <3>1. Settled(m) /\ Exhausted(m) /\ ~m.record
      BY <2>1, <2>2, RecordedBudget DEF GivenUp, Settled
    <3>2. Counted(rec', fails')
      BY <1>0, <2>1, <2>2, RecordedBudget
    <3> QED BY <1>0, <1>n, <1>p, <2>1, <3>1, <3>2 DEF Exhausted, Marked
  <2>3. CASE ~run.merged
    <3>1. m = run.mem /\ rec' = rec
      BY <2>1, <2>3 DEF GivenUp
    <3> QED BY <1>0, <1>n, <1>p, <2>1, <3>1 DEF Exhausted, Marked
  <2> QED BY <2>2, <2>3
<1>14. CASE WatchStep
  <2>1. fails' = fails /\ ~run'.merged
    BY <1>14 DEF WatchStep
  <2>2. CASE obj' = obj /\ rec' = rec /\ run'.mem = run.mem /\ run'.entry = run.entry
    BY <1>0, <1>p, <2>1, <2>2 DEF Exhausted, Marked
  <2>3. CASE ~(obj' = obj /\ rec' = rec /\ run'.mem = run.mem
               /\ run'.entry = run.entry)
    <3>1. /\ run'.mem.status = "Deleting"
          /\ run'.entry = IF run.split THEN run.entry ELSE run'.mem
          /\ obj'.status = "Deleting" \/ obj' = obj
          /\ rec'.failed = rec.failed /\ rec'.count = rec.count
      BY <1>14, <2>3 DEF WatchStep
    <3>2. Counted(rec', fails')
      BY <1>0, <2>1, <3>1 DEF Counted
    <3> QED BY <1>0, <1>p, <2>1, <3>1, <3>2, NotFailed DEF Exhausted, Marked
  <2> QED BY <2>2, <2>3
<1>15. CASE UNCHANGED <<obj, run, rec, wiped, starts, fails, faults>>
  BY <1>0, <1>15 DEF BudgetInv, Exhausted, Counted, Marked
<1> QED BY <1>1, <1>2, <1>3, <1>4, <1>5, <1>6, <1>7, <1>8, <1>9, <1>10,
           <1>11, <1>12, <1>13, <1>14, <1>15 DEF OneOf

\* recordBKEClusterStatus lets a failed status be seen only when the budget of
\* it is used up, whatever crashes, refused updates and edits come between.
THEOREM FailuresUseTheBudget == Spec => []FailedMeansExhausted
<1>1. Init => TypeOK /\ Shape /\ BudgetInv
  BY InitType, InitShape, InitBudget
<1>2. TypeOK /\ Shape /\ BudgetInv /\ [Next]_vars
         => TypeOK' /\ Shape' /\ BudgetInv'
  BY StepsAre, ShapeStep, BudgetStep
<1>3. BudgetInv => FailedMeansExhausted
  BY DEF BudgetInv, Exhausted, FailedMeansExhausted
<1> QED BY <1>1, <1>2, <1>3, PTL DEF Spec

-----------------------------------------------------------------------------
(***************************************************************************)
(* Pausing and deleting.                                                   *)
(***************************************************************************)
\* The parts of PauseInv.
DeletionKnown ==
    /\ run.mem.deleting \/ run.new.deleting \/ run.entry.deleting =>
          obj.deleting
    /\ run.patch = "unpause" => run.at = "unpauseSync" /\ run.mem.deleting
    /\ run.at \in {"preSync", "exec"} /\ Phase = "EnsureDeleteOrReset" =>
          run.mem.deleting

PauseSeen ==
    starts >= 1 =>
       /\ run.at \notin {"idle", "noteSync", "finish"} => Sees(run.mem)
       /\ run.at \in {"decide", "skipSync"} => Sees(run.new)
       /\ run.merged => \/ run.mem.pause = obj.pause
                        \/ ~run.mem.pause /\ obj.deleting

LEMMA PauseParts == PauseInv <=> DeletionKnown /\ PauseSeen /\ PauseStopsWork
BY DEF PauseInv, DeletionKnown, PauseSeen

LEMMA InitPause == Init => PauseInv
BY IdleFields DEF Init, PauseInv, PauseStopsWork

LEMMA DeletionStep ==
    ASSUME TypeOK, Shape, PauseInv, OneOf
    PROVE  DeletionKnown'
<1>0. DeletionKnown
  BY PauseParts
<1>p. run'.plan = run.plan => Phase' = Phase
  BY DEF Phase
<1>1. CASE QuietStep
  BY <1>0, <1>1, <1>p DEF QuietStep, Keeps, DeletionKnown
<1>2. CASE ChangeStep
  BY <1>0, <1>2, <1>p DEF ChangeStep, Keeps, DeletionKnown
<1>3. CASE ReadStep
  <2>1. run'.at = "preSync" => NeedExecute(Phase, run.new)
    BY <1>3 DEF ReadStep
  <2>2. NeedExecute("EnsureDeleteOrReset", run.new) => run.new.deleting
    BY WorkIsOrdinary DEF NeedExecute
  <2>3. /\ run'.patch = run.patch /\ run'.entry = run.entry
        /\ run'.new = run.new /\ run'.plan = run.plan /\ obj' = obj
        /\ run'.mem.deleting = obj.deleting
        /\ run'.at \in {"post", "preSync"} /\ run.at \in {"clear", "decide"}
    BY <1>3 DEF ReadStep, Keeps
  <2> QED BY <1>0, <1>p, <2>1, <2>2, <2>3 DEF DeletionKnown
<1>4. CASE PostStep
  BY <1>0, <1>4, <1>p DEF PostStep, Keeps, DeletionKnown
<1>5. CASE NoteStep
  <2>1. /\ run'.patch = run.patch /\ run'.entry = run.entry
        /\ run'.new = run.new /\ obj' = obj
        /\ run'.mem.deleting = run.entry.deleting
        /\ run'.at = "noteSync" /\ run.at = "return"
    BY <1>5 DEF NoteStep, Keeps
  <2> QED BY <1>0, <2>1 DEF DeletionKnown
<1>6. CASE IdleStep
  BY <1>0, <1>6, IdleFields DEF IdleStep, DeletionKnown
<1>7. CASE BeginStep
  BY <1>0, <1>7, IdleFields DEF BeginStep, DeletionKnown
<1>8. CASE PlanStep
  BY <1>0, <1>8 DEF PlanStep, DeletionKnown
<1>9. CASE UserStep
  BY <1>0, <1>9 DEF UserStep, DeletionKnown, Phase
<1>10. CASE MergeStep
  BY <1>0, <1>10, <1>p DEF MergeStep, DeletionKnown
\* A synchronisation keeps what is known of the deletion.
<1>11. ASSUME NEW m \in Clusters, Resume(m), m.deleting = run.mem.deleting,
              obj'.deleting = obj.deleting
       PROVE  DeletionKnown'
  <2>1. /\ run'.mem = m /\ run'.patch = "none"
        /\ run'.entry \in {run.entry, m} /\ run'.new \in {run.new, m}
    BY <1>11 DEF Resume
  <2>2. run'.at \in {"preSync", "exec"} => run.at = "preSync" /\ run'.plan = run.plan
    BY <1>11 DEF Resume, SyncPoints
  <2> QED BY <1>0, <1>11, <1>p, <2>1, <2>2 DEF DeletionKnown
<1>12. ASSUME NEW m \in Clusters, WriteStep(m) PROVE DeletionKnown'
  BY <1>11, <1>12 DEF WriteStep, Settled
<1>13. CASE GoneStep
  BY <1>11, <1>13, RunFields DEF GoneStep, TypeOK
<1>14. ASSUME NEW m \in Clusters, TimeoutStep(m) PROVE DeletionKnown'
  <2>1. m.deleting = run.mem.deleting /\ obj' = obj
    BY <1>14 DEF TimeoutStep, GivenUp, Settled
  <2>2. CASE Resume(m)
    BY <1>11, <2>1, <2>2
  <2>3. CASE ~Resume(m)
    <3>1. /\ run'.mem = m /\ run'.patch = "none" /\ run'.new = run.new
          /\ run'.at \in {"finish", "post"}
          /\ run'.entry = NewCluster \/ run'.entry = run.entry
      BY <1>14, <2>3 DEF TimeoutStep
    <3> QED BY <1>0, <2>1, <3>1, IdleFields DEF DeletionKnown
  <2> QED BY <2>2, <2>3
<1>15. CASE WatchStep
  BY <1>0, <1>15, <1>p DEF WatchStep, DeletionKnown
<1>16. CASE UNCHANGED <<obj, run, rec, wiped, starts, fails, faults>>
  BY <1>0, <1>16 DEF DeletionKnown, Phase
<1> QED BY <1>1, <1>2, <1>3, <1>4, <1>5, <1>6, <1>7, <1>8, <1>9, <1>10,
           <1>12, <1>13, <1>14, <1>15, <1>16 DEF OneOf

\* A synchronisation keeps what the copies have seen: what it writes is what
\* the copy says, and that was merged from the object.
LEMMA ResumeSees ==
    ASSUME TypeOK, Shape, PauseInv, NEW m \in Clusters, Resume(m),
           m.deleting = run.mem.deleting, m.pause = run.mem.pause,
           starts' = starts,
           \/ obj' = obj
           \/ run.merged /\ obj'.deleting = obj.deleting /\ obj'.pause = m.pause
    PROVE  PauseSeen'
<1>0. PauseSeen /\ DeletionKnown
  BY PauseParts
<1>1. /\ run'.mem = m /\ ~run'.merged /\ run.at \in SyncPoints
      /\ run'.new = (IF run.at = "postSync" THEN m ELSE run.new)
  BY DEF Resume
<1>2. /\ run'.at \in {"decide", "skipSync"} => run.at \in {"postSync", "skipSync"}
      /\ run'.at \notin {"idle", "noteSync", "finish"} =>
            run.at \notin {"idle", "noteSync", "finish"}
  BY DEF Resume, SyncPoints
<1>3. obj'.deleting = obj.deleting
  OBVIOUS
<1>4. starts >= 1 => (obj'.pause => obj.pause)
  BY <1>0 DEF PauseSeen
<1> QED BY <1>0, <1>1, <1>2, <1>3, <1>4 DEF PauseSeen, Sees

LEMMA SeenStep ==
    ASSUME TypeOK, Shape, PauseInv, OneOf
    PROVE  PauseSeen'
<1>0. PauseSeen /\ DeletionKnown
  BY PauseParts
<1>t. starts \in Nat
  BY TypeParts
<1>1. CASE QuietStep
  BY <1>0, <1>1 DEF QuietStep, Keeps, PauseSeen, Sees, Shape, SyncPoints
<1>2. CASE ChangeStep
  BY <1>0, <1>2 DEF ChangeStep, Keeps, PauseSeen, Sees, Shape, SyncPoints
<1>3. CASE ReadStep
  BY <1>3 DEF ReadStep, Keeps, PauseSeen, Sees, Shape, SyncPoints
<1>4. CASE PostStep
  BY <1>0, <1>4 DEF PostStep, Keeps, PauseSeen, Sees, Shape, SyncPoints
<1>5. CASE NoteStep
  BY <1>0, <1>5 DEF NoteStep, Keeps, PauseSeen, Sees, Shape, SyncPoints
<1>6. CASE IdleStep
  BY <1>6, IdleFields DEF IdleStep, PauseSeen
<1>7. CASE BeginStep
  BY <1>7 DEF BeginStep, PauseSeen, Sees
<1>8. CASE PlanStep
  BY <1>0, <1>8 DEF PlanStep, PauseSeen, Sees, Shape, SyncPoints
<1>9. CASE UserStep
  BY <1>0, <1>9 DEF UserStep, PauseSeen, Sees
<1>10. CASE MergeStep
  <2>1. /\ obj' = obj /\ starts' = starts /\ run'.at = run.at
        /\ run'.new = run.new /\ run'.mem.deleting = run.mem.deleting
        /\ run'.mem.pause = (run.patch # "unpause" /\ obj.pause)
    BY <1>10 DEF MergeStep
  <2>2. run.patch = "unpause" => run.mem.deleting /\ obj.deleting
    BY <1>0 DEF DeletionKnown
  <2>3. obj.pause \in BOOLEAN
    BY DEF TypeOK, Clusters
  <2>4. CASE run.patch = "unpause"
    BY <1>0, <2>1, <2>2, <2>4 DEF PauseSeen, Sees
  <2>5. CASE run.patch # "unpause"
    <3>1. run'.mem.pause = obj.pause
      BY <2>1, <2>3, <2>5
    <3> QED BY <1>0, <2>1, <3>1 DEF PauseSeen, Sees
  <2> QED BY <2>4, <2>5
<1>11. ASSUME NEW m \in Clusters, WriteStep(m) PROVE PauseSeen'
  BY <1>11, ResumeSees DEF WriteStep, Settled
<1>12. CASE GoneStep
  BY <1>12, ResumeSees, RunFields DEF GoneStep, TypeOK
<1>13. ASSUME NEW m \in Clusters, TimeoutStep(m) PROVE PauseSeen'
  <2>1. /\ m.deleting = run.mem.deleting /\ m.pause = run.mem.pause
        /\ obj' = obj /\ starts' = starts
    BY <1>13 DEF TimeoutStep, GivenUp, Settled
  <2>2. CASE Resume(m)
    BY <2>1, <2>2, ResumeSees
  <2>3. CASE ~Resume(m)
    <3>1. /\ run'.mem = m /\ ~run'.merged /\ run.at \in SyncPoints \ Reports
          /\ run'.at = "finish" \/ (run.at # "initSync" /\ run'.at = "post")
      BY <1>13, <2>3 DEF TimeoutStep
    <3>2. run.at \notin {"idle", "noteSync", "finish"}
      BY <3>1 DEF SyncPoints, Reports
    <3> QED BY <1>0, <2>1, <3>1, <3>2 DEF PauseSeen, Sees
  <2> QED BY <2>2, <2>3
<1>14. CASE WatchStep
  <2>1. /\ starts' = starts /\ ~run'.merged /\ run'.at = run.at
        /\ run'.new = run.new
    BY <1>14 DEF WatchStep
  <2>2. /\ obj'.deleting = obj.deleting /\ obj'.pause = obj.pause
        /\ run'.mem.deleting = run.mem.deleting
        /\ run'.mem.pause = run.mem.pause \/ run'.mem.pause = obj.pause
    BY <1>14 DEF WatchStep
  <2> QED BY <1>0, <2>1, <2>2 DEF PauseSeen, Sees
<1>15. CASE UNCHANGED <<obj, run, rec, wiped, starts, fails, faults>>
  BY <1>0, <1>15 DEF PauseSeen, Sees
<1> QED BY <1>1, <1>2, <1>3, <1>4, <1>5, <1>6, <1>7, <1>8, <1>9, <1>10,
           <1>11, <1>12, <1>13, <1>14, <1>15 DEF OneOf

\* A phase is started on the strength of what the last PostHook left, and a
\* write makes no cluster paused that was not.
LEMMA PauseStopsStep ==
    ASSUME TypeOK, Shape, PauseInv, OneOf
    PROVE  PauseStopsWork'
<1>0. PauseSeen /\ DeletionKnown /\ PauseStopsWork /\ starts \in Nat
  BY PauseParts, TypeParts
<1>1. ASSUME starts' = starts \/ starts' = 0,
             starts >= 1 /\ starts' = starts =>
                 /\ obj'.pause => obj.pause \/ obj.deleting
                 /\ obj'.deleting => obj.pause \/ obj.deleting
      PROVE  PauseStopsWork'
  BY <1>0, <1>1 DEF PauseStopsWork
<1>2. CASE ReadStep
  <2>1. obj' = obj
    BY <1>2 DEF ReadStep
  <2>2. CASE starts' = starts
    BY <1>1, <2>1, <2>2
  <2>3. CASE starts' # starts
    <3>1. /\ run.at = "decide" /\ Phase \in Work /\ starts' = starts + 1
          /\ NeedExecute(Phase, run.new)
      BY <1>2, <2>3 DEF ReadStep
    <3>2. ~run.new.deleting /\ ~run.new.pause
      BY <3>1, WorkIsOrdinary DEF NeedExecute, CheckCommonNeedExecute
    <3>3. starts >= 1 => ~(obj.pause \/ obj.deleting)
      BY <1>0, <3>1, <3>2 DEF PauseSeen, Sees
    <3> QED BY <1>0, <2>1, <3>1, <3>3 DEF PauseStopsWork
  <2> QED BY <2>2, <2>3
<1>3. ASSUME NEW m \in Clusters, WriteStep(m) PROVE PauseStopsWork'
  <2>1. /\ starts' = starts /\ obj'.deleting = obj.deleting
        /\ obj'.pause = run.mem.pause /\ run.merged
    BY <1>3 DEF WriteStep, Settled
  <2>2. starts >= 1 => (obj'.pause => obj.pause)
    BY <1>0, <2>1 DEF PauseSeen
  <2> QED BY <1>1, <2>1, <2>2
<1>4. CASE WatchStep
  <2>1. starts' = starts /\ obj'.deleting = obj.deleting /\ obj'.pause = obj.pause
    BY <1>4 DEF WatchStep
  <2> QED BY <1>1, <2>1
<1>5. CASE UserStep
  BY <1>1, <1>5 DEF UserStep
<1>6. CASE obj' = obj /\ starts' = starts
  BY <1>1, <1>6
<1>7. CASE \E m \in Clusters : TimeoutStep(m)
  BY <1>6, <1>7 DEF TimeoutStep
<1> QED BY <1>2, <1>3, <1>4, <1>5, <1>6, <1>7
        DEF OneOf, QuietStep, ChangeStep, PostStep, NoteStep, IdleStep,
            BeginStep, PlanStep, MergeStep, GoneStep

\* Of the phases of Reconcile at most one is started after users have paused
\* or deleted the cluster: executePhases decides with the object of the last
\* PostHook, and no writer of the object undoes what users asked for.
THEOREM PauseHonoured == Spec => []PauseStopsWork
<1>1. Init => TypeOK /\ Shape /\ PauseInv
  BY InitType, InitShape, InitPause
<1>2. TypeOK /\ Shape /\ PauseInv /\ [Next]_vars
         => TypeOK' /\ Shape' /\ PauseInv'
  <2> SUFFICES ASSUME TypeOK, Shape, PauseInv, [Next]_vars
               PROVE  TypeOK' /\ Shape' /\ PauseInv'
    OBVIOUS
  <2>1. TypeOK' /\ OneOf
    BY StepsAre
  <2>2. Shape' /\ DeletionKnown' /\ PauseSeen' /\ PauseStopsWork'
    BY <2>1, ShapeStep, DeletionStep, SeenStep, PauseStopsStep
  <2>3. PauseInv'
    BY <2>2 DEF PauseInv, DeletionKnown, PauseSeen
  <2> QED BY <2>1, <2>2, <2>3
<1>3. PauseInv => PauseStopsWork
  BY DEF PauseInv
<1> QED BY <1>1, <1>2, <1>3, PTL DEF Spec

-----------------------------------------------------------------------------
(***************************************************************************)
(* The finalizer.  The update that adds it may be refused; a flow that is  *)
(* then left without it can fail once.  With fewer faults than the retry   *)
(* budget no failed status is shown before the cluster has its finalizer,  *)
(* so that the copy checkAndNotifyManualIntervention writes has it too.    *)
(***************************************************************************)
FinCopies ==
    /\ obj.exists /\ obj.deleting => obj.fin
    /\ run.at # "idle" /\ obj.fin => run.mem.fin \/ wiped
    /\ IsFailed(run.entry.status) => run.entry.fin \/ wiped
    /\ run.at = "initSync" /\ IsFailed(run.mem.status) =>
          run.mem.fin \/ wiped

FinPlan ==
    /\ run.at \in {"initSync", "plan"} /\ obj.exists => run.mem.fin = obj.fin
    /\ run.at \in {"initSync", "plan", "decide", "skipSync"} => ~run.err
    /\ run.at = "decide" /\ "EnsureFinalizer" \in run.plan => ~run.new.fin
    /\ run.at = "skipSync" => "EnsureFinalizer" \notin run.plan

FinPhase ==
    /\ run.at \in InPhase /\ "EnsureFinalizer" \in run.plan =>
          /\ run.at \in {"preSync", "exec", "post", "postSync"} /\ ~run.err
          /\ run.at \in {"post", "postSync"} => run.mem.fin
    /\ run.at \in {"unpauseSync", "clear"} => Phase = "EnsureDeleteOrReset"
    /\ run.at \in InPhase \ {"postSync"} /\ Phase = "EnsureCluster" =>
          ~IsFailed(run.mem.status)

FinCredit ==
    Adding => /\ \A s \in Failures : fails[s] <= faults
              /\ InCredit => \A s \in Failures : fails[s] < faults

LEMMA FinParts == FinInv <=> FinCopies /\ FinPlan /\ FinPhase /\ FinCredit
BY DEF FinInv, FinCopies, FinPlan, FinPhase, FinCredit

LEMMA InitFin == Init => FinInv
<1> SUFFICES ASSUME Init PROVE FinInv
  OBVIOUS
<1>1. \A s \in Failures : fails[s] <= faults
  BY DEF Init
<1> QED BY <1>1, IdleFields, NotFailed DEF Init, FinInv, InPhase, InCredit

\* The phase that adds the finalizer is the first of a plan that has it.
LEMMA FinalizerFirst ==
    ASSUME TypeOK, "EnsureFinalizer" \in run.plan
    PROVE  /\ Phase = "EnsureFinalizer"
           /\ "EnsureFinalizer" \notin run.plan \ {First(run.plan)}
<1>1. run.plan \in SUBSET FullPhases
  BY RunFields DEF TypeOK
<1> QED BY <1>1, FirstIs DEF Phase

\* A cluster that is shown to have failed has its finalizer, or had it.
LEMMA ShownWithFinalizer ==
    ASSUME TypeOK, BudgetInv, FinInv, MaxFaults < Limit, obj.exists,
           IsFailed(obj.status)
    PROVE  obj.fin \/ wiped
<1>1. /\ fails \in [Failures -> Nat] /\ faults \in 0 .. MaxFaults
      /\ Limit \in Nat /\ MaxFaults \in Nat
  BY TypeParts, LimitAssumption, BoundsAssumption
<1>2. fails[obj.status] >= Limit /\ obj.status \in Failures
  BY DEF BudgetInv, Exhausted, IsFailed
<1>3. Adding => fails[obj.status] <= faults
  BY <1>2 DEF FinInv
<1> QED BY <1>1, <1>2, <1>3 DEF Adding

LEMMA CopiesStep ==
    ASSUME TypeOK, Shape, BudgetInv, FinInv, MaxFaults < Limit, OneOf
    PROVE  FinCopies'
<1>0. FinCopies
  BY FinParts
<1>1. CASE QuietStep
  BY <1>0, <1>1 DEF QuietStep, Keeps, FinCopies
<1>2. CASE ChangeStep
  BY <1>0, <1>2 DEF ChangeStep, Keeps, FinCopies
<1>3. CASE ReadStep
  BY <1>0, <1>3 DEF ReadStep, Keeps, FinCopies
<1>4. CASE PostStep
  BY <1>0, <1>4 DEF PostStep, Keeps, FinCopies
<1>5. CASE NoteStep
  BY <1>0, <1>5 DEF NoteStep, Keeps, FinCopies
<1>6. CASE IdleStep
  BY <1>0, <1>6, IdleFields, NotFailed DEF IdleStep, FinCopies
<1>7. CASE BeginStep
  <2>1. IsFailed(obj.status) => obj.fin \/ wiped
    BY <1>7, ShownWithFinalizer DEF BeginStep
  <2> QED BY <1>0, <1>7, <2>1 DEF BeginStep, FinCopies
<1>8. CASE PlanStep
  BY <1>0, <1>8 DEF PlanStep, FinCopies
<1>9. CASE UserStep
  BY <1>0, <1>9 DEF UserStep, FinCopies
<1>10. CASE MergeStep
  <2>1. IsFailed(run'.mem.status) => IsFailed(run.mem.status)
    BY <1>10, NotFailed DEF MergeStep
  <2> QED BY <1>0, <1>10, <2>1 DEF MergeStep, FinCopies
<1>11. ASSUME NEW m \in Clusters, Resume(m), m.fin = run.mem.fin,
              run.at = "initSync" => m.status = run.mem.status,
              wiped' = wiped,
              \/ obj' = obj
              \/ obj'.fin = m.fin /\ (obj'.exists => ~obj'.deleting \/ m.fin)
       PROVE  FinCopies'
  <2>1. /\ run'.mem = m /\ run.at # "idle"
        /\ run'.entry = IF run.at = "initSync" THEN m ELSE run.entry
        /\ run'.at \notin {"idle", "initSync"}
    BY <1>11 DEF Resume, SyncPoints
  <2> QED BY <1>0, <1>11, <2>1 DEF FinCopies
<1>12. ASSUME NEW m \in Clusters, WriteStep(m) PROVE FinCopies'
  <2>1. /\ Resume(m) /\ m.fin = run.mem.fin /\ wiped' = wiped
        /\ obj'.fin = m.fin /\ (obj'.exists => ~obj'.deleting \/ m.fin)
        /\ ~run.mem.record => m.status = run.mem.status
    BY <1>12 DEF WriteStep, Settled
  <2>2. run.at = "initSync" => ~run.mem.record
    BY DEF Shape
  <2> QED BY <1>11, <2>1, <2>2
<1>13. CASE GoneStep
  BY <1>11, <1>13, RunFields DEF GoneStep, TypeOK
<1>14. ASSUME NEW m \in Clusters, TimeoutStep(m) PROVE FinCopies'
  <2>1. m.fin = run.mem.fin /\ obj' = obj /\ wiped' = wiped
    BY <1>14 DEF TimeoutStep, GivenUp, Settled
  <2>2. CASE Resume(m) /\ run.at \in Reports
    BY <1>11, <2>1, <2>2 DEF Reports
  <2>3. CASE ~(Resume(m) /\ run.at \in Reports)
    <3>1. /\ run'.mem = m /\ run'.at \in {"finish", "post"}
          /\ run.at \in SyncPoints
          /\ run'.entry = NewCluster \/ run'.entry = run.entry
      BY <1>14, <2>3 DEF TimeoutStep
    <3> QED BY <1>0, <2>1, <3>1, IdleFields, NotFailed DEF FinCopies, SyncPoints
  <2> QED BY <2>2, <2>3
<1>15. CASE WatchStep
  <2>1. run.at # "idle" /\ run.at # "initSync"
    BY <1>15 DEF WatchStep, Shape
  <2> QED BY <1>0, <1>15, <2>1, NotFailed DEF WatchStep, FinCopies
<1>16. CASE UNCHANGED <<obj, run, rec, wiped, starts, fails, faults>>
  BY <1>0, <1>16 DEF FinCopies
<1> QED BY <1>1, <1>2, <1>3, <1>4, <1>5, <1>6, <1>7, <1>8, <1>9, <1>10,
           <1>12, <1>13, <1>14, <1>15, <1>16 DEF OneOf

LEMMA PlanKept ==
    ASSUME TypeOK, Shape, FinInv, OneOf
    PROVE  FinPlan'
<1>0. FinPlan /\ FinPhase
  BY FinParts
<1>1. CASE QuietStep
  <2>1. CASE run'.at = "skipSync"
    <3>1. run.at = "decide" /\ ~NeedExecute(Phase, run.new) /\ run'.err = run.err
          /\ run'.plan = run.plan
      BY <1>1, <2>1 DEF QuietStep, Keeps
    <3>2. "EnsureFinalizer" \in run.plan => NeedExecute(Phase, run.new)
      BY <1>0, <3>1, FinalizerFirst, WorkIsOrdinary DEF NeedExecute, FinPlan
    <3> QED BY <1>0, <2>1, <3>1, <3>2 DEF FinPlan
  <2>2. CASE run'.at # "skipSync"
    BY <1>1, <2>2 DEF QuietStep, FinPlan
  <2> QED BY <2>1, <2>2
<1>2. CASE ChangeStep
  BY <1>2 DEF ChangeStep, FinPlan
<1>3. CASE ReadStep
  BY <1>3 DEF ReadStep, FinPlan
<1>4. CASE PostStep
  BY <1>4 DEF PostStep, FinPlan
<1>5. CASE NoteStep
  BY <1>5 DEF NoteStep, FinPlan
<1>6. CASE IdleStep
  BY <1>6, IdleFields DEF IdleStep, FinPlan
<1>7. CASE BeginStep
  BY <1>7 DEF BeginStep, FinPlan
<1>8. CASE PlanStep
  BY <1>0, <1>8 DEF PlanStep, FinPlan
<1>9. CASE UserStep
  BY <1>0, <1>9 DEF UserStep, FinPlan
<1>10. CASE MergeStep
  BY <1>0, <1>10 DEF MergeStep, FinPlan
<1>11. ASSUME NEW m, Resume(m),
              run.at = "initSync" /\ obj'.exists => m.fin = obj'.fin
       PROVE  FinPlan'
  <2>1. /\ run'.mem = m /\ run'.err = run.err
        /\ run'.at = "plan" => run.at = "initSync"
        /\ run'.at = "decide" => \/ run.at = "skipSync"
                                 \/ run.at = "postSync" /\ ~run.err
        /\ run'.at \notin {"initSync", "skipSync"}
    BY <1>11 DEF Resume, SyncPoints
  <2>2. run'.at = "decide" => "EnsureFinalizer" \notin run'.plan
    BY <1>11, FinalizerFirst DEF Resume
  <2> QED BY <1>0, <1>11, <2>1, <2>2 DEF FinPlan
<1>12. ASSUME NEW m \in Clusters, WriteStep(m) PROVE FinPlan'
  BY <1>11, <1>12 DEF WriteStep
<1>13. CASE GoneStep
  BY <1>11, <1>13 DEF GoneStep
<1>14. ASSUME NEW m \in Clusters, TimeoutStep(m) PROVE FinPlan'
  <2>1. CASE Resume(m) /\ run.at \in Reports
    BY <1>11, <2>1 DEF Reports
  <2>2. CASE ~(Resume(m) /\ run.at \in Reports)
    <3>1. run'.at \in {"finish", "post"}
      BY <1>14, <2>2 DEF TimeoutStep
    <3> QED BY <3>1 DEF FinPlan
  <2> QED BY <2>1, <2>2
<1>15. CASE WatchStep
  <2>1. run.at \notin {"initSync", "plan"}
    BY <1>15 DEF WatchStep, Shape
  <2> QED BY <1>0, <1>15, <2>1 DEF WatchStep, FinPlan
<1>16. CASE UNCHANGED <<obj, run, rec, wiped, starts, fails, faults>>
  BY <1>0, <1>16 DEF FinPlan
<1> QED BY <1>1, <1>2, <1>3, <1>4, <1>5, <1>6, <1>7, <1>8, <1>9, <1>10,
           <1>12, <1>13, <1>14, <1>15, <1>16 DEF OneOf

\* A flow past the phase that adds the finalizer has it, or was refused it.
LEMMA PhaseKept ==
    ASSUME TypeOK, Shape, FinInv, OneOf
    PROVE  FinPhase'
<1>0. FinPlan /\ FinPhase
  BY FinParts
<1>p. run'.plan = run.plan => Phase' = Phase
  BY DEF Phase
<1>f. "EnsureFinalizer" \in run.plan => Phase = "EnsureFinalizer"
  BY FinalizerFirst
<1>1. CASE QuietStep
  BY <1>0, <1>1, <1>p, <1>f DEF QuietStep, Keeps, FinPhase, InPhase
<1>2. CASE ChangeStep
  BY <1>0, <1>2, <1>p, <1>f, NotFailed DEF ChangeStep, Keeps, FinPhase, InPhase
<1>3. CASE ReadStep
  BY <1>0, <1>3, <1>p, <1>f
     DEF ReadStep, Keeps, FinPhase, FinPlan, InPhase, IsFailed
<1>4. CASE PostStep
  BY <1>0, <1>4, <1>p DEF PostStep, Keeps, FinPhase, InPhase
<1>5. CASE NoteStep
  BY <1>5 DEF NoteStep, FinPhase, InPhase
<1>6. CASE IdleStep
  BY <1>6, IdleFields DEF IdleStep, FinPhase, InPhase
<1>7. CASE BeginStep
  BY <1>7 DEF BeginStep, FinPhase, InPhase
<1>8. CASE PlanStep
  BY <1>8 DEF PlanStep, FinPhase, InPhase
<1>9. CASE UserStep
  BY <1>0, <1>9, <1>p DEF UserStep, FinPhase
<1>10. CASE MergeStep
  <2>1. IsFailed(run'.mem.status) => IsFailed(run.mem.status)
    BY <1>10, NotFailed DEF MergeStep
  <2> QED BY <1>0, <1>10, <1>p, <2>1 DEF MergeStep, FinPhase
<1>11. ASSUME NEW m, Resume(m),
              ~run.mem.record => m.status = run.mem.status
       PROVE  FinPhase'
  <2>1. /\ run'.mem = m /\ run'.err = run.err
        /\ run'.at \in InPhase \/ run'.at \notin InPhase
        /\ run'.at \notin {"unpauseSync", "postSync", "preSync"}
        /\ run'.at = "clear" => run.at = "unpauseSync"
        /\ run'.at = "exec" => run.at = "preSync"
        /\ run'.at = "post" => run.at = "eraseSync"
        /\ run'.at \in InPhase => run.at \in InPhase \ {"postSync"}
        /\ run'.at \in InPhase /\ run'.at # "exec" =>
              run.at \notin {"preSync", "exec", "post", "postSync"}
    BY <1>11 DEF Resume, SyncPoints, InPhase
  <2>2. run'.at \in InPhase => run'.plan = run.plan
    BY <1>11 DEF Resume, InPhase
  <2>3. run.at \in InPhase \ {"postSync"} => m.status = run.mem.status
    BY <1>11 DEF Shape
  <2> QED BY <1>0, <1>p, <2>1, <2>2, <2>3 DEF FinPhase, InPhase
<1>12. ASSUME NEW m \in Clusters, WriteStep(m) PROVE FinPhase'
  BY <1>11, <1>12 DEF WriteStep, Settled
<1>13. CASE GoneStep
  BY <1>11, <1>13 DEF GoneStep
<1>14. ASSUME NEW m \in Clusters, TimeoutStep(m) PROVE FinPhase'
  <2>0. ~run.mem.record => m.status = run.mem.status
    BY <1>14 DEF TimeoutStep, GivenUp, Settled
  <2>1. CASE Resume(m) /\ run.at \in Reports
    BY <1>11, <2>0, <2>1
  <2>2. CASE ~(Resume(m) /\ run.at \in Reports)
    <3>1. /\ run.at \in SyncPoints \ Reports /\ run'.mem = m
          /\ run'.plan = run.plan
          /\ \/ run'.at = "finish"
             \/ run.at # "initSync" /\ run'.at = "post"
      BY <1>14, <2>2 DEF TimeoutStep
    <3>2. run'.at = "finish" \/
          (/\ run'.at = "post" /\ run.at \in InPhase \ {"postSync"}
           /\ run.at \notin {"preSync", "exec", "post", "postSync"})
      BY <3>1 DEF SyncPoints, Reports, InPhase
    <3>3. run.at \in InPhase \ {"postSync"} => m.status = run.mem.status
      BY <2>0 DEF Shape
    <3> QED BY <1>0, <1>p, <3>1, <3>2, <3>3 DEF FinPhase, InPhase
  <2> QED BY <2>1, <2>2
<1>15. CASE WatchStep
  BY <1>0, <1>15, <1>p, NotFailed DEF WatchStep, FinPhase
<1>16. CASE UNCHANGED <<obj, run, rec, wiped, starts, fails, faults>>
  BY <1>0, <1>16, <1>p DEF FinPhase
<1> QED BY <1>1, <1>2, <1>3, <1>4, <1>5, <1>6, <1>7, <1>8, <1>9, <1>10,
           <1>12, <1>13, <1>14, <1>15, <1>16 DEF OneOf

\* Failures are paid for by refused updates as long as there is no finalizer.
LEMMA CreditKept ==
    ASSUME TypeOK, Shape, PauseInv, FinInv, OneOf
    PROVE  FinCredit'
<1>0. FinCopies /\ FinPlan /\ FinPhase /\ FinCredit /\ DeletionKnown
  BY FinParts, PauseParts
<1>t. fails \in [Failures -> Nat] /\ faults \in Nat
  BY TypeParts
<1>a. ASSUME Adding' => Adding, InCredit' => InCredit,
             fails' = fails, faults' \in {faults, faults + 1}
      PROVE  FinCredit'
  BY <1>0, <1>t, <1>a DEF FinCredit
<1>b. ASSUME Adding' => Adding, fails' = fails, faults' = faults + 1
      PROVE  FinCredit'
  BY <1>0, <1>t, <1>b DEF FinCredit
<1>c. ASSUME Adding' => FALSE PROVE FinCredit'
  BY <1>c DEF FinCredit
<1>1. CASE QuietStep
  <2>1. InCredit' => InCredit
    BY <1>1 DEF QuietStep, Keeps, InCredit, InPhase
  <2>2. Adding' => Adding
    BY <1>1 DEF QuietStep, Adding
  <2> QED BY <1>a, <1>1, <2>1, <2>2 DEF QuietStep
<1>2. CASE ChangeStep
  <2>1. InCredit' => InCredit
    BY <1>2 DEF ChangeStep, Keeps, InCredit, InPhase
  <2>2. Adding' => Adding
    BY <1>2 DEF ChangeStep, Adding
  <2> QED BY <1>a, <1>2, <2>1, <2>2 DEF ChangeStep
<1>3. CASE ReadStep
  <2>1. InCredit' => InCredit
    BY <1>3 DEF ReadStep, Keeps, InCredit, InPhase
  <2>2. Adding' => Adding
    BY <1>3 DEF ReadStep, Adding
  <2> QED BY <1>a, <1>3, <2>1, <2>2 DEF ReadStep
<1>4. CASE PostStep
  <2>1. /\ Adding' => Adding
        /\ run.at = "post" /\ run'.at = "postSync" /\ run'.err = run.err
        /\ run'.plan = run.plan /\ faults' = faults
        /\ fails' = IF IsFailed(run'.mem.status)
                    THEN [fails EXCEPT ![run'.mem.status] = @ + 1] ELSE fails
    BY <1>4 DEF PostStep, Keeps, Adding
  <2>2. IsFailed(run'.mem.status) => run.err
    BY <1>0, <1>4 DEF PostStep, FinPhase, InPhase
  <2>3. "EnsureFinalizer" \in run.plan => ~run.err
    BY <1>0, <2>1 DEF FinPhase, InPhase
  <2>4. InCredit' => "EnsureFinalizer" \notin run.plan /\ ~run.err
    BY <2>1 DEF InCredit
  <2>5. "EnsureFinalizer" \notin run.plan => InCredit
    BY <2>1 DEF InCredit, InPhase
  <2>6. CASE run.err
    <3>1. Adding' => \A s \in Failures : fails[s] < faults
      BY <1>0, <2>1, <2>3, <2>5, <2>6 DEF FinCredit
    <3>2. Adding' => \A s \in Failures : fails'[s] <= faults
      BY <1>t, <2>1, <3>1
    <3> QED BY <2>1, <2>4, <2>6, <3>2 DEF FinCredit
  <2>7. CASE ~run.err
    BY <1>a, <2>1, <2>2, <2>4, <2>5, <2>7
  <2> QED BY <2>6, <2>7
<1>5. CASE NoteStep
  BY <1>a, <1>5 DEF NoteStep, InCredit, InPhase, Adding
<1>6. CASE IdleStep
  BY <1>a, <1>6, IdleFields DEF IdleStep, InCredit, InPhase, Adding
<1>7. CASE BeginStep
  BY <1>a, <1>7 DEF BeginStep, InCredit, InPhase, Adding
<1>8. CASE PlanStep
  <2>1. Adding' => Adding
    BY <1>8 DEF PlanStep, Adding
  <2>2. Adding => ~run.mem.fin /\ ~run.mem.deleting
    BY <1>0, <1>8 DEF Adding, PlanStep, FinPlan, FinCopies, DeletionKnown
  <2>3. Adding' => ~InCredit'
    BY <1>8, <2>1, <2>2 DEF PlanStep, InCredit
  <2> QED BY <1>0, <1>8, <2>1, <2>3 DEF PlanStep, FinCredit
<1>9. CASE UserStep
  BY <1>a, <1>9 DEF UserStep, InCredit, Adding
<1>10. CASE MergeStep
  BY <1>a, <1>10 DEF MergeStep, InCredit, Adding
<1>11. ASSUME NEW m \in Clusters, WriteStep(m) PROVE FinCredit'
  <2>1. /\ Resume(m) /\ obj.exists /\ wiped' = wiped /\ faults' = faults
        /\ obj'.fin = run.mem.fin
        /\ fails' = IF run.patch = "retry" THEN [s \in Failures |-> 0]
                    ELSE fails
    BY <1>11 DEF WriteStep, Settled
  <2>2. run.at \in SyncPoints /\ run.at # "idle"
    BY <2>1 DEF Resume, SyncPoints
  <2>3. Adding' => Adding /\ ~run.mem.fin
    BY <1>0, <2>1, <2>2 DEF Adding, FinCopies
  <2>4. CASE run.patch = "retry"
    <3>1. run'.at = "plan"
      BY <2>1, <2>4 DEF Shape, Resume
    <3>2. ~InCredit' /\ \A s \in Failures : fails'[s] <= faults'
      BY <1>t, <2>1, <2>4, <3>1 DEF InCredit, InPhase
    <3> QED BY <3>2 DEF FinCredit
  <2>5. CASE run.patch # "retry"
    <3>1. ASSUME InCredit', Adding' PROVE InCredit
      <4>1. /\ run.at \in InPhase \cup {"skipSync"}
            /\ run.at = "postSync" => ~run.err
            /\ run.at \notin {"postSync", "skipSync"} => run'.plan = run.plan
        BY <2>1, <3>1 DEF Resume, SyncPoints, InCredit, InPhase
      <4>2. run.at \in {"postSync", "skipSync"} =>
                "EnsureFinalizer" \notin run.plan
        BY <1>0, <2>3, <3>1 DEF FinPhase, FinPlan, InPhase
      <4> QED BY <3>1, <4>1, <4>2 DEF InCredit
    <3> QED BY <1>0, <2>1, <2>3, <2>5, <3>1 DEF FinCredit
  <2> QED BY <2>4, <2>5
<1>12. CASE GoneStep
  BY <1>c, <1>12 DEF GoneStep, Adding
<1>13. ASSUME NEW m \in Clusters, TimeoutStep(m) PROVE FinCredit'
  BY <1>b, <1>13 DEF TimeoutStep, Adding
<1>14. CASE WatchStep
  <2>1. /\ fails' = fails /\ faults' = faults /\ wiped' = wiped
        /\ run'.at = run.at /\ run'.plan = run.plan /\ run'.err = run.err
    BY <1>14 DEF WatchStep
  <2>2. InCredit' => InCredit
    BY <2>1 DEF InCredit
  <2>3. Adding' => Adding
    BY <1>0, <1>14 DEF WatchStep, Adding, DeletionKnown
  <2> QED BY <1>a, <2>1, <2>2, <2>3
<1>15. CASE UNCHANGED <<obj, run, rec, wiped, starts, fails, faults>>
  BY <1>a, <1>15 DEF InCredit, Adding
<1> QED BY <1>1, <1>2, <1>3, <1>4, <1>5, <1>6, <1>7, <1>8, <1>9, <1>10,
           <1>11, <1>12, <1>13, <1>14, <1>15 DEF OneOf

LEMMA FinalizerStep ==
    ASSUME TypeOK, Shape, FinInv, OneOf
    PROVE  obj.fin /\ ~obj'.fin => wiped
<1>0. FinCopies
  BY FinParts
<1>1. ASSUME NEW m \in Clusters, WriteStep(m)
      PROVE  obj.fin /\ ~obj'.fin => wiped
  <2>1. run.at # "idle" /\ obj'.fin = run.mem.fin
    BY <1>1 DEF WriteStep, Settled, Resume, SyncPoints
  <2> QED BY <1>0, <2>1 DEF FinCopies
<1>2. CASE WatchStep
  <2>1. run.at # "idle" /\ (obj' = obj \/ obj'.fin = run.mem.fin)
    BY <1>2 DEF WatchStep, Shape
  <2> QED BY <1>0, <2>1 DEF FinCopies
<1>3. CASE obj' = obj \/ obj'.fin = obj.fin
  BY <1>3
<1>4. CASE \E m \in Clusters : TimeoutStep(m)
  BY <1>3, <1>4 DEF TimeoutStep
<1> QED BY <1>1, <1>2, <1>3, <1>4
        DEF OneOf, QuietStep, ChangeStep, ReadStep, PostStep, NoteStep,
            IdleStep, BeginStep, PlanStep, UserStep, MergeStep, GoneStep

(***************************************************************************)
(* The finalizer goes only after the deletion has removed everything else. *)
(* The hypothesis is needed: once an update that adds the finalizer has    *)
(* been refused as often as the retry budget allows, a cluster is shown to *)
(* have failed while it has no finalizer; the next reconcile adds it, and  *)
(* checkAndNotifyManualIntervention then writes the entry object back,     *)
(* which is still without.                                                 *)
(***************************************************************************)
THEOREM FinalizerStays == ASSUME MaxFaults < Limit
                          PROVE  Spec => FinalizerKept
<1> DEFINE IInv == TypeOK /\ Shape /\ BudgetInv /\ PauseInv /\ FinInv
<1>1. Init => IInv
  BY InitType, InitShape, InitBudget, InitPause, InitFin
<1>2. IInv /\ [Next]_vars
         => IInv' /\ [obj.fin /\ ~obj'.fin => wiped]_vars
  <2> SUFFICES ASSUME IInv, [Next]_vars
               PROVE  IInv' /\ [obj.fin /\ ~obj'.fin => wiped]_vars
    OBVIOUS
  <2>0. TypeOK /\ Shape /\ BudgetInv /\ PauseInv /\ FinInv
    OBVIOUS
  <2>1. TypeOK' /\ OneOf
    BY <2>0, StepsAre
  <2>2. Shape' /\ DeletionKnown' /\ PauseSeen' /\ PauseStopsWork'
    BY <2>0, <2>1, ShapeStep, DeletionStep, SeenStep, PauseStopsStep
  <2>3. PauseInv'
    BY <2>2 DEF PauseInv, DeletionKnown, PauseSeen
  <2>4. BudgetInv'
    BY <2>0, <2>1, BudgetStep
  <2>5. FinCopies' /\ FinPlan' /\ FinPhase' /\ FinCredit'
    BY <2>0, <2>1, CopiesStep, PlanKept, PhaseKept, CreditKept
  <2>6. FinInv'
    BY <2>5 DEF FinInv, FinCopies, FinPlan, FinPhase, FinCredit
  <2>7. obj.fin /\ ~obj'.fin => wiped
    BY <2>0, <2>1, FinalizerStep
  <2> QED BY <2>1, <2>2, <2>3, <2>4, <2>6, <2>7
<1> QED BY <1>1, <1>2, PTL DEF Spec, FinalizerKept
=============================================================================
