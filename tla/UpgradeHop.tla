----------------------------- MODULE UpgradeHop -----------------------------
(***************************************************************************)
(* How a cluster is taken to another openFuyao version, hop by hop.  The   *)
(* ClusterVersion controller searches the path, fetches the ReleaseImage   *)
(* of the first hop and marks the BKECluster with the annotation           *)
(* upgrade-ready; the BKECluster controller runs the DAG of that release   *)
(* (DagExec has its inside), records the version, removes the annotation   *)
(* and tells the ClusterVersion, whose change starts the next hop.  The    *)
(* two share objects on the API server and no lock; each acts on what it   *)
(* read earlier, and the process of both may crash between any two steps.  *)
(***************************************************************************)
EXTENDS UpgradePath, StatusManager

CONSTANTS
    Versions,   \* numbers, in the order of the versions
    RuleSets,   \* the UpgradePath objects to consider
    Comps,      \* the components of a release
    Late,       \* may ClusterVersion reconciles come at any moment of a hop?
    MaxEdits,   \* bound on the user's changes of spec.desiredVersion
    MaxFails,   \* bound on pulls, checks, components and phases that fail
    MaxFaults   \* bound on crashes and on calls the API server refuses

None == 0   \* no version

ASSUME UpgradeHopAssumption ==
    /\ Versions \subseteq Nat \ {None} /\ Versions # {}
    /\ \A R \in RuleSets :
          /\ IsFiniteSet(R)
          /\ R \subseteq [from: Versions, to: Versions, blocked: BOOLEAN]
    /\ Comps # {} /\ IsFiniteSet(Comps)
    /\ Late \in BOOLEAN
    /\ MaxEdits \in Nat /\ MaxFails \in Nat /\ MaxFaults \in Nat

VARIABLES
    rules,  \* the UpgradePath
    route,  \* what the PathService answers for each pair of versions
    cv,     \* the ClusterVersion
    bc,     \* the BKECluster
    ri,     \* the phase of the ReleaseImage of each version
    comps,  \* the version each component of the cluster really has
    crec,   \* the reconcile of the ClusterVersion controller
    brec,   \* the reconcile of the BKECluster controller
    rec,    \* the StatusManager's record of the cluster
    cq, bq, \* is the ClusterVersion, the BKECluster, in its work queue?
    edits, fails, faults

objects == <<rules, route, cv, bc, ri, comps>>
bounds == <<edits, fails, faults>>
vars == <<objects, crec, brec, rec, cq, bq, bounds>>

Phases == {Blank, "Installing", "PreChecking", "PreCheckFailed", "Upgrading",
           "Ready", "Failed"}
Images == {"absent", "Pending", "Valid", "Invalid"}
MaybeVersion == Versions \cup {None}

PathTo(from, to) == route[<<from, to>>]

CPoints == {"idle", "decide", "ensure", "mark"}
BPoints == {"idle", "resolve", "spec", "status", "progress", "dag", "abort",
            "abortMark", "abortHop", "finish", "unmark", "hop", "flow",
            "install"}

Init ==
    /\ rules \in RuleSets
    /\ route = [p \in Versions \X Versions |->
                   IF Loads(rules) THEN FindPath(rules, p[1], p[2]) ELSE NoPath]
    /\ \E v \in Versions :
          /\ bc = [spec |-> v, ver |-> None, ann |-> None, st |-> "Deploying",
                   target |-> None, done |-> {}]
          /\ comps = [c \in Comps |-> v]
    /\ cv = [exists |-> FALSE, desired |-> None, current |-> None, phase |-> Blank]
    /\ ri = [v \in Versions |-> "absent"]
    /\ crec = [pc |-> "idle", cur |-> None, des |-> None, phase |-> Blank,
               ann |-> None, hop |-> None, inst |-> FALSE]
    /\ brec = [pc |-> "idle", hop |-> None, ann |-> None, st |-> Blank]
    /\ rec = EmptyRecord
    /\ cq = FALSE /\ bq = TRUE
    /\ edits = 0 /\ fails = 0 /\ faults = 0

\* OpenFuyaoVersionForBKECluster
InstalledVersion(b) == IF b.ver # None THEN b.ver ELSE b.spec

CIdle == [crec EXCEPT !.pc = "idle"]
BIdle == [brec EXCEPT !.pc = "idle"]

Fail == fails < MaxFails /\ fails' = fails + 1
Fault == faults < MaxFaults /\ faults' = faults + 1
-----------------------------------------------------------------------------
(***************************************************************************)
(* The ClusterVersion controller.  It watches nothing but ClusterVersions. *)
(***************************************************************************)

\* setStatus sends the difference from the object it holds: a phase that is
\* the one it has read is not written.
SetPhase(p) == [cv EXCEPT !.phase = IF crec.phase = p THEN @ ELSE p]

CurrentVersion ==
    IF cv.current # None THEN cv.current ELSE InstalledVersion(bc)

CVRead ==
    /\ cq /\ crec.pc = "idle" /\ cv.exists
    /\ cq' = FALSE
    /\ crec' = [pc |-> "decide", des |-> cv.desired, phase |-> cv.phase,
                cur |-> CurrentVersion, ann |-> bc.ann, hop |-> None,
                inst |->
                  /\ cv.current \in {None, cv.desired}
                  /\ bc.st # "Ready"
                  /\ cv.current # None => ri[cv.desired] = "absent"]
    /\ UNCHANGED <<objects, brec, rec, bq, bounds>>

\* An install: only the ReleaseImage is needed.
DecideInstall ==
    /\ crec.inst
    /\ cv' = SetPhase("Installing")
    /\ cq' = (cq \/ cv' # cv)
    /\ crec' = [crec EXCEPT !.pc = "ensure", !.hop = crec.des,
                            !.phase = "Installing"]
    /\ UNCHANGED <<bc, bq>>

\* clearUpgradeReady
DecideThere ==
    /\ ~crec.inst /\ crec.cur = crec.des
    /\ bc' = [bc EXCEPT !.ann = IF crec.ann # None THEN None ELSE @]
    /\ bq' = (bq \/ bc' # bc)
    /\ crec' = CIdle
    /\ UNCHANGED <<cv, cq>>

\* Should the upgrade go on from the phase the ClusterVersion is in?
\* mutant: a failed precheck is final
OpenUntilPreCheckFails(phase) == phase \notin {"Failed", "PreCheckFailed"}

MayUpgrade(phase) == phase # "Failed"

DecideFailed ==
    /\ ~crec.inst /\ crec.cur # crec.des
    /\ ~MayUpgrade(crec.phase)
    /\ crec' = CIdle
    /\ UNCHANGED <<cv, bc, cq, bq>>

\* The condition carries the time, so the write is an event and the
\* ClusterVersion is queued again.
DecideBlocked ==
    /\ ~crec.inst /\ crec.cur # crec.des
    /\ MayUpgrade(crec.phase)
    /\ PathTo(crec.cur, crec.des) = NoPath
    /\ cv' = SetPhase("PreCheckFailed")
    /\ cq' = TRUE
    /\ crec' = CIdle
    /\ UNCHANGED <<bc, bq>>

\* mutant: the cluster is taken to the last version at once
LastTarget(path) == Last(path)

\* path[0].To
HopTarget(path) == path[2]

DecideHop ==
    /\ ~crec.inst /\ crec.cur # crec.des
    /\ MayUpgrade(crec.phase)
    /\ PathTo(crec.cur, crec.des) # NoPath
    /\ crec' = [crec EXCEPT !.pc = "ensure",
                            !.hop = HopTarget(PathTo(crec.cur, crec.des))]
    /\ UNCHANGED <<cv, bc, cq, bq>>

CVDecide ==
    /\ crec.pc = "decide"
    /\ \/ DecideInstall \/ DecideThere \/ DecideFailed \/ DecideBlocked
       \/ DecideHop
    /\ UNCHANGED <<rules, route, ri, comps, brec, rec, bounds>>

\* ReleaseImageEnsurer.Ensure: there is none, and one is made of the image
\* in the registry; Reconcile comes back for its verdict.
EnsureCreates ==
    /\ ri[crec.hop] = "absent"
    /\ ri' = [ri EXCEPT ![crec.hop] = "Pending"]
    /\ crec' = CIdle /\ cq' = TRUE
    /\ UNCHANGED <<cv, fails>>

EnsureWaits ==
    /\ ri[crec.hop] = "Pending"
    /\ crec' = CIdle /\ cq' = TRUE
    /\ UNCHANGED <<cv, ri, fails>>

\* The registry has no image, or the one there is does not pass.
EnsureFails ==
    /\ \/ ri[crec.hop] = "absent" /\ Fail
       \/ ri[crec.hop] = "Invalid" /\ UNCHANGED fails
    /\ cv' = SetPhase(IF crec.inst THEN "Failed" ELSE "PreCheckFailed")
    /\ crec' = CIdle /\ cq' = TRUE
    /\ UNCHANGED ri

EnsureDone ==
    /\ ri[crec.hop] = "Valid"
    /\ crec.inst \/ crec.ann = crec.hop
    /\ crec' = CIdle
    /\ UNCHANGED <<cv, ri, cq, fails>>

EnsureAndMark ==
    /\ ri[crec.hop] = "Valid"
    /\ ~crec.inst /\ crec.ann # crec.hop
    /\ cv' = SetPhase("PreChecking")
    /\ cq' = (cq \/ cv' # cv)
    /\ crec' = [crec EXCEPT !.pc = "mark"]
    /\ UNCHANGED <<ri, fails>>

CVEnsure ==
    /\ crec.pc = "ensure"
    /\ \/ EnsureCreates \/ EnsureWaits \/ EnsureFails \/ EnsureDone
       \/ EnsureAndMark
    /\ UNCHANGED <<rules, route, bc, comps, brec, rec, bq, edits, faults>>

\* markUpgradeReady: a patch that asks for no resource version.
CVMark ==
    /\ crec.pc = "mark"
    /\ bc' = [bc EXCEPT !.ann = crec.hop]
    /\ bq' = (bq \/ bc' # bc)
    /\ crec' = CIdle
    /\ UNCHANGED <<rules, route, cv, ri, comps, brec, rec, cq, bounds>>

\* A call of the ClusterVersion controller fails: the key is queued again.
CVError ==
    /\ crec.pc \in {"decide", "ensure", "mark"}
    /\ Fault
    /\ crec' = CIdle /\ cq' = TRUE
    /\ UNCHANGED <<objects, brec, rec, bq, edits, fails>>

\* The ReleaseImage controller checks the release.  It writes the time of the
\* check into the status, which queues the object again.
RIPasses(v) ==
    /\ ri[v] # "absent"
    /\ ri' = [ri EXCEPT ![v] = "Valid"]
    /\ UNCHANGED <<rules, route, cv, bc, comps, crec, brec, rec, cq, bq,
                   bounds>>

RIFails(v) ==
    /\ ri[v] # "absent" /\ Fail
    /\ ri' = [ri EXCEPT ![v] = "Invalid"]
    /\ UNCHANGED <<rules, route, cv, bc, comps, crec, brec, rec, cq, bq,
                   edits, faults>>
-----------------------------------------------------------------------------
(***************************************************************************)
(* The BKECluster controller.                                              *)
(***************************************************************************)

BRead ==
    /\ bq /\ brec.pc = "idle"
    /\ bq' = FALSE
    /\ cv' = IF cv.exists THEN cv
             ELSE [cv EXCEPT !.exists = TRUE, !.desired = InstalledVersion(bc)]
    /\ cq' = (cq \/ ~cv.exists)
    /\ brec' = [pc |-> IF bc.ann # None THEN "resolve" ELSE "flow",
                hop |-> bc.ann, ann |-> bc.ann, st |-> bc.st]
    /\ UNCHANGED <<rules, route, bc, ri, comps, crec, rec, bounds>>

\* A reconcile that ends with an error is repeated, unless the cluster it
\* holds has a failed status: then the error is swallowed.
EndsWithError == brec' = BIdle /\ bq' = (bq \/ brec.st # "UpgradeFailed")

BResolve ==
    /\ brec.pc = "resolve"
    /\ \/ /\ ri[brec.hop] = "Valid"
          /\ brec' = [brec EXCEPT !.pc = "spec"]
          /\ UNCHANGED bq
       \/ ri[brec.hop] = "Pending" /\ brec' = BIdle /\ bq' = TRUE
       \/ ri[brec.hop] \in {"absent", "Invalid"} /\ EndsWithError
    /\ UNCHANGED <<objects, crec, rec, cq, bounds>>

(***************************************************************************)
(* SyncStatusUntilComplete: the object in memory takes over what others    *)
(* have changed in metadata and spec, the annotation among it, and its     *)
(* status is written.                                                      *)
(***************************************************************************)
Sync(pc, b) ==
    /\ bc' = b
    /\ brec' = [brec EXCEPT !.pc = pc, !.ann = bc.ann, !.st = b.st]
    /\ UNCHANGED <<rules, route, cv, ri, comps, crec, cq, edits, faults>>

SyncSpec ==
    /\ brec.pc = "spec"
    /\ Sync("status", [bc EXCEPT !.spec = brec.hop])
    /\ bq' = (bq \/ bc' # bc)
    /\ UNCHANGED <<rec, fails>>

PatchClusterStatus ==
    /\ brec.pc = "status"
    /\ LET r == RecordCluster(rec, "Upgrading", FALSE, FALSE)
       IN  rec' = r.rec /\ Sync("progress", [bc EXCEPT !.st = r.status])
    /\ UNCHANGED <<bq, fails>>

\* mutant: what was completed for another version still counts
KeepProgress(b, t) == [b EXCEPT !.target = t]

\* EnsureInitialized
Progress(b, t) ==
    IF b.target = t THEN b ELSE [b EXCEPT !.target = t, !.done = {}]

EnsureProgress ==
    /\ brec.pc = "progress"
    /\ Sync("dag", Progress(bc, brec.hop))
    /\ UNCHANGED <<bq, rec, fails>>

\* A component that is completed for this target is skipped.
BComponent(c) ==
    /\ brec.pc = "dag" /\ c \notin bc.done
    /\ comps' = [comps EXCEPT ![c] = brec.hop]
    /\ bc' = [bc EXCEPT !.done = @ \cup {c}]
    /\ UNCHANGED <<rules, route, cv, ri, crec, brec, rec, cq, bq, bounds>>

BDagDone ==
    /\ brec.pc = "dag" /\ bc.done = Comps
    /\ brec' = [brec EXCEPT !.pc = "finish"]
    /\ UNCHANGED <<objects, crec, rec, cq, bq, bounds>>

(***************************************************************************)
(* A hop takes much longer than a reconcile of the ClusterVersion.  Unless *)
(* Late, that controller is done with its queue when the hop ends, and     *)
(* nothing queues the ClusterVersion until the hop is on record.           *)
(***************************************************************************)
InTime == Late \/ (~cq /\ crec.pc = "idle")

\* handleDeclarativeUpgradeDAGFailure: retry while the budget lasts.
HandleDAGFailure ==
    /\ brec.pc = "dag" /\ bc.done # Comps
    /\ InTime
    /\ Fail
    /\ LET r == RecordCluster(rec, "UpgradeFailed", TRUE, FALSE)
       IN  /\ rec' = r.rec
           /\ Sync(IF r.rec.requeue THEN "idle" ELSE "abort",
                   [bc EXCEPT !.st = r.status])
           /\ bq' = (bq \/ r.rec.requeue)

\* abortDeclarativeUpgrade.  The hop it gives up is the one in the annotation.
Abort ==
    /\ brec.pc = "abort"
    /\ bc' = [bc EXCEPT !.st = "UpgradeFailed"]
    /\ brec' = [brec EXCEPT !.pc = "abortMark", !.hop = brec.ann,
                            !.ann = bc.ann, !.st = "UpgradeFailed"]
    /\ UNCHANGED <<rules, route, cv, ri, comps, crec, rec, cq, bq, bounds>>

\* A patch that removes the annotation whatever its value is by now.
Unmark(pc) ==
    /\ bc' = [bc EXCEPT !.ann = IF brec.ann # None THEN None ELSE @]
    /\ bq' = (bq \/ bc' # bc)
    /\ brec' = [brec EXCEPT !.pc = pc]
    /\ UNCHANGED <<rules, route, cv, ri, comps, crec, rec, cq, bounds>>

AbortMark == brec.pc = "abortMark" /\ Unmark("abortHop")

FailUpgradeHop ==
    /\ brec.pc = "abortHop"
    /\ cv' = IF brec.hop # None THEN [cv EXCEPT !.phase = "Failed"] ELSE cv
    /\ cq' = (cq \/ brec.hop # None)
    /\ brec' = [brec EXCEPT !.pc = "install"]
    /\ UNCHANGED <<rules, route, bc, ri, comps, crec, rec, bq, bounds>>

\* completeDeclarativeUpgrade takes the version from the annotation again.
PersistFinished ==
    /\ brec.pc = "finish" /\ InTime
    /\ \/ /\ brec.ann # None
          /\ bc' = [bc EXCEPT !.ver = brec.ann]
          /\ brec' = [brec EXCEPT !.pc = "unmark", !.hop = brec.ann]
          /\ UNCHANGED bq
       \/ brec.ann = None /\ EndsWithError /\ UNCHANGED bc
    /\ UNCHANGED <<rules, route, cv, ri, comps, crec, rec, cq, bounds>>

RemoveMark == brec.pc = "unmark" /\ Unmark("hop")

CompleteUpgradeHop ==
    /\ brec.pc = "hop"
    /\ cv' = [cv EXCEPT !.current = brec.hop,
                        !.phase = IF brec.hop = cv.desired THEN "Ready"
                                  ELSE "Upgrading"]
    /\ cq' = (cq \/ cv' # cv)
    /\ brec' = [brec EXCEPT !.pc = "flow"]
    /\ UNCHANGED <<rules, route, bc, ri, comps, crec, rec, bq, bounds>>

\* NeedsInstallCompletion, for a version that is the desired one.
NeedsInstallCompletion(v) ==
    /\ cv.desired = v
    /\ cv.current \in {None, v}
    /\ cv.phase # "Upgrading" \/ cv.current = None

InstallStatus(v) ==
    IF NeedsInstallCompletion(v)
    THEN [cv EXCEPT !.current = v, !.phase = "Ready"] ELSE cv

(***************************************************************************)
(* The phase flow, of which only EnsureCluster matters here: a cluster     *)
(* that is found healthy is Ready.  After a failed upgrade EnsureCluster   *)
(* may not get its turn.                                                   *)
(***************************************************************************)
PhaseFlow ==
    /\ brec.pc = "flow"
    /\ \/ /\ bc' = [bc EXCEPT !.ver = InstalledVersion(bc), !.st = "Ready"]
          /\ cv' = IF bc.ann = None THEN InstallStatus(InstalledVersion(bc))
                   ELSE cv
          /\ cq' = (cq \/ cv' # cv)
          /\ rec' = RecordCluster(rec, "Ready", FALSE, FALSE).rec
          /\ brec' = [brec EXCEPT !.pc = "install"]
          /\ UNCHANGED <<bq, fails>>
       \/ /\ bc.st = "UpgradeFailed"
          /\ brec' = [brec EXCEPT !.pc = "install"]
          /\ UNCHANGED <<bc, cv, cq, bq, rec, fails>>
       \/ Fail /\ EndsWithError /\ UNCHANGED <<bc, cv, cq, rec>>
    /\ UNCHANGED <<rules, route, ri, comps, crec, edits, faults>>

\* completeClusterVersionInstall, on a cluster that was read again.
CompleteInstall ==
    /\ brec.pc = "install"
    /\ cv' = IF bc.st = "Ready" /\ bc.ann = None
             THEN InstallStatus(InstalledVersion(bc)) ELSE cv
    /\ cq' = (cq \/ cv' # cv)
    /\ brec' = BIdle /\ bq' = (bq \/ rec.requeue)
    /\ UNCHANGED <<rules, route, bc, ri, comps, crec, rec, bounds>>

\* A call of the BKECluster controller fails.
BError ==
    /\ brec.pc \in {"resolve", "spec", "status", "progress", "abortMark",
                    "abortHop", "finish", "unmark", "hop", "install"}
    /\ Fault
    /\ EndsWithError
    /\ UNCHANGED <<objects, crec, rec, cq, edits, fails>>
-----------------------------------------------------------------------------
(***************************************************************************)
(* The user, the clock and the process.                                    *)
(***************************************************************************)

\* Unless Late, the user leaves an install and a hop alone until it is over.
Edit(v) ==
    /\ edits < MaxEdits /\ cv.exists /\ v # cv.desired
    /\ \/ Late
       \/ /\ bc.ann = None /\ cv.current # None
          /\ brec.pc = "idle" /\ crec.pc = "idle"
    /\ cv' = [cv EXCEPT !.desired = v]
    /\ cq' = TRUE /\ edits' = edits + 1
    /\ UNCHANGED <<rules, route, bc, ri, comps, crec, brec, rec, bq, fails,
                   faults>>

\* The informers send every object again every ten hours.
Resync ==
    /\ \/ Late
       \/ ~cq /\ ~bq /\ crec.pc = "idle" /\ brec.pc = "idle"
    /\ cq' = cv.exists /\ bq' = TRUE
    /\ UNCHANGED <<objects, crec, brec, rec, bounds>>

Crash ==
    /\ Fault
    /\ crec' = CIdle /\ brec' = BIdle /\ rec' = EmptyRecord
    /\ cq' = cv.exists /\ bq' = TRUE
    /\ UNCHANGED <<objects, edits, fails>>

CVNext == CVRead \/ CVDecide \/ CVEnsure \/ CVMark

BNext ==
    \/ BRead \/ BResolve \/ SyncSpec \/ PatchClusterStatus \/ EnsureProgress
    \/ (\E c \in Comps : BComponent(c)) \/ BDagDone
    \/ Abort \/ AbortMark \/ FailUpgradeHop
    \/ PersistFinished \/ RemoveMark \/ CompleteUpgradeHop
    \/ PhaseFlow \/ CompleteInstall

Next ==
    \/ CVNext \/ CVError
    \/ \E v \in Versions : RIPasses(v) \/ RIFails(v) \/ Edit(v)
    \/ BNext \/ HandleDAGFailure \/ BError
    \/ Resync \/ Crash

Spec == Init /\ [][Next]_vars

\* Workers serve their queues, releases are checked again and again, and the
\* resync comes round.
FairSpec ==
    /\ Spec
    /\ WF_vars(CVNext) /\ WF_vars(BNext) /\ WF_vars(Resync)
    /\ \A v \in Versions : WF_vars(RIPasses(v))
-----------------------------------------------------------------------------
TypeOK ==
    /\ rules \in RuleSets
    /\ cv \in [exists: BOOLEAN, desired: MaybeVersion, current: MaybeVersion,
               phase: Phases]
    /\ bc \in [spec: Versions, ver: MaybeVersion, ann: MaybeVersion,
               st: {"Deploying", "Upgrading", "UpgradeFailed", "Ready"},
               target: MaybeVersion, done: SUBSET Comps]
    /\ ri \in [Versions -> Images]
    /\ comps \in [Comps -> Versions]
    /\ crec \in [pc: CPoints, cur: MaybeVersion, des: MaybeVersion,
                 phase: Phases, ann: MaybeVersion, hop: MaybeVersion,
                 inst: BOOLEAN]
    /\ brec \in [pc: BPoints, hop: MaybeVersion, ann: MaybeVersion,
                 st: {Blank, "Deploying", "Upgrading", "UpgradeFailed", "Ready"}]
    /\ crec.pc \in {"ensure", "mark"} => crec.hop \in Versions
    /\ cq \in BOOLEAN /\ bq \in BOOLEAN
    /\ edits \in 0..MaxEdits /\ fails \in 0..MaxFails /\ faults \in 0..MaxFaults

(***************************************************************************)
(* The search of pkg/upgradepath against the definition of a path: the     *)
(* hop the ClusterVersion controller goes for is the second version of a   *)
(* shortest open path, and a precheck fails for want of a path only if     *)
(* there is none.                                                          *)
(***************************************************************************)
ShortestPath ==
    crec.pc = "decide" /\ Loads(rules) /\ crec.cur # crec.des =>
        LET path == PathTo(crec.cur, crec.des)
        IN  IF path = NoPath THEN ~Reachable(rules, crec.cur, crec.des)
            ELSE IsShortest(rules, path, crec.cur, crec.des)

(***************************************************************************)
(* A version is recorded only when every component of the cluster has it:  *)
(* when completeDeclarativeUpgrade and CompleteUpgradeHop write it, across *)
(* retries, crashes and hops that were marked twice.                       *)
(***************************************************************************)
RecordedMeansInstalled ==
    [][/\ cv'.current # cv.current => \A c \in Comps : comps'[c] = cv'.current
       /\ bc'.ver # bc.ver => \A c \in Comps : comps'[c] = bc'.ver]_vars

(***************************************************************************)
(* status.currentVersion moves along a rule that is not blocked, one hop   *)
(* at a time.                                                              *)
(***************************************************************************)
HopsFollowRules ==
    [][cv.current # None /\ cv'.current # cv.current =>
           Rule(cv.current, cv'.current, FALSE) \in rules]_vars

(***************************************************************************)
(* The version the user asked for is reached and the mark is gone, or the  *)
(* upgrade has failed, or there is no way: also when the process dies, or  *)
(* a call fails, between removing the annotation and CompleteUpgradeHop,   *)
(* which leaves the ClusterVersion behind the cluster.                     *)
(***************************************************************************)
Converges ==
    <>[](\/ cv.current = cv.desired /\ bc.ann = None
         \/ cv.phase = "Failed"
         \/ cv.exists /\ PathTo(CurrentVersion, cv.desired) = NoPath)
=============================================================================
