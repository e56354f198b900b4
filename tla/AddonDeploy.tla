----------------------------- MODULE AddonDeploy -----------------------------
(***************************************************************************)
(* The addons of a cluster: EnsureAddonDeploy compares the addons that     *)
(* status records with those of the spec and creates, upgrades, updates or *)
(* removes them in the target cluster one by one (pkg/kube), recording     *)
(* each before it takes the next; EnsureAgentSwitch then hands the agents  *)
(* to the cluster that the cluster-api addon was deployed in, and          *)
(* EnsureClusterAPIManagerManifest applies the manifest that was deferred. *)
(* Users edit the spec, pause the cluster and add nodes at any time; every *)
(* call may fail and the manager may restart between any two.              *)
(*                                                                         *)
(* Addons come in three kinds: a Helm chart, a directory of manifests, and *)
(* Calico, whose manifests connect calico-node to the API server either    *)
(* directly or through Typha, depending on the number of nodes.            *)
(***************************************************************************)
EXTENDS Integers, Sequences, FiniteSets, SequencesExt

CONSTANTS
    AddonList,    \* the names of the addons, in the order of the spec
    Offers,       \* the settings, <<version, params>>, a user may ask for
    Charts,       \* the addons that are Helm charts
    Blocking,     \* the addons with block: true
    Calico,       \* the addon "calico"
    ClusterApi,   \* the addon "cluster-api"
    TyphaVersions,\* the versions of Calico whose manifest supports Typha
    None,         \* no setting: the addon is absent
    Partial,      \* some objects of the addon were applied or deleted
    MaxEdits,     \* bound on the edits of users
    MaxFaults     \* bound on failing calls and restarts

Addons == Range(AddonList)
Settings == UNION {Offers[a] : a \in Addons}

\* The empty string.
Blank == "blank"

ASSUME AddonAssumption ==
    /\ AddonList \in Seq(Addons)
    /\ \A i, j \in DOMAIN AddonList : AddonList[i] = AddonList[j] => i = j
    /\ DOMAIN Offers = Addons
    /\ None \notin Settings /\ Partial \notin Settings \cup {None}
    /\ Charts \cup Blocking \subseteq Addons
    /\ {Calico, ClusterApi} \subseteq Addons \ Charts /\ Calico # ClusterApi
    /\ {MaxEdits, MaxFaults} \subseteq Nat

VARIABLES
    bc,         \* the BKECluster on the API server
    large,      \* are there more nodes than typhaEnableNodeBoundary?
    installed,  \* what the target cluster has of each addon
    release,    \* the state of the Helm release of each chart
    net,        \* Typha, calico-config and calico-node in the target cluster
    moved,      \* have the agents been told to listen to the target cluster?
    run,        \* the memory of the reconcile
    begun,      \* addons with an operation that began and was not recorded
    removing,   \* a removal of Calico began and no install completed since
    edits,      \* number of edits of users
    faults      \* number of failing calls and restarts

vars == <<bc, large, installed, release, net, moved, run, begun, removing,
          edits, faults>>
target == <<installed, release, net>>
history == <<begun, removing>>

Modes == {"direct", "typha"}
Points == {"idle", "addon", "loop", "install", "apply", "helm", "bootstrap",
           "typhaWait", "config", "node", "nodeWait", "typhaDelete",
           "uninstall", "record", "switch", "switched", "manage"}

Idle == [at |-> "idle", plan |-> {}, ops |-> {}, paused |-> FALSE,
         errs |-> FALSE, allow |-> FALSE, enabled |-> FALSE, err |-> FALSE]

\* What to do with one addon: to is the setting of the spec.
Transfers ==
    {t \in [addon: Addons, operate: {"create", "upgrade", "update", "remove"},
            to: Settings \cup {None}] :
        t.operate = "remove" <=> t.to = None}

\* The type of every variable.
TypeOK ==
    /\ bc \in [spec: [Addons -> Settings \cup {None}],
               status: [Addons -> Settings \cup {None}],
               listener: {Blank, "current", "bkecluster"},
               pause: BOOLEAN, switched: BOOLEAN, managed: BOOLEAN]
    /\ {large, moved, removing} \subseteq BOOLEAN
    /\ installed \in [Addons -> Settings \cup {None, Partial}]
    /\ release \in [Charts -> {"none", "pending", "failed", "upFailed", "deployed"}]
    /\ net \in [deploy: BOOLEAN, ready: BOOLEAN, svc: BOOLEAN, config: BOOLEAN,
                node: Modes \cup {"none"}, pods: SUBSET Modes]
    /\ run \in [at: Points, plan: SUBSET {"addon", "switch", "manage"},
                ops: SUBSET Transfers, paused: BOOLEAN, errs: BOOLEAN,
                allow: BOOLEAN, enabled: BOOLEAN, err: BOOLEAN]
    /\ begun \subseteq Addons
    /\ edits \in 0..MaxEdits /\ faults \in 0..MaxFaults

Init ==
    /\ \E spec \in [Addons -> Settings \cup {None}] :
           /\ \A a \in Addons : spec[a] \in Offers[a]
           /\ bc = [spec |-> spec, status |-> [a \in Addons |-> None],
                    pause |-> FALSE, listener |-> Blank, switched |-> FALSE,
                    managed |-> FALSE]
    /\ large \in BOOLEAN
    /\ installed = [a \in Addons |-> None]
    /\ release = [c \in Charts |-> "none"]
    /\ net = [deploy |-> FALSE, ready |-> FALSE, svc |-> FALSE,
              config |-> FALSE, node |-> "none", pods |-> {}]
    /\ moved = FALSE
    /\ run = Idle
    /\ begun = {}
    /\ removing = FALSE
    /\ edits = 0
    /\ faults = 0

-----------------------------------------------------------------------------
(* Users, and the controllers of the target cluster.                       *)

Edit ==
    /\ edits < MaxEdits
    /\ edits' = edits + 1
    /\ \/ \E a \in Addons, s \in Settings \cup {None} :
              /\ s \in Offers[a] \cup {None} /\ s # bc.spec[a]
              /\ bc' = [bc EXCEPT !.spec[a] = s]
              /\ UNCHANGED large
       \/ bc' = [bc EXCEPT !.pause = ~@] /\ UNCHANGED large
       \/ large' = ~large /\ UNCHANGED bc
    /\ UNCHANGED <<target, moved, run, history, faults>>

\* calico-node is replaced node by node.
Rollout ==
    /\ net.pods # {net.node} \ {"none"}
    /\ \E pods \in {net.pods \cup {net.node}, {net.node}} :
           /\ net' = [net EXCEPT !.pods = pods \ {"none"}]
           /\ net' # net
    /\ UNCHANGED <<bc, large, installed, release, moved, run, history,
                   edits, faults>>

\* The pods of Typha start and become endpoints of its Service.
TyphaStarts ==
    /\ net.deploy /\ net.svc /\ ~net.ready
    /\ net' = [net EXCEPT !.ready = TRUE]
    /\ UNCHANGED <<bc, large, installed, release, moved, run, history,
                   edits, faults>>

-----------------------------------------------------------------------------
(* The phases.  A phase runs when it was selected as the reconcile began   *)
(* and is still needed by the newest object.                               *)

\* CompareBKEConfigAddon: what to do with the addons.
Compare(b) ==
    LET operate(a) == IF b.spec[a] = None THEN "remove"
                      ELSE IF b.status[a] = None THEN "create"
                      ELSE IF b.spec[a][1] # b.status[a][1] THEN "upgrade"
                      ELSE "update"
        transfer(a) == [addon |-> a, operate |-> operate(a), to |-> b.spec[a]]
    IN  {transfer(a) : a \in {x \in Addons : b.spec[x] # b.status[x]}}

\* The order of the list it returns: the addons of the spec, then the removals.
Place(t) ==
    (CHOOSE i \in DOMAIN AddonList : AddonList[i] = t.addon)
        + (IF t.operate = "remove" THEN Len(AddonList) ELSE 0)

\* mutant: the mark of handleClusterAPI is taken for a switch that was made
NeedUnmarked(phase, b) ==
    /\ ~b.pause
    /\ CASE phase = "addon" -> Compare(b) # {}
         [] phase = "switch" -> b.listener = Blank /\ ~b.switched
         [] phase = "manage" -> b.spec[ClusterApi] # None /\ ~b.managed

\* The NeedExecute of the three phases.
NeedExecute(phase, b) ==
    /\ ~b.pause
    /\ CASE phase = "addon" -> Compare(b) # {}
         [] phase = "switch" -> b.listener # "current" /\ ~b.switched
         [] phase = "manage" -> b.spec[ClusterApi] # None /\ ~b.managed

Runs(phase) == phase \in run.plan /\ NeedExecute(phase, bc)

Reconcile ==
    LET plan == {p \in {"addon", "switch", "manage"} : NeedExecute(p, bc)}
    IN  /\ run.at = "idle" /\ plan # {}
        /\ run' = [Idle EXCEPT !.at = "addon", !.plan = plan]
        /\ UNCHANGED <<bc, large, target, moved, history, edits, faults>>

\* validateAndPrepare: the list is computed once for the whole phase.
StartAddons ==
    /\ run.at = "addon"
    /\ run' = IF Runs("addon")
              THEN [run EXCEPT !.at = "loop", !.ops = Compare(bc)]
              ELSE [run EXCEPT !.at = "switch"]
    /\ UNCHANGED <<bc, large, target, moved, history, edits, faults>>

Op == CHOOSE t \in run.ops : \A u \in run.ops : Place(t) <= Place(u)
Blocks == Op.addon \in Blocking

\* An error of processAddon: a blocking addon ends the reconcile.
SkipOrReturn ==
    run' = IF Blocks THEN Idle
           ELSE [run EXCEPT !.at = "loop", !.ops = @ \ {Op}, !.errs = TRUE]

EndAddons ==
    /\ run.at = "loop"
    /\ run.ops = {} \/ run.paused
    /\ run' = IF run.errs THEN Idle ELSE [run EXCEPT !.at = "switch"]
    /\ UNCHANGED <<bc, large, target, moved, history, edits, faults>>

\* handleClusterAPI marks the switch of the agents before anything is applied.
BeforeCreate ==
    /\ run.at = "loop" /\ run.ops # {} /\ ~run.paused
    /\ bc' = IF Op.operate = "create" /\ Op.addon = ClusterApi
             THEN [bc EXCEPT !.listener = "bkecluster"] ELSE bc
    /\ run' = [run EXCEPT !.at = "install"]
    /\ UNCHANGED <<large, target, moved, history, edits, faults>>

\* The hook or GetNodes fails; the mark may have been written by then.
BeforeCreateFails ==
    /\ run.at = "loop" /\ run.ops # {} /\ ~run.paused
    /\ faults < MaxFaults /\ faults' = faults + 1
    /\ \/ UNCHANGED bc
       \/ /\ Op.operate = "create" /\ Op.addon = ClusterApi
          /\ bc' = [bc EXCEPT !.listener = "bkecluster"]
    /\ SkipOrReturn
    /\ UNCHANGED <<large, target, moved, history, edits>>

\* The end of processAddon and updateAddonStatus: a failed addon that does
\* not block is recorded like one that was deployed.
Record ==
    /\ run.at = "record"
    /\ IF run.err /\ Blocks THEN run' = Idle /\ UNCHANGED <<bc, begun>>
       ELSE /\ bc' = [bc EXCEPT !.status[Op.addon] = Op.to]
            /\ begun' = begun \ {Op.addon}
            /\ run' = [run EXCEPT !.at = "loop", !.ops = @ \ {Op},
                                  !.paused = bc.pause, !.err = FALSE]
    /\ UNCHANGED <<large, target, moved, removing, edits, faults>>

\* GetNewestBKECluster fails: nothing is recorded.
RecordFails ==
    /\ run.at = "record"
    /\ faults < MaxFaults /\ faults' = faults + 1
    /\ SkipOrReturn
    /\ UNCHANGED <<bc, large, target, moved, history, edits>>

\* EnsureAgentSwitch: the Command is created, then the condition is saved.
AgentSwitch ==
    /\ run.at = "switch"
    /\ IF ~Runs("switch")
       THEN run' = [run EXCEPT !.at = "manage"] /\ UNCHANGED <<bc, moved>>
       ELSE IF bc.listener = Blank
       THEN /\ bc' = [bc EXCEPT !.listener = "current"]
            /\ run' = [run EXCEPT !.at = "manage"]
            /\ UNCHANGED moved
       ELSE /\ moved' = TRUE
            /\ run' = [run EXCEPT !.at = "switched"]
            /\ UNCHANGED bc
    /\ UNCHANGED <<large, target, history, edits, faults>>

\* An error of the Command is not returned.
AgentSwitchFails ==
    /\ run.at = "switch" /\ Runs("switch") /\ bc.listener = "bkecluster"
    /\ faults < MaxFaults /\ faults' = faults + 1
    /\ run' = [run EXCEPT !.at = "manage"]
    /\ UNCHANGED <<bc, large, target, moved, history, edits>>

AgentSwitched ==
    /\ run.at = "switched"
    /\ bc' = [bc EXCEPT !.switched = TRUE]
    /\ run' = [run EXCEPT !.at = "manage"]
    /\ UNCHANGED <<large, target, moved, history, edits, faults>>

ManagerManifest ==
    /\ run.at = "manage"
    /\ bc' = IF Runs("manage") THEN [bc EXCEPT !.managed = TRUE] ELSE bc
    /\ run' = Idle
    /\ UNCHANGED <<large, target, moved, history, edits, faults>>

\* The manager restarts, or a call outside of processAddon returns an error.
Abort ==
    /\ run.at # "idle"
    /\ faults < MaxFaults /\ faults' = faults + 1
    /\ run' = Idle
    /\ UNCHANGED <<bc, large, target, moved, history, edits>>

-----------------------------------------------------------------------------
(* InstallAddon.  It ends at "record", with run.err its error; errors of a *)
(* removal are dropped once objects are being deleted.                     *)

Installing(point) == run.at = point /\ run.ops # {}

Touch(a) ==
    /\ installed' = [installed EXCEPT ![a] = Partial]
    /\ begun' = begun \cup {a}

Done(a) == installed' = [installed EXCEPT ![a] = Op.to]

GoTo(point) == run' = [run EXCEPT !.at = point]

\* The operation returns an error, or a removal an ignored one.
Return(err) == run' = [run EXCEPT !.at = "record", !.err = err]

\* No manifests, bad parameters, chart repository out of reach.
PrepareFails ==
    /\ Installing("install")
    /\ faults < MaxFaults /\ faults' = faults + 1
    /\ Return(Op.operate # "remove" \/ Op.addon \notin Charts)
    /\ UNCHANGED <<bc, large, target, moved, history, edits>>

\* installYamlAddon and applyAddonFilesInOrder.
ApplyYaml ==
    /\ Installing("install")
    /\ Op.addon \notin Charts \cup {Calico}
    /\ Touch(Op.addon) /\ GoTo("apply")
    /\ UNCHANGED <<bc, large, release, net, moved, removing, edits, faults>>

ApplyEnds ==
    /\ Installing("apply")
    /\ \/ Done(Op.addon) /\ Return(FALSE) /\ UNCHANGED faults
       \/ /\ faults < MaxFaults /\ faults' = faults + 1
          /\ Return(Op.operate # "remove")
          /\ UNCHANGED installed
    /\ UNCHANGED <<bc, large, release, net, moved, history, edits>>

\* installChartAddon.  Helm refuses to install a release that exists, and to
\* upgrade one that has no deployed revision or an operation under way.
Refused(op) ==
    CASE op.operate = "create" -> release[op.addon] # "none"
      [] op.operate = "remove" -> release[op.addon] = "none"
      [] OTHER -> release[op.addon] \notin {"deployed", "upFailed"}

RunHelm ==
    /\ Installing("install") /\ Op.addon \in Charts
    /\ IF Refused(Op)
       THEN /\ Return(Op.operate # "remove")
            /\ UNCHANGED <<installed, begun, release>>
       ELSE /\ release' = [release EXCEPT ![Op.addon] = "pending"]
            /\ Touch(Op.addon) /\ GoTo("helm")
    /\ UNCHANGED <<bc, large, net, moved, removing, edits, faults>>

HelmEnds ==
    /\ Installing("helm")
    /\ \/ /\ release' = [release EXCEPT ![Op.addon] =
                            IF Op.operate = "remove" THEN "none" ELSE "deployed"]
          /\ Done(Op.addon) /\ Return(FALSE) /\ UNCHANGED faults
       \/ /\ faults < MaxFaults /\ faults' = faults + 1
          /\ release' = [release EXCEPT ![Op.addon] =
                            CASE Op.operate = "create" -> "failed"
                              [] Op.operate = "remove" -> "pending"
                              [] OTHER -> "upFailed"]
          /\ Return(Op.operate # "remove")
          /\ UNCHANGED installed
    /\ UNCHANGED <<bc, large, net, moved, history, edits>>

-----------------------------------------------------------------------------
(* Calico: applyCalicoScaleParams and applyCalicoAddonFiles.               *)

AllowTypha(op) ==
    large /\ (IF op.to = None THEN bc.status[Calico] ELSE op.to)[1] \in TyphaVersions

\* mutant: the Deployment that an interrupted rollback left is not looked at
EnabledByConfig == net.config

\* calicoTyphaCurrentlyEnabled
TyphaEnabled == net.config \/ net.deploy

StartCalico ==
    LET allow == AllowTypha(Op)
    IN  /\ Installing("install") /\ Op.addon = Calico
        /\ IF Op.operate = "create" /\ large /\ ~allow
           THEN Return(TRUE) /\ UNCHANGED <<begun, removing>>
           ELSE /\ run' = [run EXCEPT !.allow = allow, !.enabled = TyphaEnabled,
                            !.at = IF Op.operate = "remove" THEN "uninstall"
                                   ELSE IF allow THEN "bootstrap" ELSE "config"]
                /\ begun' = begun \cup {Calico}
                /\ removing' = (removing \/ Op.operate = "remove")
        /\ UNCHANGED <<bc, large, target, moved, edits, faults>>

\* One step of the install of Calico: it changes the network to one of "nets"
\* and goes on, or fails after a part of it.
CalicoStep(point, to, nets, next) ==
    /\ Installing(point)
    /\ installed' = [installed EXCEPT ![Calico] = Partial]
    /\ \/ net' = to /\ GoTo(next) /\ UNCHANGED faults
       \/ /\ faults < MaxFaults /\ faults' = faults + 1
          /\ net' \in nets
          /\ Return(TRUE)
    /\ UNCHANGED <<bc, large, release, moved, history, edits>>

\* applyCalicoTyphaBootstrapObjects: when Calico is created, calico-config is
\* among the dependencies that go first; the Service precedes the Deployment.
Bootstrap ==
    LET based == [net EXCEPT !.config = @ \/ Op.operate = "create"]
    IN  CalicoStep("bootstrap", [based EXCEPT !.deploy = TRUE, !.svc = TRUE],
                   {net, based, [based EXCEPT !.svc = TRUE]}, "typhaWait")

\* waitCalicoTyphaReady; it does not wait for an addon that does not block.
WaitTypha ==
    /\ Installing("typhaWait")
    /\ \/ /\ Blocks => net.ready
          /\ GoTo("config")
          /\ UNCHANGED faults
       \/ /\ Blocks
          /\ faults < MaxFaults /\ faults' = faults + 1
          /\ Return(TRUE)
    /\ UNCHANGED <<bc, large, target, moved, history, edits>>

\* applyAddonFilesInOrder: ConfigMaps, then the Service and the Deployment of
\* a manifest with Typha, then calico-node.
ApplyConfig ==
    CalicoStep("config", [net EXCEPT !.config = run.allow],
               {net, [net EXCEPT !.config = run.allow]}, "node")

ApplyNode ==
    LET applied == [net EXCEPT !.node = IF run.allow THEN "typha" ELSE "direct",
                               !.deploy = @ \/ run.allow, !.svc = @ \/ run.allow]
    IN  CalicoStep("node", applied, {net, applied}, "nodeWait")

\* mutant: Typha is deleted without waiting for calico-node
NoWait ==
    /\ Installing("nodeWait")
    /\ IF run.enabled /\ ~run.allow
       THEN GoTo("typhaDelete") /\ UNCHANGED <<installed, removing>>
       ELSE Done(Calico) /\ Return(FALSE) /\ removing' = FALSE
    /\ UNCHANGED <<bc, large, release, net, moved, begun, edits, faults>>

\* The wait for the DaemonSet in ApplyYaml and waitCalicoNodeReady.
WaitNode ==
    /\ Installing("nodeWait")
    /\ Blocks => net.pods = {net.node}
    /\ IF run.enabled /\ ~run.allow
       THEN GoTo("typhaDelete") /\ UNCHANGED <<installed, removing>>
       ELSE Done(Calico) /\ Return(FALSE) /\ removing' = FALSE
    /\ UNCHANGED <<bc, large, release, net, moved, begun, edits, faults>>

WaitNodeFails ==
    /\ Installing("nodeWait") /\ Blocks
    /\ faults < MaxFaults /\ faults' = faults + 1
    /\ Return(TRUE)
    /\ UNCHANGED <<bc, large, target, moved, history, edits>>

\* deleteCalicoTyphaResources tries each kind and reports what failed.
DeleteTypha ==
    /\ Installing("typhaDelete")
    /\ \/ /\ net' = [net EXCEPT !.deploy = FALSE, !.svc = FALSE, !.ready = FALSE]
          /\ Done(Calico) /\ Return(FALSE) /\ removing' = FALSE
          /\ UNCHANGED faults
       \/ /\ faults < MaxFaults /\ faults' = faults + 1
          /\ net' \in {net, [net EXCEPT !.deploy = FALSE, !.ready = FALSE],
                       [net EXCEPT !.svc = FALSE, !.ready = FALSE]}
          /\ Return(TRUE)
          /\ UNCHANGED <<installed, removing>>
    /\ UNCHANGED <<bc, large, release, moved, begun, edits>>

\* A removal deletes what the manifest renders for the nodes of today: without
\* Typha on a small cluster.  Errors are ignored.
RemoveCalico ==
    LET some == [net EXCEPT !.deploy = @ /\ ~run.allow, !.svc = @ /\ ~run.allow,
                            !.ready = @ /\ ~run.allow]
        all == [some EXCEPT !.node = "none", !.config = FALSE]
    IN  /\ Installing("uninstall")
        /\ \/ net' = all /\ Done(Calico) /\ UNCHANGED faults
           \/ /\ faults < MaxFaults /\ faults' = faults + 1
              /\ net' \in {net, some}
              /\ installed' = [installed EXCEPT ![Calico] = Partial]
        /\ Return(FALSE)
        /\ UNCHANGED <<bc, large, release, moved, history, edits>>

-----------------------------------------------------------------------------
Install ==
    \/ ApplyYaml \/ ApplyEnds \/ RunHelm \/ HelmEnds
    \/ StartCalico \/ Bootstrap \/ WaitTypha \/ ApplyConfig \/ ApplyNode
    \/ WaitNode \/ DeleteTypha \/ RemoveCalico

Phases ==
    \/ Reconcile \/ StartAddons \/ EndAddons \/ BeforeCreate \/ Record
    \/ AgentSwitch \/ AgentSwitched \/ ManagerManifest

Fault == BeforeCreateFails \/ RecordFails \/ AgentSwitchFails \/ Abort
             \/ PrepareFails \/ WaitNodeFails

Next == Edit \/ Rollout \/ TyphaStarts \/ Phases \/ Install \/ Fault

Spec == Init /\ [][Next]_vars

\* The controller retries what failed and is restarted when it stops; the
\* controllers of the target cluster make progress.  No call is assumed to succeed, but
\* only MaxFaults of them fail.
FairSpec == Spec /\ WF_vars(Phases \/ Install) /\ WF_vars(Rollout) /\ WF_vars(TyphaStarts)

-----------------------------------------------------------------------------
(***************************************************************************)
(* As long as Calico blocks and no removal of it has begun, the pods of    *)
(* calico-node that connect through Typha find its Deployment and Service, *)
(* started, whatever fails and whenever the manager restarts: Typha is up  *)
(* before calico-node is switched to it (applyCalicoAddonFiles) and is     *)
(* deleted after the last pod has been switched back.                      *)
(***************************************************************************)
TyphaServed ==
    Calico \in Blocking /\ ~removing /\ "typha" \in net.pods
        => net.deploy /\ net.svc /\ net.ready

(***************************************************************************)
(* A blocking addon that updateAddonStatus recorded is deployed with       *)
(* exactly the recorded setting, unless an operation on it has begun since *)
(* that is not recorded; a recorded Calico without Typha has left no Typha *)
(* Deployment, even if an earlier attempt stopped before deleting it.      *)
(***************************************************************************)
RecordedMeansDeployed ==
    \A a \in Blocking \ begun :
        bc.status[a] # None =>
            /\ installed[a] = bc.status[a]
            /\ a = Calico /\ net.node = "direct" => ~net.deploy

\* An addon that no retry can deploy: a release left behind by an attempt that
\* was not recorded, or a Calico without Typha for a large cluster.
Stuck(a) ==
    /\ a \in Blocking /\ bc.spec[a] # None /\ bc.spec[a] # bc.status[a]
    /\ \/ /\ a \in Charts
          /\ IF bc.status[a] = None THEN release[a] # "none"
             ELSE release[a] \notin {"deployed", "upFailed"}
       \/ /\ a = Calico /\ bc.status[a] = None /\ large
          /\ bc.spec[a][1] \notin TyphaVersions

(***************************************************************************)
(* Once users and faults stop, status records the addons of the spec, the  *)
(* agents are switched if cluster-api asked for it and the deferred        *)
(* manifest is applied, unless the cluster is paused or an addon is stuck. *)
(***************************************************************************)
AddonsSettle ==
    <>[](\/ bc.pause \/ \E a \in Addons : Stuck(a)
         \/ /\ bc.status = bc.spec
            /\ bc.listener = "bkecluster" => bc.switched /\ moved
            /\ bc.spec[ClusterApi] # None => bc.managed)
=============================================================================
