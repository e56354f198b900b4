--------------------------- MODULE AddonDeployProofs ---------------------------
(***************************************************************************)
(* Proofs about the addons of a cluster, for any list of addons, any offer *)
(* of settings and any number of edits and faults.  OpInv says which       *)
(* operation is under way at which point; TyphaInv follows Typha through   *)
(* the steps of the install of Calico; RecordInv says what an operation    *)
(* that ended without an error has deployed.                               *)
(***************************************************************************)
EXTENDS AddonDeploy, WellFoundedInduction, TLAPS

CalicoPoints == {"bootstrap", "typhaWait", "config", "node", "nodeWait",
                 "typhaDelete", "uninstall"}

OpInv ==
    /\ run.at \in {"install", "apply", "helm", "record"} \cup CalicoPoints =>
          run.ops # {}
    /\ run.at \in {"apply", "helm"} \cup CalicoPoints => Op.addon \in begun
    /\ run.at \in CalicoPoints => Op.addon = Calico
    /\ run.at \in {"apply", "helm"} => Op.addon # Calico
    /\ run.at = "uninstall" => Op.operate = "remove" /\ removing

\* Typha is there for calico-node.
Served == net.deploy /\ net.svc /\ net.ready

TyphaInv ==
    /\ run.at \in {"bootstrap", "typhaWait"} => run.allow
    /\ run.at = "typhaWait" => net.deploy /\ net.svc
    /\ run.at \in {"config", "node", "nodeWait"} =>
          /\ run.allow /\ Calico \in Blocking => Served
          /\ ~run.allow /\ ~run.enabled => ~net.deploy
    /\ run.at = "nodeWait" => net.node = IF run.allow THEN "typha" ELSE "direct"
    /\ run.at = "typhaDelete" =>
          net.node = "direct" /\ (Calico \in Blocking => "typha" \notin net.pods)
    /\ Calico \in Blocking /\ ~removing
             /\ (net.node = "typha" \/ "typha" \in net.pods) => Served

\* What an addon is when it has the setting s.
Deployed(a, s) ==
    /\ installed[a] = s
    /\ a = Calico /\ net.node = "direct" => ~net.deploy

RecordInv ==
    /\ run.at = "record" /\ ~run.err /\ Op.to # None /\ Op.addon \in Blocking =>
          Deployed(Op.addon, Op.to)
    /\ RecordedMeansDeployed

-----------------------------------------------------------------------------
(***************************************************************************)
(* The operators, and the types.                                           *)
(***************************************************************************)
Memory ==
    [at: Points, plan: SUBSET {"addon", "switch", "manage"},
     ops: SUBSET Transfers, paused: BOOLEAN, errs: BOOLEAN,
     allow: BOOLEAN, enabled: BOOLEAN, err: BOOLEAN]

Nets == [deploy: BOOLEAN, ready: BOOLEAN, svc: BOOLEAN, config: BOOLEAN,
         node: Modes \cup {"none"}, pods: SUBSET Modes]

Records == [spec: [Addons -> Settings \cup {None}],
            status: [Addons -> Settings \cup {None}],
            listener: {Blank, "current", "bkecluster"},
            pause: BOOLEAN, switched: BOOLEAN, managed: BOOLEAN]

Releases == {"none", "pending", "failed", "upFailed", "deployed"}

LEMMA TypeParts ==
    TypeOK <=> /\ bc \in Records
               /\ {large, moved, removing} \subseteq BOOLEAN
               /\ installed \in [Addons -> Settings \cup {None, Partial}]
               /\ release \in [Charts -> Releases]
               /\ net \in Nets /\ run \in Memory
               /\ begun \subseteq Addons
               /\ edits \in 0..MaxEdits /\ faults \in 0..MaxFaults
BY Zenon DEF TypeOK, Memory, Nets, Records, Releases

LEMMA TypePartsNext ==
    TypeOK' <=> /\ bc' \in Records
                /\ {large', moved', removing'} \subseteq BOOLEAN
                /\ installed' \in [Addons -> Settings \cup {None, Partial}]
                /\ release' \in [Charts -> Releases]
                /\ net' \in Nets /\ run' \in Memory
                /\ begun' \subseteq Addons
                /\ edits' \in 0..MaxEdits /\ faults' \in 0..MaxFaults
BY Zenon DEF TypeOK, Memory, Nets, Records, Releases

LEMMA Constants ==
    /\ Charts \subseteq Addons /\ Blocking \subseteq Addons
    /\ Calico \in Addons \ Charts
    /\ MaxEdits \in Nat /\ MaxFaults \in Nat
    /\ None \notin Settings
BY AddonAssumption

LEMMA LeastNumber ==
    ASSUME NEW T \in SUBSET Nat, T # {}
    PROVE  \E i \in T : \A j \in T : i <= j
<1> DEFINE R == {ss \in Nat \X Nat : ss[1] < ss[2]}
<1>1. IsWellFoundedOn(R, Nat)
  BY NatLessThanWellFounded, Zenon DEF OpToRel
<1>2. \A i, j \in Nat : <<j, i>> \in R <=> j < i
  OBVIOUS
<1> HIDE DEF R
<1>3. PICK i \in T : \A j \in T : ~(<<j, i>> \in R)
  BY <1>1, WFMin
<1>4. ASSUME NEW j \in T PROVE i <= j
  <2>1. i \in Nat /\ j \in Nat /\ ~(<<j, i>> \in R)
    BY <1>3
  <2>2. ~(j < i)
    BY <1>2, <2>1
  <2> QED BY <2>1, <2>2
<1> QED BY <1>4

LEMMA PlaceIs == ASSUME NEW t \in Transfers PROVE Place(t) \in Nat
<1> DEFINE i == CHOOSE i \in DOMAIN AddonList : AddonList[i] = t.addon
<1>1. t.addon \in Addons
  BY DEF Transfers
<1>2. \E j \in DOMAIN AddonList : AddonList[j] = t.addon
  BY <1>1 DEF Addons, Range
<1>3. i \in DOMAIN AddonList
  BY <1>2
<1>4. DOMAIN AddonList \subseteq Nat /\ Len(AddonList) \in Nat
  <2>1. \A D, s : s \in Seq(D) => DOMAIN s \subseteq Nat /\ Len(s) \in Nat
    OBVIOUS
  <2>2. AddonList \in Seq(Addons)
    BY AddonAssumption
  <2> QED BY <2>1, <2>2, Zenon
<1>5. Place(t) = i + (IF t.operate = "remove" THEN Len(AddonList) ELSE 0)
  BY DEF Place
<1> HIDE DEF i
<1> QED BY <1>3, <1>4, <1>5

\* The operation under way is one of those that were computed.
LEMMA OpIs ==
    ASSUME TypeOK, run.ops # {}
    PROVE  Op \in run.ops /\ Op \in Transfers
<1>1. run.ops \in SUBSET Transfers
  BY TypeParts DEF Memory
<1> DEFINE T == {Place(t) : t \in run.ops}
<1>2. T \in SUBSET Nat /\ T # {}
  BY <1>1, PlaceIs
<1>3. PICK k \in T : \A j \in T : k <= j
  BY <1>2, LeastNumber
<1>4. \E t \in run.ops : \A u \in run.ops : Place(t) <= Place(u)
  BY <1>3
<1>5. Op \in run.ops
  BY <1>4 DEF Op
<1> QED BY <1>1, <1>5

LEMMA OpFields ==
    ASSUME TypeOK, run.ops # {}
    PROVE  /\ Op.addon \in Addons /\ Op.to \in Settings \cup {None}
           /\ Op.operate = "remove" <=> Op.to = None
BY OpIs DEF Transfers

LEMMA CompareIs ==
    ASSUME NEW b \in Records
    PROVE  Compare(b) \in SUBSET Transfers
<1> DEFINE other(a) == b.spec[a][1] # b.status[a][1]
           operate(a) == IF b.spec[a] = None THEN "remove"
                         ELSE IF b.status[a] = None THEN "create"
                         ELSE IF other(a) THEN "upgrade" ELSE "update"
           transfer(a) == [addon |-> a, operate |-> operate(a),
                           to |-> b.spec[a]]
           D == {x \in Addons : b.spec[x] # b.status[x]}
<1>1. Compare(b) = {transfer(a) : a \in D}
  BY DEF Compare
<1>2. D \subseteq Addons
  OBVIOUS
<1> HIDE DEF other
<1>3. ASSUME NEW a \in Addons PROVE transfer(a) \in Transfers
  <2>1. b.spec[a] \in Settings \cup {None}
    BY DEF Records
  <2>2. CASE b.spec[a] = None
    <3>1. operate(a) = "remove"
      BY <2>2
    <3> HIDE DEF operate
    <3> QED BY <2>1, <2>2, <3>1 DEF Transfers
  <2>3. CASE b.spec[a] # None
    <3>1. operate(a) \in {"create", "upgrade", "update"}
      BY <2>3
    <3> HIDE DEF operate
    <3> QED BY <2>1, <2>3, <3>1 DEF Transfers
  <2> QED BY <2>2, <2>3
<1> HIDE DEF transfer, D
<1> QED BY <1>1, <1>2, <1>3

LEMMA AllowIs == ASSUME TypeOK PROVE AllowTypha(Op) \in BOOLEAN
BY TypeParts DEF AllowTypha

LEMMA EnabledIs ==
    ASSUME TypeOK
    PROVE  TyphaEnabled \in BOOLEAN /\ (~TyphaEnabled => ~net.deploy)
BY TypeParts DEF TyphaEnabled, Nets

LEMMA IdleIs == Idle \in Memory /\ Idle.at = "idle"
BY DEF Idle, Memory, Points

\* The memory of the reconcile goes on to the point p, within its operation.
Within(p) ==
    /\ run' \in Memory /\ run'.at = p /\ run'.ops = run.ops
    /\ run'.allow = run.allow /\ run'.enabled = run.enabled /\ Op' = Op

LEMMA GoToIs ==
    ASSUME TypeOK, NEW p \in Points, GoTo(p)
    PROVE  Within(p)
<1>1. run' = [run EXCEPT !.at = p] /\ run \in Memory
  BY TypeParts DEF GoTo
<1>2. run'.ops = run.ops
  BY <1>1 DEF Memory
<1>3. Op' = Op
  BY <1>2 DEF Op
<1> QED BY <1>1, <1>3 DEF Within, Memory

LEMMA ReturnIs ==
    ASSUME TypeOK, NEW e \in BOOLEAN, Return(e)
    PROVE  Within("record") /\ run'.err = e
<1>1. run' = [run EXCEPT !.at = "record", !.err = e] /\ run \in Memory
  BY TypeParts DEF Return
<1>2. run'.ops = run.ops
  BY <1>1 DEF Memory
<1>3. Op' = Op
  BY <1>2 DEF Op
<1> QED BY <1>1, <1>3 DEF Within, Memory, Points

LEMMA SkipOrReturnIs ==
    ASSUME TypeOK, SkipOrReturn
    PROVE  run' \in Memory /\ run'.at \in {"idle", "loop"}
<1>1. CASE Blocks
  BY <1>1, IdleIs DEF SkipOrReturn
<1>2. CASE ~Blocks
  <2>1. run' = [run EXCEPT !.at = "loop", !.ops = @ \ {Op}, !.errs = TRUE]
    BY <1>2 DEF SkipOrReturn
  <2> QED BY <2>1, TypeParts DEF Memory, Points
<1> QED BY <1>1, <1>2

-----------------------------------------------------------------------------
(***************************************************************************)
(* The steps, as far as the invariants look at them.                       *)
(***************************************************************************)
SameTarget ==
    /\ installed' = installed /\ net' = net /\ begun' = begun
    /\ removing' = removing

\* No operation on an addon is under way afterwards.
CalmStep ==
    /\ run'.at \in {"idle", "addon", "loop", "switch", "switched", "manage"}
    /\ SameTarget /\ bc'.status = bc.status

\* Something happens outside of the controller.
OutsideStep ==
    /\ run' = run /\ bc'.status = bc.status /\ installed' = installed
    /\ begun' = begun /\ removing' = removing
    /\ net'.deploy = net.deploy /\ net'.svc = net.svc /\ net'.node = net.node
    /\ net.ready => net'.ready
    /\ net'.pods \subseteq net.pods \cup {net.node}

\* An operation begins.
OpenStep ==
    /\ Within("install") /\ run.ops # {}
    /\ SameTarget /\ bc'.status = bc.status

\* What was done is recorded.
RecordStep ==
    /\ run.at = "record" /\ run'.at = "loop" /\ ~(run.err /\ Blocks)
    /\ installed' = installed /\ net' = net /\ removing' = removing
    /\ bc'.status = [bc.status EXCEPT ![Op.addon] = Op.to]
    /\ begun' = begun \ {Op.addon}

\* The objects of an addon other than Calico begin to change.
ApplyStep ==
    /\ run.at = "install" /\ run.ops # {} /\ Op.addon # Calico
    /\ \E p \in {"apply", "helm"} : Within(p)
    /\ installed' = [installed EXCEPT ![Op.addon] = Partial]
    /\ begun' = begun \cup {Op.addon}
    /\ net' = net /\ removing' = removing /\ bc' = bc

\* They have changed, or an error is reported unless it is a removal.
ApplyEndStep ==
    /\ run.at \in {"apply", "helm"} /\ run.ops # {} /\ Within("record")
    /\ \/ installed' = [installed EXCEPT ![Op.addon] = Op.to]
       \/ installed' = installed /\ (run'.err \/ Op.to = None)
    /\ begun' = begun /\ net' = net /\ removing' = removing /\ bc' = bc

\* An error is reported and nothing has changed.
ErrorStep ==
    /\ run.at \in {"install", "typhaWait", "nodeWait"} /\ run.ops # {}
    /\ Within("record") /\ (run'.err \/ Op.to = None)
    /\ SameTarget /\ bc' = bc

CalicoStartStep ==
    /\ run.at = "install" /\ run.ops # {} /\ Op.addon = Calico
    /\ run' \in Memory /\ run'.ops = run.ops /\ Op' = Op
    /\ \/ /\ run'.at = "uninstall" /\ Op.operate = "remove" /\ removing'
       \/ /\ run'.at = "bootstrap" /\ run'.allow /\ removing' = removing
       \/ /\ run'.at = "config" /\ ~run'.allow /\ removing' = removing
          /\ ~run'.enabled => ~net.deploy
    /\ begun' = begun \cup {Calico}
    /\ installed' = installed /\ net' = net /\ bc' = bc

\* A step of the install of Calico fails half-way.
CalicoFailStep ==
    /\ run.at \in {"bootstrap", "config", "node"} /\ run.ops # {}
    /\ Within("record") /\ run'.err
    /\ installed' = [installed EXCEPT ![Calico] = Partial]
    /\ begun' = begun /\ removing' = removing /\ bc' = bc
    /\ net'.ready = net.ready /\ net'.pods = net.pods
    /\ net.deploy => net'.deploy
    /\ net.svc => net'.svc
    /\ net'.node # net.node =>
          run.at = "node" /\ (net'.node = "typha" => run.allow)

\* A step of it is done; Typha is not waited for here.
CalicoGoesOn ==
    /\ run.ops # {}
    /\ \/ /\ run.at = "bootstrap" /\ Within("typhaWait")
          /\ net'.ready = net.ready /\ net'.pods = net.pods
          /\ net'.node = net.node /\ net'.deploy /\ net'.svc
       \/ /\ run.at = "config" /\ Within("node")
          /\ net' = [net EXCEPT !.config = run.allow]
       \/ /\ run.at = "node" /\ Within("nodeWait")
          /\ net' = [net EXCEPT
                        !.node = IF run.allow THEN "typha" ELSE "direct",
                        !.deploy = @ \/ run.allow, !.svc = @ \/ run.allow]
    /\ installed' = [installed EXCEPT ![Calico] = Partial]
    /\ begun' = begun /\ removing' = removing /\ bc' = bc

WaitStep ==
    /\ run.at = "typhaWait" /\ run.ops # {} /\ (Blocks => net.ready)
    /\ Within("config")
    /\ SameTarget /\ bc' = bc

NodeStep ==
    /\ run.at = "nodeWait" /\ run.ops # {}
    /\ Blocks => net.pods = {net.node}
    /\ begun' = begun /\ net' = net /\ bc' = bc
    /\ \/ /\ run.enabled /\ ~run.allow /\ Within("typhaDelete")
          /\ installed' = installed /\ removing' = removing
       \/ /\ ~run.enabled \/ run.allow
          /\ Within("record") /\ ~removing'
          /\ installed' = [installed EXCEPT ![Op.addon] = Op.to]

DeleteStep ==
    /\ run.at = "typhaDelete" /\ run.ops # {} /\ Within("record")
    /\ begun' = begun /\ bc' = bc
    /\ net'.node = net.node /\ net'.pods = net.pods
    /\ \/ run'.err /\ installed' = installed /\ removing' = removing
       \/ /\ ~net'.deploy /\ ~removing'
          /\ installed' = [installed EXCEPT ![Op.addon] = Op.to]

RemoveStep ==
    /\ run.at = "uninstall" /\ run.ops # {} /\ Within("record")
    /\ begun' = begun /\ bc' = bc /\ removing' = removing
    /\ \A a \in Addons : a # Calico => installed'[a] = installed[a]

Step ==
    \/ CalmStep \/ OutsideStep \/ OpenStep \/ RecordStep
    \/ ApplyStep \/ ApplyEndStep \/ ErrorStep \/ CalicoStartStep
    \/ CalicoFailStep \/ CalicoGoesOn \/ WaitStep \/ NodeStep \/ DeleteStep
    \/ RemoveStep

-----------------------------------------------------------------------------
(***************************************************************************)
(* Every action is one of these steps, and keeps the types.                *)
(***************************************************************************)
LEMMA FaultIs ==
    ASSUME TypeOK, faults < MaxFaults, faults' = faults + 1
    PROVE  faults' \in 0..MaxFaults
BY TypeParts, Constants

LEMMA EditIs == ASSUME TypeOK, Edit PROVE TypeOK' /\ Step
<1>1. /\ UNCHANGED <<target, moved, run, history, faults>>
      /\ edits < MaxEdits /\ edits' = edits + 1
      /\ \/ (\E a \in Addons, s \in Settings \cup {None} :
                bc' = [bc EXCEPT !.spec[a] = s]) /\ large' = large
         \/ bc' = [bc EXCEPT !.pause = ~@] /\ large' = large
         \/ large' = ~large /\ bc' = bc
  BY DEF Edit
<1>2. edits' \in 0..MaxEdits
  BY <1>1, TypeParts, Constants
<1>3. bc' \in Records /\ bc'.status = bc.status /\ large' \in BOOLEAN
  <2>0. bc \in Records /\ large \in BOOLEAN
    BY TypeParts
  <2>1. ASSUME NEW a \in Addons, NEW s \in Settings \cup {None},
               bc' = [bc EXCEPT !.spec[a] = s]
        PROVE  bc' \in Records /\ bc'.status = bc.status
    <3>1. bc' = [bc EXCEPT !.spec = [bc.spec EXCEPT ![a] = s]]
      BY <2>1
    <3> QED BY <2>0, <3>1 DEF Records
  <2>2. ASSUME bc' = [bc EXCEPT !.pause = ~@]
        PROVE  bc' \in Records /\ bc'.status = bc.status
    BY <2>0, <2>2 DEF Records
  <2> QED BY <1>1, <2>0, <2>1, <2>2
<1>4. OutsideStep
  BY <1>1, <1>3 DEF OutsideStep, target, history
<1>5. TypeOK'
  BY <1>1, <1>2, <1>3, TypeParts, TypePartsNext DEF target, history
<1> QED BY <1>4, <1>5 DEF Step

LEMMA RolloutIs == ASSUME TypeOK, Rollout PROVE TypeOK' /\ Step
<1>1. PICK pods \in {net.pods \cup {net.node}, {net.node}} :
          net' = [net EXCEPT !.pods = pods \ {"none"}]
  BY DEF Rollout
<1>2. UNCHANGED <<bc, large, installed, release, moved, run, history, edits,
                  faults>>
  BY DEF Rollout
<1>3. /\ net' \in Nets /\ net'.deploy = net.deploy /\ net'.svc = net.svc
      /\ net'.node = net.node /\ net'.ready = net.ready
      /\ net'.pods \subseteq net.pods \cup {net.node}
  BY <1>1, TypeParts DEF Nets
<1>4. OutsideStep
  BY <1>2, <1>3 DEF OutsideStep, history
<1>5. TypeOK'
  BY <1>2, <1>3, TypeParts, TypePartsNext DEF history
<1> QED BY <1>4, <1>5 DEF Step

LEMMA TyphaStartsIs == ASSUME TypeOK, TyphaStarts PROVE TypeOK' /\ Step
<1>1. /\ net' = [net EXCEPT !.ready = TRUE]
      /\ UNCHANGED <<bc, large, installed, release, moved, run, history,
                     edits, faults>>
  BY DEF TyphaStarts
<1>3. /\ net' \in Nets /\ net'.deploy = net.deploy /\ net'.svc = net.svc
      /\ net'.node = net.node /\ net'.ready
      /\ net'.pods = net.pods
  BY <1>1, TypeParts DEF Nets
<1>4. OutsideStep
  BY <1>1, <1>3 DEF OutsideStep, history
<1>5. TypeOK'
  BY <1>1, <1>3, TypeParts, TypePartsNext DEF history
<1> QED BY <1>4, <1>5 DEF Step

\* An action between the operations.
LEMMA CalmIs ==
    ASSUME TypeOK, run' \in Memory, bc' \in Records, bc'.status = bc.status,
           run'.at \in {"idle", "addon", "loop", "switch", "switched",
                        "manage"},
           moved' \in BOOLEAN, faults' \in 0..MaxFaults,
           UNCHANGED <<large, target, history, edits>>
    PROVE  TypeOK' /\ Step
<1>1. CalmStep
  BY DEF CalmStep, SameTarget, target, history
<1>2. TypeOK'
  BY TypeParts, TypePartsNext DEF target, history
<1> QED BY <1>1, <1>2 DEF Step

LEMMA PhasesAre ==
    ASSUME TypeOK,
           \/ Reconcile \/ StartAddons \/ EndAddons \/ AgentSwitch
           \/ AgentSwitched \/ ManagerManifest
    PROVE  TypeOK' /\ Step
<1>0. /\ run \in Memory /\ bc \in Records /\ moved \in BOOLEAN
      /\ faults \in 0..MaxFaults /\ Idle \in Memory /\ Idle.at = "idle"
  BY TypeParts, IdleIs
<1>1. CASE Reconcile
  <2> DEFINE plan == {p \in {"addon", "switch", "manage"} : NeedExecute(p, bc)}
  <2>1. /\ run' = [Idle EXCEPT !.at = "addon", !.plan = plan]
        /\ UNCHANGED <<bc, large, target, moved, history, edits, faults>>
    BY <1>1 DEF Reconcile
  <2>2. plan \in SUBSET {"addon", "switch", "manage"}
    OBVIOUS
  <2> HIDE DEF plan
  <2>3. run' \in Memory /\ run'.at = "addon"
    BY <1>0, <2>1, <2>2 DEF Memory, Points
  <2> QED BY <1>0, <2>1, <2>3, CalmIs
<1>2. CASE StartAddons
  <2>1. UNCHANGED <<bc, large, target, moved, history, edits, faults>>
    BY <1>2 DEF StartAddons
  <2>2. run' \in {[run EXCEPT !.at = "loop", !.ops = Compare(bc)],
                  [run EXCEPT !.at = "switch"]}
    BY <1>2 DEF StartAddons
  <2>3. run' \in Memory /\ run'.at \in {"loop", "switch"}
    BY <1>0, <2>2, CompareIs, ZenonT(30) DEF Memory, Points
  <2> QED BY <1>0, <2>1, <2>3, CalmIs
<1>3. CASE EndAddons
  <2>1. UNCHANGED <<bc, large, target, moved, history, edits, faults>>
    BY <1>3 DEF EndAddons
  <2>2. run' \in {Idle, [run EXCEPT !.at = "switch"]}
    BY <1>3 DEF EndAddons
  <2>3. run' \in Memory /\ run'.at \in {"idle", "switch"}
    BY <1>0, <2>2 DEF Memory, Points
  <2> QED BY <1>0, <2>1, <2>3, CalmIs
<1>4. CASE AgentSwitch
  <2>1. UNCHANGED <<large, target, history, edits, faults>>
    BY <1>4 DEF AgentSwitch
  <2>2. /\ run' \in {[run EXCEPT !.at = "manage"], [run EXCEPT !.at = "switched"]}
        /\ bc' \in {bc, [bc EXCEPT !.listener = "current"]}
        /\ moved' \in {moved, TRUE}
    BY <1>4 DEF AgentSwitch
  <2>3. run' \in Memory /\ run'.at \in {"manage", "switched"}
    BY <1>0, <2>2 DEF Memory, Points
  <2>4. bc' \in Records /\ bc'.status = bc.status
    BY <1>0, <2>2 DEF Records
  <2> QED BY <1>0, <2>1, <2>2, <2>3, <2>4, CalmIs
<1>5. CASE AgentSwitched
  <2>1. UNCHANGED <<large, target, moved, history, edits, faults>>
    BY <1>5 DEF AgentSwitched
  <2>2. /\ run' = [run EXCEPT !.at = "manage"]
        /\ bc' = [bc EXCEPT !.switched = TRUE]
    BY <1>5 DEF AgentSwitched
  <2>3. run' \in Memory /\ run'.at = "manage"
    BY <1>0, <2>2 DEF Memory, Points
  <2>4. bc' \in Records /\ bc'.status = bc.status
    BY <1>0, <2>2 DEF Records
  <2> QED BY <1>0, <2>1, <2>3, <2>4, CalmIs
<1>6. CASE ManagerManifest
  <2>1. UNCHANGED <<large, target, moved, history, edits, faults>>
    BY <1>6 DEF ManagerManifest
  <2>2. run' = Idle /\ bc' \in {bc, [bc EXCEPT !.managed = TRUE]}
    BY <1>6 DEF ManagerManifest
  <2>4. bc' \in Records /\ bc'.status = bc.status
    BY <1>0, <2>2 DEF Records
  <2> QED BY <1>0, <2>1, <2>2, <2>4, CalmIs
<1> QED BY <1>1, <1>2, <1>3, <1>4, <1>5, <1>6

LEMMA BeforeCreateIs == ASSUME TypeOK, BeforeCreate PROVE TypeOK' /\ Step
<1>1. /\ run.ops # {} /\ GoTo("install")
      /\ bc' \in {bc, [bc EXCEPT !.listener = "bkecluster"]}
      /\ UNCHANGED <<large, target, moved, history, edits, faults>>
  BY DEF BeforeCreate, GoTo
<1>2. bc' \in Records /\ bc'.status = bc.status
  BY <1>1, TypeParts DEF Records
<1>3. Within("install")
  BY <1>1, GoToIs DEF Points
<1>4. OpenStep
  BY <1>1, <1>2, <1>3 DEF OpenStep, SameTarget, target, history
<1>5. TypeOK'
  BY <1>1, <1>2, <1>3, TypeParts, TypePartsNext DEF Within, target, history
<1> QED BY <1>4, <1>5 DEF Step

\* The actions that end an operation, or the reconcile, with an error.
LEMMA FailuresAre ==
    ASSUME TypeOK,
           BeforeCreateFails \/ RecordFails \/ AgentSwitchFails \/ Abort
    PROVE  TypeOK' /\ Step
<1>0. /\ run \in Memory /\ bc \in Records /\ moved \in BOOLEAN
      /\ Idle \in Memory /\ Idle.at = "idle"
  BY TypeParts, IdleIs
<1>1. faults' \in 0..MaxFaults
  BY FaultIs DEF BeforeCreateFails, RecordFails, AgentSwitchFails, Abort
<1>2. bc' \in {bc, [bc EXCEPT !.listener = "bkecluster"]}
  BY DEF BeforeCreateFails, RecordFails, AgentSwitchFails, Abort
<1>3. bc' \in Records /\ bc'.status = bc.status
  BY <1>0, <1>2 DEF Records
<1>4. UNCHANGED <<large, target, moved, history, edits>>
  BY DEF BeforeCreateFails, RecordFails, AgentSwitchFails, Abort
<1>5. run' \in Memory /\ run'.at \in {"idle", "loop", "manage"}
  <2>1. CASE BeforeCreateFails \/ RecordFails
    BY <2>1, SkipOrReturnIs DEF BeforeCreateFails, RecordFails
  <2>2. CASE AgentSwitchFails
    <3>1. run' = [run EXCEPT !.at = "manage"]
      BY <2>2 DEF AgentSwitchFails
    <3> QED BY <1>0, <3>1 DEF Memory, Points
  <2>3. CASE Abort
    BY <1>0, <2>3 DEF Abort
  <2> QED BY <2>1, <2>2, <2>3
<1> QED BY <1>0, <1>1, <1>3, <1>4, <1>5, CalmIs

LEMMA RecordIs == ASSUME TypeOK, OpInv, Record PROVE TypeOK' /\ Step
<1>0. /\ run \in Memory /\ bc \in Records /\ begun \subseteq Addons
      /\ run.at = "record" /\ run.ops # {}
  BY TypeParts DEF Record, OpInv
<1>1. UNCHANGED <<large, target, moved, removing, edits, faults>>
  BY DEF Record
<1>2. CASE run.err /\ Blocks
  <2>1. run' = Idle /\ UNCHANGED <<bc, begun>>
    BY <1>2 DEF Record
  <2>2. moved \in BOOLEAN /\ faults \in 0..MaxFaults
    BY TypeParts
  <2> QED BY <1>0, <1>1, <2>1, <2>2, IdleIs, CalmIs DEF history
<1>3. CASE ~(run.err /\ Blocks)
  <2>1. /\ bc' = [bc EXCEPT !.status = [bc.status EXCEPT ![Op.addon] = Op.to]]
        /\ begun' = begun \ {Op.addon}
        /\ run' = [run EXCEPT !.at = "loop", !.ops = @ \ {Op},
                              !.paused = bc.pause, !.err = FALSE]
    BY <1>3 DEF Record
  <2>2. /\ bc' \in Records
        /\ bc'.status = [bc.status EXCEPT ![Op.addon] = Op.to]
    BY <1>0, <2>1, OpFields DEF Records
  <2>3. bc.pause \in BOOLEAN
    BY <1>0 DEF Records
  <2>4. run' \in Memory /\ run'.at = "loop"
    BY <1>0, <2>1, <2>3 DEF Memory, Points
  <2>5. RecordStep
    BY <1>0, <1>1, <1>3, <2>1, <2>2, <2>4 DEF RecordStep, target
  <2>6. TypeOK'
    BY <1>0, <1>1, <2>1, <2>2, <2>4, TypeParts, TypePartsNext DEF target
  <2> QED BY <2>5, <2>6 DEF Step
<1> QED BY <1>2, <1>3

-----------------------------------------------------------------------------
\* The types after a step of an operation.
LEMMA OpTypes ==
    ASSUME TypeOK, NEW p, Within(p), bc' = bc, large' = large, moved' = moved,
           edits' = edits, faults' \in 0..MaxFaults, removing' \in BOOLEAN,
           installed' \in [Addons -> Settings \cup {None, Partial}],
           release' \in [Charts -> Releases], net' \in Nets,
           begun' \subseteq Addons
    PROVE  TypeOK'
BY TypeParts, TypePartsNext DEF Within

LEMMA InstallingIs ==
    ASSUME TypeOK, NEW p, Installing(p)
    PROVE  /\ run.at = p /\ run.ops # {} /\ Op.addon \in Addons
           /\ Op.to \in Settings \cup {None}
           /\ Op.operate = "remove" <=> Op.to = None
BY OpFields DEF Installing

LEMMA PrepareFailsIs == ASSUME TypeOK, PrepareFails PROVE TypeOK' /\ Step
<1>1. /\ Installing("install") /\ faults' \in 0..MaxFaults
      /\ Return(Op.operate # "remove" \/ Op.addon \notin Charts)
      /\ UNCHANGED <<bc, large, target, moved, history, edits>>
  BY FaultIs DEF PrepareFails
<1> DEFINE e == Op.operate # "remove" \/ Op.addon \notin Charts
<1>2. e \in BOOLEAN /\ (e \/ Op.operate = "remove")
  OBVIOUS
<1>3. Return(e)
  BY <1>1
<1> HIDE DEF e
<1>4. Within("record") /\ run'.err = e
  BY <1>2, <1>3, ReturnIs
<1>5. ErrorStep
  BY <1>1, <1>2, <1>4, InstallingIs
     DEF ErrorStep, SameTarget, target, history
<1>6. TypeOK'
  BY <1>1, <1>4, TypeParts, OpTypes DEF target, history
<1> QED BY <1>5, <1>6 DEF Step

LEMMA WaitNodeFailsIs == ASSUME TypeOK, WaitNodeFails PROVE TypeOK' /\ Step
<1>1. /\ Installing("nodeWait") /\ faults' \in 0..MaxFaults /\ Return(TRUE)
      /\ UNCHANGED <<bc, large, target, moved, history, edits>>
  BY FaultIs DEF WaitNodeFails
<1>4. Within("record") /\ run'.err
  BY <1>1, ReturnIs
<1>5. ErrorStep
  BY <1>1, <1>4, InstallingIs DEF ErrorStep, SameTarget, target, history
<1>6. TypeOK'
  BY <1>1, <1>4, TypeParts, OpTypes DEF target, history
<1> QED BY <1>5, <1>6 DEF Step

\* The addon under way is touched.
LEMMA TouchIs ==
    ASSUME TypeOK, run.ops # {}, Touch(Op.addon)
    PROVE  /\ installed' = [installed EXCEPT ![Op.addon] = Partial]
           /\ begun' = begun \cup {Op.addon}
           /\ installed' \in [Addons -> Settings \cup {None, Partial}]
           /\ begun' \subseteq Addons
BY OpFields, TypeParts DEF Touch

LEMMA DoneIs ==
    ASSUME TypeOK, run.ops # {}, NEW a \in Addons, Done(a)
    PROVE  /\ installed' = [installed EXCEPT ![a] = Op.to]
           /\ installed' \in [Addons -> Settings \cup {None, Partial}]
BY OpFields, TypeParts DEF Done

LEMMA ApplyYamlIs == ASSUME TypeOK, ApplyYaml PROVE TypeOK' /\ Step
<1>1. /\ Installing("install") /\ Op.addon \notin Charts \cup {Calico}
      /\ Touch(Op.addon) /\ GoTo("apply")
      /\ UNCHANGED <<bc, large, release, net, moved, removing, edits, faults>>
  BY DEF ApplyYaml
<1>2. Within("apply")
  BY <1>1, GoToIs DEF Points
<1>3. ApplyStep
  BY <1>1, <1>2, InstallingIs, TouchIs DEF ApplyStep
<1>4. TypeOK'
  BY <1>1, <1>2, InstallingIs, TouchIs, TypeParts, OpTypes
<1> QED BY <1>3, <1>4 DEF Step

LEMMA ApplyEndsIs == ASSUME TypeOK, ApplyEnds PROVE TypeOK' /\ Step
<1>1. /\ Installing("apply")
      /\ UNCHANGED <<bc, large, release, net, moved, history, edits>>
      /\ \/ Done(Op.addon) /\ Return(FALSE) /\ faults' = faults
         \/ /\ faults < MaxFaults /\ faults' = faults + 1
            /\ Return(Op.operate # "remove") /\ installed' = installed
  BY DEF ApplyEnds
<1>2. /\ run.at = "apply" /\ run.ops # {} /\ Op.addon \in Addons
      /\ Op.operate = "remove" <=> Op.to = None
  BY <1>1, InstallingIs
<1>3. /\ faults' \in 0..MaxFaults /\ Within("record")
      /\ installed' \in [Addons -> Settings \cup {None, Partial}]
      /\ \/ installed' = [installed EXCEPT ![Op.addon] = Op.to]
         \/ installed' = installed /\ (run'.err \/ Op.to = None)
  <2>1. CASE Done(Op.addon) /\ Return(FALSE) /\ faults' = faults
    BY <1>2, <2>1, DoneIs, ReturnIs, TypeParts
  <2>2. CASE /\ faults < MaxFaults /\ faults' = faults + 1
             /\ Return(Op.operate # "remove") /\ installed' = installed
    <3>1. (Op.operate # "remove") \in BOOLEAN
      OBVIOUS
    <3>2. Within("record") /\ run'.err = (Op.operate # "remove")
      BY <2>2, <3>1, ReturnIs
    <3> QED BY <1>2, <2>2, <3>2, FaultIs, TypeParts
  <2> QED BY <1>1, <2>1, <2>2
<1>4. ApplyEndStep
  BY <1>1, <1>2, <1>3 DEF ApplyEndStep, history
<1>5. TypeOK'
  BY <1>1, <1>3, TypeParts, OpTypes DEF history
<1> QED BY <1>4, <1>5 DEF Step

LEMMA RunHelmIs == ASSUME TypeOK, RunHelm PROVE TypeOK' /\ Step
<1>1. /\ Installing("install") /\ Op.addon \in Charts
      /\ UNCHANGED <<bc, large, net, moved, removing, edits, faults>>
  BY DEF RunHelm
<1>2. /\ run.at = "install" /\ run.ops # {} /\ Op.addon \in Addons
      /\ Op.operate = "remove" <=> Op.to = None
  BY <1>1, InstallingIs
<1>3. CASE Refused(Op)
  <2>1. /\ Return(Op.operate # "remove")
        /\ UNCHANGED <<installed, begun, release>>
    BY <1>3 DEF RunHelm
  <2>2. (Op.operate # "remove") \in BOOLEAN
    OBVIOUS
  <2>3. Within("record") /\ run'.err = (Op.operate # "remove")
    BY <2>1, <2>2, ReturnIs
  <2>4. ErrorStep
    BY <1>1, <1>2, <2>1, <2>3 DEF ErrorStep, SameTarget
  <2>5. TypeOK'
    BY <1>1, <2>1, <2>3, TypeParts, OpTypes
  <2> QED BY <2>4, <2>5 DEF Step
<1>4. CASE ~Refused(Op)
  <2>1. /\ release' = [release EXCEPT ![Op.addon] = "pending"]
        /\ Touch(Op.addon) /\ GoTo("helm")
    BY <1>4 DEF RunHelm
  <2>2. Within("helm")
    BY <2>1, GoToIs DEF Points
  <2>3. release' \in [Charts -> Releases]
    BY <1>1, <2>1, TypeParts DEF Releases
  <2>4. Op.addon # Calico
    BY <1>1, Constants
  <2>5. ApplyStep
    BY <1>1, <1>2, <2>1, <2>2, <2>4, TouchIs DEF ApplyStep
  <2>6. TypeOK'
    BY <1>1, <1>2, <2>1, <2>2, <2>3, TouchIs, TypeParts, OpTypes
  <2> QED BY <2>5, <2>6 DEF Step
<1> QED BY <1>3, <1>4

LEMMA HelmEndsIs == ASSUME TypeOK, HelmEnds PROVE TypeOK' /\ Step
<1>1. /\ Installing("helm")
      /\ UNCHANGED <<bc, large, net, moved, history, edits>>
      /\ \E r \in Releases : release' = [release EXCEPT ![Op.addon] = r]
      /\ \/ Done(Op.addon) /\ Return(FALSE) /\ faults' = faults
         \/ /\ faults < MaxFaults /\ faults' = faults + 1
            /\ Return(Op.operate # "remove") /\ installed' = installed
  BY DEF HelmEnds, Releases
<1>2. /\ run.at = "helm" /\ run.ops # {} /\ Op.addon \in Addons
      /\ Op.operate = "remove" <=> Op.to = None
  BY <1>1, InstallingIs
<1>3. /\ faults' \in 0..MaxFaults /\ Within("record")
      /\ installed' \in [Addons -> Settings \cup {None, Partial}]
      /\ \/ installed' = [installed EXCEPT ![Op.addon] = Op.to]
         \/ installed' = installed /\ (run'.err \/ Op.to = None)
  <2>1. CASE Done(Op.addon) /\ Return(FALSE) /\ faults' = faults
    BY <1>2, <2>1, DoneIs, ReturnIs, TypeParts
  <2>2. CASE /\ faults < MaxFaults /\ faults' = faults + 1
             /\ Return(Op.operate # "remove") /\ installed' = installed
    <3>1. (Op.operate # "remove") \in BOOLEAN
      OBVIOUS
    <3>2. Within("record") /\ run'.err = (Op.operate # "remove")
      BY <2>2, <3>1, ReturnIs
    <3> QED BY <1>2, <2>2, <3>2, FaultIs, TypeParts
  <2> QED BY <1>1, <2>1, <2>2
<1>4. release' \in [Charts -> Releases]
  BY <1>1, TypeParts
<1>5. ApplyEndStep
  BY <1>1, <1>2, <1>3 DEF ApplyEndStep, history
<1>6. TypeOK'
  BY <1>1, <1>3, <1>4, TypeParts, OpTypes DEF history
<1> QED BY <1>5, <1>6 DEF Step

-----------------------------------------------------------------------------
(***************************************************************************)
(* The steps of the install of Calico.                                     *)
(***************************************************************************)
LEMMA StartCalicoIs == ASSUME TypeOK, StartCalico PROVE TypeOK' /\ Step
<1>1. /\ Installing("install") /\ Op.addon = Calico
      /\ UNCHANGED <<bc, large, target, moved, edits, faults>>
  BY DEF StartCalico
<1>2. /\ run.at = "install" /\ run.ops # {} /\ Op.addon \in Addons
  BY <1>1, InstallingIs
<1>3. CASE Op.operate = "create" /\ large /\ ~AllowTypha(Op)
  <2>1. Return(TRUE) /\ UNCHANGED <<begun, removing>>
    BY <1>3 DEF StartCalico
  <2>2. Within("record") /\ run'.err
    BY <2>1, ReturnIs
  <2>3. ErrorStep
    BY <1>1, <1>2, <2>1, <2>2 DEF ErrorStep, SameTarget, target
  <2>4. TypeOK'
    BY <1>1, <2>1, <2>2, TypeParts, OpTypes DEF target
  <2> QED BY <2>3, <2>4 DEF Step
<1>4. CASE ~(Op.operate = "create" /\ large /\ ~AllowTypha(Op))
  <2> DEFINE allow == AllowTypha(Op)
             enabled == TyphaEnabled
             point == IF Op.operate = "remove" THEN "uninstall"
                      ELSE IF allow THEN "bootstrap" ELSE "config"
  <2>1. /\ run' = [run EXCEPT !.allow = allow, !.enabled = enabled,
                              !.at = point]
        /\ begun' = begun \cup {Calico}
        /\ removing' = (removing \/ Op.operate = "remove")
    BY <1>4 DEF StartCalico
  <2>2. allow \in BOOLEAN /\ enabled \in BOOLEAN /\ (~enabled => ~net.deploy)
    BY AllowIs, EnabledIs
  <2>3. /\ point \in {"uninstall", "bootstrap", "config"}
        /\ point = "uninstall" <=> Op.operate = "remove"
        /\ point = "bootstrap" => allow
        /\ point = "config" => ~allow
    OBVIOUS
  <2> HIDE DEF allow, enabled, point
  <2>4. /\ run' \in Memory /\ run'.ops = run.ops /\ run'.at = point
        /\ run'.allow = allow /\ run'.enabled = enabled
    BY <2>1, <2>2, <2>3, TypeParts DEF Memory, Points
  <2>5. Op' = Op
    BY <2>4 DEF Op
  <2>6. removing' \in BOOLEAN /\ begun' \subseteq Addons
    BY <1>1, <1>2, <2>1, TypeParts
  <2>7. removing \in BOOLEAN
    BY TypeParts
  <2>8. CalicoStartStep
    BY <1>1, <1>2, <2>1, <2>2, <2>3, <2>4, <2>5, <2>7
       DEF CalicoStartStep, target
  <2>9. TypeOK'
    BY <1>1, <2>4, <2>6, TypeParts, TypePartsNext DEF target
  <2> QED BY <2>8, <2>9 DEF Step
<1> QED BY <1>3, <1>4

\* What CalicoStep does, whatever the step.
LEMMA CalicoStepIs ==
    ASSUME TypeOK, NEW p \in Points, NEW to \in Nets, NEW S \in SUBSET Nets,
           NEW next \in Points, CalicoStep(p, to, S, next)
    PROVE  /\ TypeOK' /\ run.at = p /\ run.ops # {}
           /\ installed' = [installed EXCEPT ![Calico] = Partial]
           /\ bc' = bc /\ begun' = begun /\ removing' = removing
           /\ \/ net' = to /\ Within(next)
              \/ net' \in S /\ Within("record") /\ run'.err
<1>1. /\ Installing(p)
      /\ installed' = [installed EXCEPT ![Calico] = Partial]
      /\ \/ net' = to /\ GoTo(next) /\ faults' = faults
         \/ /\ faults < MaxFaults /\ faults' = faults + 1
            /\ net' \in S /\ Return(TRUE)
      /\ UNCHANGED <<bc, large, release, moved, history, edits>>
  BY DEF CalicoStep
<1>2. \/ net' = to /\ Within(next) /\ faults' = faults
      \/ /\ net' \in S /\ Within("record") /\ run'.err
         /\ faults' \in 0..MaxFaults
  BY <1>1, GoToIs, ReturnIs, FaultIs
<1>3. installed' \in [Addons -> Settings \cup {None, Partial}]
  BY <1>1, TypeParts, Constants
<1>4. TypeOK'
  BY <1>1, <1>2, <1>3, TypeParts, OpTypes DEF history
<1> QED BY <1>1, <1>2, <1>4, InstallingIs DEF history

LEMMA BootstrapIs == ASSUME TypeOK, Bootstrap PROVE TypeOK' /\ Step
<1> DEFINE based == [net EXCEPT !.config = @ \/ Op.operate = "create"]
           to == [based EXCEPT !.deploy = TRUE, !.svc = TRUE]
           half == [based EXCEPT !.svc = TRUE]
<1>1. net \in Nets /\ based \in Nets /\ to \in Nets /\ half \in Nets
  BY TypeParts DEF Nets
<1>2. CalicoStep("bootstrap", to, {net, based, half}, "typhaWait")
  BY DEF Bootstrap
<1>3. /\ based.ready = net.ready /\ based.pods = net.pods
      /\ based.deploy = net.deploy /\ based.svc = net.svc /\ based.node = net.node
      /\ half.ready = net.ready /\ half.pods = net.pods
      /\ half.deploy = net.deploy /\ half.svc /\ half.node = net.node
  BY <1>1 DEF Nets
<1>t. /\ to.ready = net.ready /\ to.pods = net.pods /\ to.deploy /\ to.svc
      /\ to.node = net.node
  BY <1>1 DEF Nets
<1> HIDE DEF half, based, to
<1>4. /\ TypeOK' /\ run.at = "bootstrap" /\ run.ops # {}
      /\ installed' = [installed EXCEPT ![Calico] = Partial]
      /\ bc' = bc /\ begun' = begun /\ removing' = removing
      /\ \/ net' = to /\ Within("typhaWait")
         \/ net' \in {net, based, half} /\ Within("record") /\ run'.err
  <2>1. {net, based, half} \in SUBSET Nets
    BY <1>1
  <2>2. "bootstrap" \in Points /\ "typhaWait" \in Points
    BY DEF Points
  <2> QED BY <1>1, <1>2, <2>1, <2>2, CalicoStepIs
<1>5. CalicoGoesOn \/ CalicoFailStep
  BY <1>3, <1>t, <1>4 DEF CalicoGoesOn, CalicoFailStep
<1> QED BY <1>4, <1>5 DEF Step

LEMMA ApplyConfigIs == ASSUME TypeOK, ApplyConfig PROVE TypeOK' /\ Step
<1> DEFINE to == [net EXCEPT !.config = run.allow]
<1>1. net \in Nets /\ to \in Nets
  BY TypeParts DEF Nets, Memory
<1>2. CalicoStep("config", to, {net, to}, "node")
  BY DEF ApplyConfig
<1>3. /\ to.ready = net.ready /\ to.pods = net.pods
      /\ to.deploy = net.deploy /\ to.svc = net.svc /\ to.node = net.node
  BY <1>1 DEF Nets
<1>4. /\ TypeOK' /\ run.at = "config" /\ run.ops # {}
      /\ installed' = [installed EXCEPT ![Calico] = Partial]
      /\ bc' = bc /\ begun' = begun /\ removing' = removing
      /\ \/ net' = to /\ Within("node")
         \/ net' \in {net, to} /\ Within("record") /\ run'.err
  <2>1. {net, to} \in SUBSET Nets
    BY <1>1
  <2>2. "config" \in Points /\ "node" \in Points
    BY DEF Points
  <2> HIDE DEF to
  <2> QED BY <1>1, <1>2, <2>1, <2>2, CalicoStepIs
<1>5. CASE net' = to /\ Within("node")
  BY <1>4, <1>5 DEF CalicoGoesOn, Step
<1> HIDE DEF to
<1>6. CASE net' \in {net, to} /\ Within("record") /\ run'.err
  BY <1>3, <1>4, <1>6 DEF CalicoFailStep, Step
<1> QED BY <1>4, <1>5, <1>6

LEMMA ApplyNodeIs == ASSUME TypeOK, ApplyNode PROVE TypeOK' /\ Step
<1> DEFINE to == [net EXCEPT !.node = IF run.allow THEN "typha" ELSE "direct",
                             !.deploy = @ \/ run.allow,
                             !.svc = @ \/ run.allow]
<1>1. /\ net \in Nets /\ run.allow \in BOOLEAN /\ to \in Nets
      /\ to.ready = net.ready /\ to.pods = net.pods
      /\ net.deploy => to.deploy
      /\ net.svc => to.svc
      /\ to.node = "typha" => run.allow
  <2>1. net \in Nets /\ run.allow \in BOOLEAN
    BY TypeParts DEF Memory
  <2> DEFINE d == net.deploy \/ run.allow
             s == net.svc \/ run.allow
             n == IF run.allow THEN "typha" ELSE "direct"
  <2>2. /\ d \in BOOLEAN /\ s \in BOOLEAN /\ n \in {"typha", "direct"}
        /\ net.deploy => d
        /\ net.svc => s
        /\ n = "typha" => run.allow
    BY <2>1
  <2>3. to = [net EXCEPT !.node = n, !.deploy = d, !.svc = s]
    BY <2>1 DEF Nets
  <2> HIDE DEF d, s, n, to
  <2> QED BY <2>1, <2>2, <2>3 DEF Nets, Modes
<1>2. CalicoStep("node", to, {net, to}, "nodeWait")
  BY DEF ApplyNode
<1>4. /\ TypeOK' /\ run.at = "node" /\ run.ops # {}
      /\ installed' = [installed EXCEPT ![Calico] = Partial]
      /\ bc' = bc /\ begun' = begun /\ removing' = removing
      /\ \/ net' = to /\ Within("nodeWait")
         \/ net' \in {net, to} /\ Within("record") /\ run'.err
  <2>1. {net, to} \in SUBSET Nets
    BY <1>1
  <2>2. "node" \in Points /\ "nodeWait" \in Points
    BY DEF Points
  <2> HIDE DEF to
  <2> QED BY <1>1, <1>2, <2>1, <2>2, CalicoStepIs
<1>5. CASE net' = to /\ Within("nodeWait")
  BY <1>4, <1>5 DEF CalicoGoesOn, Step
<1> HIDE DEF to
<1>6. CASE net' \in {net, to} /\ Within("record") /\ run'.err
  BY <1>1, <1>4, <1>6 DEF CalicoFailStep, Step
<1> QED BY <1>4, <1>5, <1>6

LEMMA WaitTyphaIs == ASSUME TypeOK, WaitTypha PROVE TypeOK' /\ Step
<1>1. /\ Installing("typhaWait")
      /\ UNCHANGED <<bc, large, target, moved, history, edits>>
      /\ \/ (Blocks => net.ready) /\ GoTo("config") /\ faults' = faults
         \/ faults < MaxFaults /\ faults' = faults + 1 /\ Return(TRUE)
  BY DEF WaitTypha
<1>2. run.at = "typhaWait" /\ run.ops # {}
  BY <1>1, InstallingIs
<1>3. "config" \in Points
  BY DEF Points
<1>4. CASE (Blocks => net.ready) /\ GoTo("config") /\ faults' = faults
  <2>1. Within("config")
    BY <1>3, <1>4, GoToIs
  <2>2. WaitStep
    BY <1>1, <1>2, <1>4, <2>1 DEF WaitStep, SameTarget, target, history
  <2>3. TypeOK'
    BY <1>1, <1>4, <2>1, TypeParts, OpTypes DEF target, history
  <2> QED BY <2>2, <2>3 DEF Step
<1>5. CASE faults < MaxFaults /\ faults' = faults + 1 /\ Return(TRUE)
  <2>1. Within("record") /\ run'.err /\ faults' \in 0..MaxFaults
    BY <1>5, ReturnIs, FaultIs
  <2>2. ErrorStep
    BY <1>1, <1>2, <2>1 DEF ErrorStep, SameTarget, target, history
  <2>3. TypeOK'
    BY <1>1, <2>1, TypeParts, OpTypes DEF target, history
  <2> QED BY <2>2, <2>3 DEF Step
<1> QED BY <1>1, <1>4, <1>5

LEMMA WaitNodeIs ==
    ASSUME TypeOK, OpInv, WaitNode PROVE TypeOK' /\ Step
<1>1. /\ Installing("nodeWait") /\ (Blocks => net.pods = {net.node})
      /\ UNCHANGED <<bc, large, release, net, moved, begun, edits, faults>>
      /\ \/ /\ run.enabled /\ ~run.allow
            /\ GoTo("typhaDelete") /\ UNCHANGED <<installed, removing>>
         \/ /\ ~run.enabled \/ run.allow
            /\ Done(Calico) /\ Return(FALSE) /\ removing' = FALSE
  BY DEF WaitNode
<1>2. run.at = "nodeWait" /\ run.ops # {} /\ Op.addon = Calico
  BY <1>1, InstallingIs DEF OpInv, CalicoPoints
<1>3. CASE /\ run.enabled /\ ~run.allow
           /\ GoTo("typhaDelete") /\ UNCHANGED <<installed, removing>>
  <2>1. Within("typhaDelete")
    BY <1>3, GoToIs DEF Points
  <2>2. NodeStep
    BY <1>1, <1>2, <1>3, <2>1 DEF NodeStep
  <2>3. TypeOK'
    BY <1>1, <1>3, <2>1, TypeParts, OpTypes
  <2> QED BY <2>2, <2>3 DEF Step
<1>4. CASE /\ ~run.enabled \/ run.allow
           /\ Done(Calico) /\ Return(FALSE) /\ removing' = FALSE
  <2>1. Within("record")
    BY <1>4, ReturnIs
  <2>2. /\ installed' = [installed EXCEPT ![Op.addon] = Op.to]
        /\ installed' \in [Addons -> Settings \cup {None, Partial}]
    BY <1>2, <1>4, Constants, DoneIs
  <2>3. NodeStep
    BY <1>1, <1>2, <1>4, <2>1, <2>2 DEF NodeStep
  <2>4. TypeOK'
    BY <1>1, <1>4, <2>1, <2>2, TypeParts, OpTypes
  <2> QED BY <2>3, <2>4 DEF Step
<1> QED BY <1>1, <1>3, <1>4

LEMMA DeleteTyphaIs ==
    ASSUME TypeOK, OpInv, DeleteTypha PROVE TypeOK' /\ Step
<1>0. net \in Nets
  BY TypeParts
<1>1. /\ Installing("typhaDelete")
      /\ UNCHANGED <<bc, large, release, moved, begun, edits>>
      /\ \/ /\ net' = [net EXCEPT !.deploy = FALSE, !.svc = FALSE, !.ready = FALSE]
            /\ Done(Calico) /\ Return(FALSE) /\ removing' = FALSE
            /\ faults' = faults
         \/ /\ faults < MaxFaults /\ faults' = faults + 1
            /\ net' \in {net, [net EXCEPT !.deploy = FALSE, !.ready = FALSE],
                         [net EXCEPT !.svc = FALSE, !.ready = FALSE]}
            /\ Return(TRUE)
            /\ UNCHANGED <<installed, removing>>
  BY DEF DeleteTypha
<1>2. run.at = "typhaDelete" /\ run.ops # {} /\ Op.addon = Calico
  BY <1>1, InstallingIs DEF OpInv, CalicoPoints
<1>3. net' \in Nets /\ net'.node = net.node /\ net'.pods = net.pods
  BY <1>0, <1>1 DEF Nets
<1>4. CASE /\ net' = [net EXCEPT !.deploy = FALSE, !.svc = FALSE, !.ready = FALSE]
           /\ Done(Calico) /\ Return(FALSE) /\ removing' = FALSE
           /\ faults' = faults
  <2>1. Within("record")
    BY <1>4, ReturnIs
  <2>2. /\ installed' = [installed EXCEPT ![Op.addon] = Op.to]
        /\ installed' \in [Addons -> Settings \cup {None, Partial}]
    BY <1>2, <1>4, Constants, DoneIs
  <2>3. ~net'.deploy
    BY <1>0, <1>4 DEF Nets
  <2>4. DeleteStep
    BY <1>1, <1>2, <1>3, <1>4, <2>1, <2>2, <2>3 DEF DeleteStep
  <2>5. TypeOK'
    BY <1>1, <1>3, <1>4, <2>1, <2>2, TypeParts, OpTypes
  <2> QED BY <2>4, <2>5 DEF Step
<1>5. CASE /\ faults < MaxFaults /\ faults' = faults + 1
           /\ Return(TRUE) /\ UNCHANGED <<installed, removing>>
  <2>1. Within("record") /\ run'.err /\ faults' \in 0..MaxFaults
    BY <1>5, ReturnIs, FaultIs
  <2>2. DeleteStep
    BY <1>1, <1>2, <1>3, <1>5, <2>1 DEF DeleteStep
  <2>3. TypeOK'
    BY <1>1, <1>3, <1>5, <2>1, TypeParts, OpTypes
  <2> QED BY <2>2, <2>3 DEF Step
<1> QED BY <1>1, <1>4, <1>5

LEMMA RemoveCalicoIs == ASSUME TypeOK, RemoveCalico PROVE TypeOK' /\ Step
<1> DEFINE some == [net EXCEPT !.deploy = @ /\ ~run.allow,
                               !.svc = @ /\ ~run.allow,
                               !.ready = @ /\ ~run.allow]
           all == [some EXCEPT !.node = "none", !.config = FALSE]
<1>0. net \in Nets /\ run.allow \in BOOLEAN
  BY TypeParts DEF Memory
<1>1. /\ Installing("uninstall") /\ Return(FALSE)
      /\ UNCHANGED <<bc, large, release, moved, history, edits>>
      /\ \/ net' = all /\ Done(Calico) /\ faults' = faults
         \/ /\ faults < MaxFaults /\ faults' = faults + 1
            /\ net' \in {net, some}
            /\ installed' = [installed EXCEPT ![Calico] = Partial]
  BY DEF RemoveCalico
<1>2. some \in Nets
  <2> DEFINE d == net.deploy /\ ~run.allow
             s == net.svc /\ ~run.allow
             r == net.ready /\ ~run.allow
  <2>1. d \in BOOLEAN /\ s \in BOOLEAN /\ r \in BOOLEAN
    OBVIOUS
  <2>2. some = [net EXCEPT !.deploy = d, !.svc = s, !.ready = r]
    BY <1>0 DEF Nets
  <2> HIDE DEF d, s, r, some
  <2> QED BY <1>0, <2>1, <2>2 DEF Nets
<1> HIDE DEF some
<1>3. all \in Nets
  BY <1>2 DEF Nets
<1> HIDE DEF all
<1>4. /\ net' \in Nets /\ faults' \in 0..MaxFaults
      /\ run.at = "uninstall" /\ run.ops # {} /\ Within("record")
  BY <1>0, <1>1, <1>2, <1>3, InstallingIs, ReturnIs, FaultIs, TypeParts
<1>5. \E v : installed' = [installed EXCEPT ![Calico] = v]
  BY <1>1 DEF Done
<1>6. installed' \in [Addons -> Settings \cup {None, Partial}]
  BY <1>1, <1>4, DoneIs, TypeParts, Constants
<1>7. RemoveStep
  BY <1>1, <1>4, <1>5, TypeParts DEF RemoveStep, history
<1>8. TypeOK'
  BY <1>1, <1>4, <1>6, TypeParts, OpTypes DEF history
<1> QED BY <1>7, <1>8 DEF Step

LEMMA StepsAre ==
    ASSUME TypeOK, OpInv, [Next]_vars
    PROVE  TypeOK' /\ Step
<1>1. CASE UNCHANGED vars
  <2>1. OutsideStep
    BY <1>1 DEF OutsideStep, vars, target, history
  <2>2. TypeOK'
    BY <1>1, TypeParts, TypePartsNext DEF vars, target, history
  <2> QED BY <2>1, <2>2 DEF Step
<1>2. CASE Phases
  BY <1>2, PhasesAre, BeforeCreateIs, RecordIs DEF Phases
<1>3. CASE Install
  BY <1>3, ApplyYamlIs, ApplyEndsIs, RunHelmIs, HelmEndsIs, StartCalicoIs,
     BootstrapIs, WaitTyphaIs, ApplyConfigIs, ApplyNodeIs, WaitNodeIs,
     DeleteTyphaIs, RemoveCalicoIs DEF Install
<1>4. CASE Fault
  BY <1>4, FailuresAre, PrepareFailsIs, WaitNodeFailsIs DEF Fault
<1> QED BY <1>1, <1>2, <1>3, <1>4, EditIs, RolloutIs, TyphaStartsIs DEF Next

-----------------------------------------------------------------------------
(***************************************************************************)
(* The invariants.                                                         *)
(***************************************************************************)
LEMMA InitTypes == Init => TypeOK
<1> SUFFICES ASSUME Init PROVE TypeOK
  OBVIOUS
<1>1. PICK spec \in [Addons -> Settings \cup {None}] :
          bc = [spec |-> spec, status |-> [a \in Addons |-> None],
                pause |-> FALSE, listener |-> Blank, switched |-> FALSE,
                managed |-> FALSE]
  BY DEF Init
<1>2. bc \in Records
  BY <1>1 DEF Records
<1>3. net \in Nets
  BY DEF Init, Nets
<1>4. installed \in [Addons -> Settings \cup {None, Partial}]
  BY DEF Init
<1>5. release \in [Charts -> Releases]
  BY DEF Init, Releases
<1>6. edits \in 0..MaxEdits /\ faults \in 0..MaxFaults
  <2>1. edits = 0 /\ faults = 0
    BY DEF Init
  <2> QED BY <2>1, Constants
<1>7. run \in Memory
  <2>1. run = Idle
    BY DEF Init
  <2> QED BY <2>1, IdleIs
<1>8. begun \subseteq Addons
  BY DEF Init
<1>9. large \in BOOLEAN /\ moved \in BOOLEAN /\ removing \in BOOLEAN
  BY Zenon DEF Init
<1> QED BY <1>2, <1>3, <1>4, <1>5, <1>6, <1>7, <1>8, <1>9, TypeParts

LEMMA InitInv == Init => OpInv /\ TyphaInv /\ RecordInv
<1> SUFFICES ASSUME Init PROVE OpInv /\ TyphaInv /\ RecordInv
  OBVIOUS
<1>1. run.at = "idle" /\ net.node = "none" /\ net.pods = {}
  BY IdleIs DEF Init
<1>2. \A a \in Addons : bc.status[a] = None
  BY DEF Init
<1> QED BY <1>1, <1>2, Constants
        DEF OpInv, TyphaInv, RecordInv, RecordedMeansDeployed, CalicoPoints

LEMMA OpStep ==
    ASSUME TypeOK, OpInv, Step
    PROVE  OpInv'
<1>1. CASE CalmStep
  BY <1>1 DEF CalmStep, OpInv, CalicoPoints
<1>2. CASE OutsideStep
  <2>1. run' = run /\ begun' = begun /\ removing' = removing
    BY <1>2 DEF OutsideStep
  <2>2. Op' = Op
    BY <2>1 DEF Op
  <2> QED BY <2>1, <2>2 DEF OpInv
<1>3. CASE OpenStep
  BY <1>3 DEF OpenStep, Within, OpInv, CalicoPoints
<1>4. CASE RecordStep
  BY <1>4 DEF RecordStep, OpInv, CalicoPoints
<1>5. CASE ApplyStep
  BY <1>5 DEF ApplyStep, Within, OpInv, CalicoPoints
<1>6. CASE ApplyEndStep \/ ErrorStep \/ CalicoFailStep \/ DeleteStep \/ RemoveStep
  <2>1. run'.at \in {"record", "typhaDelete"} /\ run'.at = "record"
        /\ run'.ops = run.ops /\ run.ops # {}
    BY <1>6 DEF ApplyEndStep, ErrorStep, CalicoFailStep, DeleteStep,
                RemoveStep, Within
  <2> QED BY <2>1 DEF OpInv, CalicoPoints
<1>7. CASE CalicoStartStep
  BY <1>7 DEF CalicoStartStep, OpInv, CalicoPoints
<1>8. CASE CalicoGoesOn
  BY <1>8 DEF CalicoGoesOn, Within, OpInv, CalicoPoints
<1>9. CASE WaitStep
  BY <1>9 DEF WaitStep, SameTarget, Within, OpInv, CalicoPoints
<1>10. CASE NodeStep
  BY <1>10 DEF NodeStep, Within, OpInv, CalicoPoints
<1> QED BY <1>1, <1>2, <1>3, <1>4, <1>5, <1>6, <1>7, <1>8, <1>9, <1>10
        DEF Step

LEMMA TyphaStep ==
    ASSUME TypeOK, OpInv, TyphaInv, Step
    PROVE  TyphaInv'
<1>0. net \in Nets /\ run \in Memory
  BY TypeParts
<1>1. CASE CalmStep
  BY <1>1 DEF CalmStep, SameTarget, TyphaInv, Served
<1>2. CASE OutsideStep
  BY <1>2 DEF OutsideStep, TyphaInv, Served
<1>3. CASE OpenStep
  BY <1>3 DEF OpenStep, SameTarget, Within, TyphaInv, Served
<1>4. CASE RecordStep
  BY <1>4 DEF RecordStep, TyphaInv, Served
<1>5. CASE ApplyStep
  BY <1>5 DEF ApplyStep, Within, TyphaInv, Served
<1>6. CASE ApplyEndStep
  BY <1>6 DEF ApplyEndStep, Within, TyphaInv, Served
<1>7. CASE ErrorStep
  BY <1>7 DEF ErrorStep, SameTarget, Within, TyphaInv, Served
<1>8. CASE CalicoStartStep
  BY <1>8 DEF CalicoStartStep, TyphaInv, Served
<1>9. CASE CalicoFailStep
  <2>1. /\ run'.at = "record" /\ removing' = removing
        /\ net'.ready = net.ready /\ net'.pods = net.pods
        /\ net.deploy => net'.deploy
        /\ net.svc => net'.svc
        /\ net'.node # net.node =>
              run.at = "node" /\ (net'.node = "typha" => run.allow)
    BY <1>9 DEF CalicoFailStep, Within
  <2> QED BY <2>1 DEF TyphaInv, Served
<1>10. CASE CalicoGoesOn
  <2>0. /\ removing' = removing /\ run'.allow = run.allow
        /\ run'.enabled = run.enabled
    BY <1>10 DEF CalicoGoesOn, Within
  <2>1. CASE /\ run.at = "bootstrap" /\ Within("typhaWait")
             /\ net'.ready = net.ready /\ net'.pods = net.pods
             /\ net'.node = net.node /\ net'.deploy /\ net'.svc
    <3>1. /\ net'.deploy /\ net'.svc /\ net'.ready = net.ready
          /\ net'.node = net.node /\ net'.pods = net.pods
          /\ run'.at = "typhaWait"
      BY <1>0, <2>1 DEF Nets, Within
    <3> QED BY <2>0, <2>1, <3>1 DEF TyphaInv, Served
  <2>2. CASE /\ run.at = "config" /\ Within("node")
             /\ net' = [net EXCEPT !.config = run.allow]
    <3>1. /\ net'.deploy = net.deploy /\ net'.svc = net.svc
          /\ net'.ready = net.ready /\ net'.node = net.node
          /\ net'.pods = net.pods /\ run'.at = "node"
      BY <1>0, <2>2 DEF Nets, Within
    <3> QED BY <2>0, <2>2, <3>1 DEF TyphaInv, Served
  <2>3. CASE /\ run.at = "node" /\ Within("nodeWait")
             /\ net' = [net EXCEPT
                           !.node = IF run.allow THEN "typha" ELSE "direct",
                           !.deploy = @ \/ run.allow, !.svc = @ \/ run.allow]
    <3>1. /\ net'.deploy = (net.deploy \/ run.allow)
          /\ net'.svc = (net.svc \/ run.allow)
          /\ net'.ready = net.ready /\ net'.pods = net.pods
          /\ net'.node = IF run.allow THEN "typha" ELSE "direct"
          /\ run'.at = "nodeWait"
      BY <1>0, <2>3 DEF Nets, Within
    <3>2. /\ run.allow /\ Calico \in Blocking => Served'
          /\ ~run.allow /\ ~run.enabled => ~net'.deploy
      BY <2>3, <3>1 DEF TyphaInv, Served
    <3>3. Calico \in Blocking /\ ~removing /\ "typha" \in net'.pods => Served'
      BY <3>1 DEF TyphaInv, Served
    <3> QED BY <2>0, <3>1, <3>2, <3>3 DEF TyphaInv
  <2> QED BY <1>10, <2>1, <2>2, <2>3 DEF CalicoGoesOn
<1>11. CASE WaitStep
  <2>1. run.at = "typhaWait" /\ Op.addon = Calico /\ (Blocks => net.ready)
    BY <1>11 DEF WaitStep, OpInv, CalicoPoints
  <2>2. Calico \in Blocking => net.ready
    BY <2>1 DEF Blocks
  <2> QED BY <1>11, <2>1, <2>2 DEF WaitStep, SameTarget, Within, TyphaInv, Served
<1>12. CASE NodeStep
  <2>1. run.at = "nodeWait" /\ Op.addon = Calico
    BY <1>12 DEF NodeStep, OpInv, CalicoPoints
  <2>2. Calico \in Blocking => net.pods = {net.node}
    BY <1>12, <2>1 DEF NodeStep, Blocks
  <2>3. net.node = IF run.allow THEN "typha" ELSE "direct"
    BY <2>1 DEF TyphaInv
  <2> QED BY <1>12, <2>1, <2>2, <2>3 DEF NodeStep, Within, TyphaInv, Served
<1>13. CASE DeleteStep
  BY <1>13 DEF DeleteStep, Within, TyphaInv, Served
<1>14. CASE RemoveStep
  BY <1>14 DEF RemoveStep, Within, TyphaInv, OpInv
<1> QED BY <1>1, <1>2, <1>3, <1>4, <1>5, <1>6, <1>7, <1>8, <1>9, <1>10,
           <1>11, <1>12, <1>13, <1>14 DEF Step

\* A step that leaves alone what is deployed of the recorded addons.
LEMMA RecordedKept ==
    ASSUME RecordedMeansDeployed, bc'.status = bc.status,
           begun \subseteq begun',
           \A a \in Blocking \ begun' : installed'[a] = installed[a],
           Calico \in begun' \/ (net'.node = net.node /\ net'.deploy = net.deploy)
    PROVE  RecordedMeansDeployed'
BY DEF RecordedMeansDeployed

LEMMA RecordedStep ==
    ASSUME TypeOK, OpInv, TyphaInv, RecordInv, Step
    PROVE  RecordInv'
<1>0. /\ RecordedMeansDeployed /\ Blocking \subseteq Addons
      /\ installed \in [Addons -> Settings \cup {None, Partial}]
      /\ bc \in Records /\ net \in Nets
  BY TypeParts, Constants DEF RecordInv
<1>1. CASE CalmStep
  <2>1. RecordedMeansDeployed'
    BY <1>0, <1>1, RecordedKept DEF CalmStep, SameTarget
  <2> QED BY <1>1, <2>1 DEF CalmStep, RecordInv
<1>2. CASE OutsideStep
  <2>1. RecordedMeansDeployed'
    BY <1>0, <1>2, RecordedKept DEF OutsideStep
  <2>2. Op' = Op /\ run' = run
    BY <1>2 DEF OutsideStep, Op
  <2> QED BY <1>2, <2>1, <2>2 DEF OutsideStep, RecordInv, Deployed
<1>3. CASE OpenStep
  <2>1. RecordedMeansDeployed'
    BY <1>0, <1>3, RecordedKept DEF OpenStep, SameTarget
  <2> QED BY <1>3, <2>1 DEF OpenStep, Within, RecordInv
<1>4. CASE RecordStep
  <2>1. /\ run.at = "record" /\ run'.at = "loop" /\ ~(run.err /\ Blocks)
        /\ installed' = installed /\ net' = net
        /\ bc'.status = [bc.status EXCEPT ![Op.addon] = Op.to]
        /\ begun' = begun \ {Op.addon}
    BY <1>4 DEF RecordStep
  <2>2. bc.status \in [Addons -> Settings \cup {None}]
    BY <1>0 DEF Records
  <2>3. ASSUME NEW a \in Blocking \ begun', bc'.status[a] # None
        PROVE  /\ installed'[a] = bc'.status[a]
               /\ a = Calico /\ net'.node = "direct" => ~net'.deploy
    <3>1. CASE a = Op.addon
      <4>1. bc'.status[a] = Op.to /\ ~run.err /\ Op.to # None
        BY <1>0, <2>1, <2>2, <2>3, <3>1 DEF Blocks
      <4>2. Deployed(a, Op.to)
        BY <2>1, <2>3, <3>1, <4>1 DEF RecordInv
      <4> QED BY <2>1, <4>1, <4>2 DEF Deployed
    <3>2. CASE a # Op.addon
      <4>1. a \notin begun /\ bc'.status[a] = bc.status[a]
        BY <1>0, <2>1, <2>2, <2>3, <3>2
      <4>2. Deployed(a, bc.status[a])
        BY <1>0, <2>3, <4>1 DEF RecordedMeansDeployed, Deployed
      <4> QED BY <2>1, <4>1, <4>2 DEF Deployed
    <3> QED BY <3>1, <3>2
  <2>4. RecordedMeansDeployed'
    BY <2>3 DEF RecordedMeansDeployed
  <2> QED BY <2>1, <2>4 DEF RecordInv
<1>5. CASE ApplyStep
  <2>1. RecordedMeansDeployed'
    BY <1>0, <1>5, RecordedKept DEF ApplyStep
  <2> QED BY <1>5, <2>1 DEF ApplyStep, Within, RecordInv
<1>6. CASE ApplyEndStep
  <2>1. Op.addon \in begun /\ Op.addon # Calico
    BY <1>6 DEF ApplyEndStep, OpInv
  <2>2. RecordedMeansDeployed'
    BY <1>0, <1>6, <2>1, RecordedKept DEF ApplyEndStep
  <2>3. /\ Op' = Op /\ net' = net
        /\ \/ installed' = [installed EXCEPT ![Op.addon] = Op.to]
           \/ run'.err \/ Op.to = None
    BY <1>6 DEF ApplyEndStep, Within
  <2> QED BY <1>0, <2>1, <2>2, <2>3 DEF RecordInv, Deployed
<1>7. CASE ErrorStep
  <2>1. RecordedMeansDeployed'
    BY <1>0, <1>7, RecordedKept DEF ErrorStep, SameTarget
  <2> QED BY <1>7, <2>1 DEF ErrorStep, Within, RecordInv
<1>8. CASE CalicoStartStep
  <2>1. RecordedMeansDeployed'
    BY <1>0, <1>8, RecordedKept DEF CalicoStartStep
  <2> QED BY <1>8, <2>1 DEF CalicoStartStep, RecordInv
<1>9. CASE CalicoFailStep
  <2>1. Calico \in begun
    BY <1>9 DEF CalicoFailStep, OpInv, CalicoPoints
  <2>2. RecordedMeansDeployed'
    BY <1>0, <1>9, <2>1, RecordedKept DEF CalicoFailStep
  <2> QED BY <1>9, <2>2 DEF CalicoFailStep, Within, RecordInv
<1>10. CASE CalicoGoesOn
  <2>1. Calico \in begun
    BY <1>10 DEF CalicoGoesOn, OpInv, CalicoPoints
  <2>2. RecordedMeansDeployed'
    BY <1>0, <1>10, <2>1, RecordedKept DEF CalicoGoesOn
  <2> QED BY <1>10, <2>2 DEF CalicoGoesOn, Within, RecordInv
<1>11. CASE WaitStep
  <2>1. RecordedMeansDeployed'
    BY <1>0, <1>11, RecordedKept DEF WaitStep, SameTarget
  <2> QED BY <1>11, <2>1 DEF WaitStep, Within, RecordInv
<1>12. CASE NodeStep
  <2>1. /\ run.at = "nodeWait" /\ Op.addon = Calico /\ Calico \in begun
        /\ Calico \in Addons
    BY <1>12, Constants DEF NodeStep, OpInv, CalicoPoints
  <2>2. /\ begun' = begun /\ net' = net /\ bc' = bc
        /\ \A a \in Addons : a # Calico => installed'[a] = installed[a]
    BY <1>0, <1>12, <2>1 DEF NodeStep
  <2>3. RecordedMeansDeployed'
    BY <1>0, <2>1, <2>2, RecordedKept
  <2>4. CASE Within("typhaDelete")
    BY <2>3, <2>4 DEF Within, RecordInv
  <2>5. CASE ~Within("typhaDelete")
    <3>1. /\ ~run.enabled \/ run.allow
          /\ Within("record")
          /\ installed' = [installed EXCEPT ![Calico] = Op.to]
      BY <1>12, <2>1, <2>5 DEF NodeStep
    <3>2. net.node = "direct" => ~net.deploy
      BY <2>1, <3>1 DEF TyphaInv
    <3>3. Op' = Op /\ installed'[Calico] = Op.to
      BY <1>0, <2>1, <3>1 DEF Within
    <3> QED BY <2>1, <2>2, <2>3, <3>2, <3>3 DEF RecordInv, Deployed
  <2> QED BY <2>4, <2>5
<1>13. CASE DeleteStep
  <2>1. /\ run.at = "typhaDelete" /\ Op.addon = Calico /\ Calico \in begun
        /\ Calico \in Addons /\ Op' = Op
    BY <1>13, Constants DEF DeleteStep, OpInv, CalicoPoints, Within
  <2>2. /\ begun' = begun /\ bc' = bc
        /\ \A a \in Addons : a # Calico => installed'[a] = installed[a]
        /\ \/ run'.err
           \/ ~net'.deploy /\ installed'[Calico] = Op.to
    BY <1>0, <1>13, <2>1 DEF DeleteStep
  <2>3. RecordedMeansDeployed'
    BY <1>0, <2>1, <2>2, RecordedKept
  <2> QED BY <2>1, <2>2, <2>3 DEF RecordInv, Deployed
<1>14. CASE RemoveStep
  <2>1. /\ Op.addon = Calico /\ Calico \in begun /\ Op' = Op
        /\ run.ops # {} /\ Op.operate = "remove"
    BY <1>14 DEF RemoveStep, OpInv, CalicoPoints, Within
  <2>2. RecordedMeansDeployed'
    BY <1>0, <1>14, <2>1, RecordedKept DEF RemoveStep
  <2>3. Op.to = None
    BY <2>1, OpFields
  <2> QED BY <2>1, <2>2, <2>3 DEF RecordInv
<1> QED BY <1>1, <1>2, <1>3, <1>4, <1>5, <1>6, <1>7, <1>8, <1>9, <1>10,
           <1>11, <1>12, <1>13, <1>14 DEF Step

-----------------------------------------------------------------------------
IInv == TypeOK /\ OpInv /\ TyphaInv /\ RecordInv

\* The inductive invariant holds.
LEMMA Invariance == Spec => []IInv
<1>1. Init => IInv
  BY InitTypes, InitInv DEF IInv
<1>2. IInv /\ [Next]_vars => IInv'
  <2> SUFFICES ASSUME TypeOK, OpInv, TyphaInv, RecordInv, [Next]_vars
               PROVE  IInv'
    BY DEF IInv
  <2>1. TypeOK' /\ Step
    BY StepsAre
  <2>2. OpInv' /\ TyphaInv' /\ RecordInv'
    BY <2>1, OpStep, TyphaStep, RecordedStep
  <2> QED BY <2>1, <2>2 DEF IInv
<1> QED BY <1>1, <1>2, PTL DEF Spec

\* The variables of the addon phases keep their types; in particular an
\* operation removes an addon exactly if the spec no longer has it.
THEOREM TypeCorrect == Spec => []TypeOK
<1>1. IInv => TypeOK
  BY DEF IInv
<1> QED BY <1>1, Invariance, PTL

\* While Calico blocks and is not being removed, no pod of calico-node that
\* connects through Typha is ever without it: applyCalicoAddonFiles brings
\* Typha up before calico-node is switched to it and deletes it only after the
\* last pod has been switched back, whatever call fails in between, however
\* often the manager is restarted and the number of nodes crosses the boundary.
THEOREM TyphaAlwaysServed == Spec => []TyphaServed
<1>1. IInv => TyphaServed
  BY DEF IInv, TyphaInv, Served, TyphaServed
<1> QED BY <1>1, Invariance, PTL

\* What updateAddonStatus has recorded of a blocking addon is deployed, with
\* the recorded setting, until another operation on it begins: also when the
\* spec is edited during the phase, when operations fail or are interrupted,
\* and for a Calico whose Typha an earlier attempt has left behind.
THEOREM RecordsAreDeployed == Spec => []RecordedMeansDeployed
<1>1. IInv => RecordedMeansDeployed
  BY DEF IInv, RecordInv
<1> QED BY <1>1, Invariance, PTL
=============================================================================
