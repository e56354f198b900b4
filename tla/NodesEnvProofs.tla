---------------------------- MODULE NodesEnvProofs --------------------------
(***************************************************************************)
(* Proofs about the preparation of the nodes, for any nodes, roles and     *)
(* scripts and any bounds.  The type invariant comes first.  The rest is   *)
(* one invariant: what the agents report in a Command is true, the Command *)
(* a phase waits for is one of its own, and whatever is sent a Command has *)
(* an agent that runs or has failed.                                       *)
(***************************************************************************)
EXTENDS NodesEnv, SequenceTheorems, FiniteSetTheorems, NaturalsInduction, TLAPS

\* The nodes whose agent runs, or which have failed at something.
Tried == up \cup blamed

\* What is reported in a Command has happened, only the commands of
\* postprocessing are found again in their second, and no ping or env command
\* is for a node that nobody has tried to reach.
Sound(c) ==
    /\ c.fresh => c.kind = "post"
    /\ c.kind \in {"ping", "env"} => c.sel \subseteq Tried
    /\ \A n \in Nodes :
         /\ c.kind = "ping" /\ c.st[n] = "ok" => n \in answered
         /\ c.kind = "env" /\ c.st[n] = "ok" => n \in ran
         /\ c.st[n] = "failed" => n \in blamed

\* The Command a phase waits for is of its kind, and only agents that run are
\* at work on it.
Awaited(c) ==
    (phase.at \in {"pingWait", "envWait"} /\ c.id = phase.cmd) =>
        /\ c.kind = IF phase.at = "pingWait" THEN "ping" ELSE "env"
        /\ \A n \in Nodes : c.st[n] = "running" => n \in up

CommandsSound == \A i \in DOMAIN cmds : Sound(cmds[i]) /\ Awaited(cmds[i])

NodesTried == \A n \in Nodes : node[n].pushed \/ node[n].ready => n \in Tried

IInv == TypeOK /\ CommandsSound /\ NodesTried /\ FlagsAreEarned /\ SkipForCause

-----------------------------------------------------------------------------
(***************************************************************************)
(* The list of Commands.                                                   *)
(***************************************************************************)

Distinct(cs) == \A i, j \in DOMAIN cs : cs[i].id = cs[j].id => i = j

\* d is c, possibly marked for deletion or no longer of this second.
Weakens(d, c) ==
    /\ d.id = c.id /\ d.kind = c.kind /\ d.sel = c.sel /\ d.st = c.st
    /\ d.fresh => c.fresh

\* ds has only Commands of cs.
Derived(ds, cs) ==
    /\ ds \in Seq(Commands) /\ Distinct(ds) /\ Len(ds) <= Len(cs)
    /\ \A j \in DOMAIN ds : \E k \in DOMAIN cs : Weakens(ds[j], cs[k])

\* A set of numbers has a least one.
LEMMA LeastIndex ==
    ASSUME NEW T \in SUBSET Nat, T # {}
    PROVE  \E i \in T : \A j \in T : i <= j
<1> DEFINE R == {ss \in Nat \X Nat : ss[1] < ss[2]}
<1>1. IsWellFoundedOn(R, Nat)
  BY NatLessThanWellFounded, Zenon DEF OpToRel
<1>2. \A i, j \in Nat : <<j, i>> \in R <=> j < i
  OBVIOUS
<1> HIDE DEF R
<1>3. PICK i \in T : \A j \in T : ~(<<j, i>> \in R)
  BY <1>1, WFMin
<1>4. ASSUME NEW j \in T PROVE i <= j
  <2>1. i \in Nat /\ j \in Nat /\ ~(<<j, i>> \in R)
    BY <1>3
  <2>2. ~(j < i)
    BY <1>2, <2>1
  <2> QED BY <2>1, <2>2
<1> QED BY <1>4

LEMMA RemoveAtIs ==
    ASSUME NEW S, NEW s \in Seq(S), NEW i \in DOMAIN s
    PROVE  /\ RemoveAt(s, i) \in Seq(S)
           /\ Len(RemoveAt(s, i)) = Len(s) - 1
           /\ \A j \in DOMAIN RemoveAt(s, i) :
                 RemoveAt(s, i)[j] = s[IF j < i THEN j ELSE j + 1]
<1> DEFINE a == SubSeq(s, 1, i - 1)
           b == SubSeq(s, i + 1, Len(s))
<1>1. i \in 1 .. Len(s) /\ Len(s) \in Nat /\ i \in Nat
  OBVIOUS
<1>2. /\ a \in Seq(S) /\ Len(a) = i - 1
      /\ \A j \in 1 .. (i - 1) : a[j] = s[j]
  BY <1>1, SubSeqProperties
<1>3. /\ b \in Seq(S) /\ Len(b) = Len(s) - i
      /\ \A j \in 1 .. (Len(s) - i) : b[j] = s[i + j]
  BY <1>1, SubSeqProperties
<1> HIDE DEF a, b
<1>4. RemoveAt(s, i) = a \o b
  BY DEF RemoveAt, a, b
<1>5. /\ a \o b \in Seq(S) /\ Len(a \o b) = Len(s) - 1
      /\ \A j \in 1 .. (Len(s) - 1) :
            (a \o b)[j] = IF j <= i - 1 THEN a[j] ELSE b[j - (i - 1)]
  <2>1. /\ a \o b \in Seq(S) /\ Len(a \o b) = Len(a) + Len(b)
        /\ \A j \in 1 .. Len(a) + Len(b) :
              (a \o b)[j] = IF j <= Len(a) THEN a[j] ELSE b[j - Len(a)]
    BY <1>2, <1>3, ConcatProperties
  <2>2. Len(a) = i - 1 /\ Len(a) + Len(b) = Len(s) - 1
    BY <1>1, <1>2, <1>3
  <2> QED BY <2>1, <2>2
<1>6. ASSUME NEW j \in 1 .. (Len(s) - 1)
      PROVE  (a \o b)[j] = s[IF j < i THEN j ELSE j + 1]
  <2>1. CASE j < i
    <3>1. j <= i - 1 /\ j \in 1 .. (i - 1)
      BY <1>1, <2>1
    <3> QED BY <1>2, <1>5, <2>1, <3>1
  <2>2. CASE ~(j < i)
    <3>1. ~(j <= i - 1) /\ j - (i - 1) \in 1 .. (Len(s) - i)
          /\ i + (j - (i - 1)) = j + 1
      BY <1>1, <2>2
    <3> QED BY <1>3, <1>5, <2>2, <3>1
  <2> QED BY <2>1, <2>2
<1>7. DOMAIN (a \o b) = 1 .. (Len(s) - 1)
  BY <1>5
<1> QED BY <1>4, <1>5, <1>6, <1>7

LEMMA WeakensSelf ==
    ASSUME NEW c \in Commands
    PROVE  /\ Weakens(c, c)
           /\ [c EXCEPT !.deleting = TRUE] \in Commands
           /\ Weakens([c EXCEPT !.deleting = TRUE], c)
           /\ [c EXCEPT !.fresh = FALSE] \in Commands
           /\ Weakens([c EXCEPT !.fresh = FALSE], c)
           /\ [c EXCEPT !.fresh = FALSE].fresh = FALSE
BY DEF Weakens, Commands

LEMMA DerivedSelf ==
    ASSUME NEW cs \in Seq(Commands), Distinct(cs)
    PROVE  Derived(cs, cs)
<1>1. \A j \in DOMAIN cs : Weakens(cs[j], cs[j])
  BY DEF Weakens
<1> QED BY <1>1 DEF Derived

LEMMA DerivedTransitive ==
    ASSUME NEW cs \in Seq(Commands), NEW ds, NEW es, Derived(ds, cs), Derived(es, ds)
    PROVE  Derived(es, cs)
<1>1. es \in Seq(Commands) /\ Distinct(es) /\ Len(es) <= Len(cs)
  BY DEF Derived
<1>2. ASSUME NEW j \in DOMAIN es
      PROVE  \E k \in DOMAIN cs : Weakens(es[j], cs[k])
  <2>1. PICK i \in DOMAIN ds : Weakens(es[j], ds[i])
    BY DEF Derived
  <2>2. PICK k \in DOMAIN cs : Weakens(ds[i], cs[k])
    BY DEF Derived
  <2> QED BY <2>1, <2>2 DEF Weakens
<1> QED BY <1>1, <1>2 DEF Derived

LEMMA RemoveAtDerived ==
    ASSUME NEW cs \in Seq(Commands), Distinct(cs), NEW i \in DOMAIN cs
    PROVE  Derived(RemoveAt(cs, i), cs)
<1> DEFINE ds == RemoveAt(cs, i)
<1>1. /\ ds \in Seq(Commands) /\ Len(ds) = Len(cs) - 1
      /\ \A j \in DOMAIN ds : ds[j] = cs[IF j < i THEN j ELSE j + 1]
  BY RemoveAtIs
<1> HIDE DEF ds
<1>2. i \in 1 .. Len(cs) /\ Len(cs) \in Nat /\ DOMAIN ds = 1 .. (Len(cs) - 1)
  BY <1>1
<1>3. \A j \in DOMAIN ds : (IF j < i THEN j ELSE j + 1) \in DOMAIN cs
  BY <1>2
<1>4. Distinct(ds)
  BY <1>1, <1>2, <1>3 DEF Distinct
<1>5. \A j \in DOMAIN ds : ds[j] \in Commands
  BY <1>1
<1>6. \A j \in DOMAIN ds : \E k \in DOMAIN cs : Weakens(ds[j], cs[k])
  BY <1>1, <1>3, <1>5, WeakensSelf
<1> QED BY <1>1, <1>2, <1>4, <1>6 DEF Derived, ds

LEMMA DeleteAtDerived ==
    ASSUME NEW cs \in Seq(Commands), Distinct(cs), NEW i \in DOMAIN cs
    PROVE  Derived(DeleteAt(cs, i), cs)
<1>1. CASE ~Touched(cs[i])
  BY <1>1, RemoveAtDerived DEF DeleteAt
<1>2. CASE Touched(cs[i])
  <2> DEFINE c == [cs[i] EXCEPT !.deleting = TRUE]
             ds == [cs EXCEPT ![i] = c]
  <2>0. cs[i] \in Commands /\ i \in 1 .. Len(cs)
    OBVIOUS
  <2>1. DeleteAt(cs, i) = ds
    BY <1>2 DEF DeleteAt
  <2>2. c \in Commands /\ Weakens(c, cs[i])
    BY <2>0, WeakensSelf
  <2> HIDE DEF c
  <2>3. /\ ds \in Seq(Commands) /\ DOMAIN ds = DOMAIN cs /\ Len(ds) = Len(cs)
        /\ \A j \in DOMAIN cs : ds[j] = IF j = i THEN c ELSE cs[j]
    BY <2>0, <2>2, ExceptSeq
  <2> HIDE DEF ds
  <2>5. \A j \in DOMAIN ds : Weakens(ds[j], cs[j])
    BY <2>2, <2>3 DEF Weakens
  <2> HIDE DEF ds
  <2>4. Distinct(ds)
    BY <2>3, <2>5 DEF Distinct, Weakens
  <2> QED BY <2>1, <2>3, <2>4, <2>5 DEF Derived
<1> QED BY <1>1, <1>2

LEMMA DeleteDerived ==
    ASSUME NEW cs \in Seq(Commands), Distinct(cs), NEW id
    PROVE  Derived(Delete(cs, id), cs)
<1> DEFINE found == {i \in DOMAIN cs : cs[i].id = id}
<1>1. CASE found = {}
  BY <1>1, DerivedSelf DEF Delete
<1>2. CASE found # {}
  <2>1. (CHOOSE i \in found : TRUE) \in DOMAIN cs
    BY <1>2
  <2> QED BY <1>2, <2>1, DeleteAtDerived DEF Delete
<1> QED BY <1>1, <1>2

LEMMA HandleUniqueDerived ==
    ASSUME NEW cs \in Seq(Commands), Distinct(cs), NEW kind
    PROVE  Derived(HandleUniqueCommand(cs, kind), cs)
<1> DEFINE family == {i \in DOMAIN cs : cs[i].kind = kind}
<1>1. CASE kind # "env" \/ family = {}
  BY <1>1, DerivedSelf DEF HandleUniqueCommand
<1>2. CASE ~(kind # "env" \/ family = {})
  <2>1. family \in SUBSET Nat /\ family # {}
    BY <1>2
  <2>2. Min(family) \in family
    <3> HIDE DEF family
    <3>1. \E i \in family : \A j \in family : i <= j
      BY <2>1, LeastIndex
    <3> QED BY <3>1 DEF Min
  <2>3. HandleUniqueCommand(cs, kind) = DeleteAt(cs, Min(family))
    BY <1>2 DEF HandleUniqueCommand
  <2> QED BY <2>2, <2>3, DeleteAtDerived
<1> QED BY <1>1, <1>2

LEMMA AgedDerived ==
    ASSUME NEW cs \in Seq(Commands), Distinct(cs)
    PROVE  Derived(Aged(cs), cs)
<1> DEFINE ds == Aged(cs)
<1>1. DOMAIN ds = 1 .. Len(cs) /\ Len(cs) \in Nat
  BY DEF Aged
<1>2. \A j \in DOMAIN cs : ds[j] \in Commands /\ Weakens(ds[j], cs[j])
  <2> SUFFICES ASSUME NEW j \in DOMAIN cs
               PROVE  ds[j] \in Commands /\ Weakens(ds[j], cs[j])
    OBVIOUS
  <2>1. ds[j] = [cs[j] EXCEPT !.fresh = FALSE] /\ cs[j] \in Commands
    BY DEF Aged
  <2> HIDE DEF ds
  <2> QED BY <2>1, WeakensSelf
<1>3. ds = [j \in 1 .. Len(cs) |-> ds[j]]
  BY DEF Aged
<1> HIDE DEF ds
<1>4. ds \in Seq(Commands) /\ Len(ds) = Len(cs)
  BY <1>1, <1>2, <1>3
<1>5. Distinct(ds)
  BY <1>1, <1>2 DEF Distinct, Weakens
<1> QED BY <1>1, <1>2, <1>4, <1>5 DEF Derived, ds

\* A list that is not full leaves an id for a new Command.
LEMMA NewIdFree ==
    ASSUME NEW cs \in Seq(Commands), Len(cs) < MaxCmds
    PROVE  /\ NewId(cs) \in Ids
           /\ \A i \in DOMAIN cs : cs[i].id # NewId(cs)
<1> DEFINE Free(k) == \A c \in Range(cs) : c.id # k
<1>1. MaxCmds \in Nat /\ Len(cs) \in Nat /\ DOMAIN cs = 1 .. Len(cs)
  BY NodesEnvAssumption
<1>2. Range(cs) = {cs[i] : i \in DOMAIN cs}
  BY DEF Range
<1>3. ASSUME \A k \in Ids : ~Free(k)
      PROVE  FALSE
  <2>1. \A k \in Ids : \E i \in DOMAIN cs : cs[i].id = k
    BY <1>2, <1>3
  <2> DEFINE f == [k \in Ids |-> CHOOSE i \in DOMAIN cs : cs[i].id = k]
  <2>2. \A k \in Ids : f[k] \in DOMAIN cs /\ cs[f[k]].id = k
    BY <2>1
  <2>3. f \in [Ids -> DOMAIN cs]
    BY <2>2
  <2> HIDE DEF f
  <2>4. /\ IsFiniteSet(Ids) /\ Cardinality(Ids) = MaxCmds
        /\ IsFiniteSet(DOMAIN cs) /\ Cardinality(DOMAIN cs) = Len(cs)
    <3>1. IsFiniteSet(1 .. MaxCmds) /\ Cardinality(1 .. MaxCmds) = MaxCmds
      <4>1. MaxCmds >= 1
        BY NodesEnvAssumption
      <4> QED BY <1>1, <4>1, FS_Interval
    <3>2. IsFiniteSet(1 .. Len(cs)) /\ Cardinality(1 .. Len(cs)) = Len(cs)
      <4>1. PICK m \in Nat : m = Len(cs)
        BY <1>1
      <4>2. IsFiniteSet(1 .. m) /\ Cardinality(1 .. m) = IF 1 > m THEN 0 ELSE m - 1 + 1
        <5>1. 1 \in Int /\ m \in Int
          OBVIOUS
        <5> QED BY <5>1, FS_Interval
      <4> QED BY <4>1, <4>2
    <3> QED BY <1>1, <3>1, <3>2 DEF Ids
  <2>5. PICK j, k \in Ids : j # k /\ f[j] = f[k]
    BY <2>3, <2>4, FS_PigeonHole
  <2> QED BY <2>2, <2>5
<1>4. NewId(cs) = CHOOSE k \in Ids : Free(k)
  BY DEF NewId
<1>5. NewId(cs) \in Ids /\ Free(NewId(cs))
  <2> HIDE DEF Free
  <2> QED BY <1>3, <1>4
<1> QED BY <1>2, <1>5

PhaseType == [at: Points, todo: SUBSET Nodes, cmd: Ids \cup {0}]

\* What New does: the list loses at most the Command the new one replaces, and
\* the phase waits for one that is new, or was made in the same second.
Creates(kind, sel, at) ==
    /\ cmds' \in Seq(Commands) /\ Distinct(cmds')
    /\ phase' \in PhaseType /\ phase'.at = at
    /\ \A j \in DOMAIN cmds' :
          \/ /\ \E k \in DOMAIN cmds : Weakens(cmds'[j], cmds[k])
             /\ \/ cmds'[j].id # phase'.cmd
                \/ \E k \in DOMAIN cmds : cmds[k].kind = kind /\ cmds[k].fresh
          \/ /\ cmds'[j].kind = kind /\ cmds'[j].sel = sel
             /\ cmds'[j].fresh => kind = "post"
             /\ \A n \in Nodes : cmds'[j].st[n] = "none"

LEMMA NewEffect ==
    ASSUME cmds \in Seq(Commands), Distinct(cmds), phase \in PhaseType,
           NEW kind \in Kinds, NEW sel \in SUBSET Nodes, NEW at \in Points,
           New(kind, sel, at)
    PROVE  Creates(kind, sel, at)
<1> DEFINE rest == HandleUniqueCommand(cmds, kind)
           same == {c \in Range(rest) : c.kind = kind /\ c.fresh}
           made == [id |-> NewId(rest), kind |-> kind, sel |-> sel,
                    deleting |-> FALSE, fresh |-> kind = "post",
                    st |-> [n \in Nodes |-> "none"]]
<1>1. Derived(rest, cmds)
  BY HandleUniqueDerived
<1>2. \/ /\ same # {} /\ cmds' = rest
         /\ phase' = [phase EXCEPT !.at = at, !.cmd = (CHOOSE c \in same : TRUE).id]
      \/ /\ same = {} /\ Len(rest) < MaxCmds
         /\ cmds' = Append(rest, made)
         /\ phase' = [phase EXCEPT !.at = at, !.cmd = made.id]
  BY DEF New
<1> HIDE DEF rest
<1>3. /\ rest \in Seq(Commands) /\ Distinct(rest)
      /\ \A j \in DOMAIN rest : \E k \in DOMAIN cmds : Weakens(rest[j], cmds[k])
      /\ Range(rest) = {rest[j] : j \in DOMAIN rest}
  BY <1>1 DEF Derived, Range
<1>4. CASE /\ same # {} /\ cmds' = rest
           /\ phase' = [phase EXCEPT !.at = at, !.cmd = (CHOOSE c \in same : TRUE).id]
  <2>1. PICK c \in same : c = CHOOSE d \in same : TRUE
    BY <1>4
  <2>2. c \in Range(rest) /\ c.kind = kind /\ c.fresh
    OBVIOUS
  <2> HIDE DEF same
  <2>3. PICK j \in DOMAIN rest : c = rest[j]
    BY <1>3, <2>2
  <2>4. c \in Commands /\ c.id \in Ids
    <3>1. c \in Commands
      BY <1>3, <2>3
    <3> QED BY <3>1 DEF Commands
  <2>5. phase' \in PhaseType /\ phase'.at = at
    BY <1>4, <2>1, <2>4 DEF PhaseType
  <2>6. \E k \in DOMAIN cmds : cmds[k].kind = kind /\ cmds[k].fresh
    BY <1>3, <2>2, <2>3 DEF Weakens
  <2> QED BY <1>3, <1>4, <2>5, <2>6 DEF Creates
<1>5. CASE /\ same = {} /\ Len(rest) < MaxCmds
           /\ cmds' = Append(rest, made)
           /\ phase' = [phase EXCEPT !.at = at, !.cmd = made.id]
  <2>1. /\ NewId(rest) \in Ids
        /\ \A i \in DOMAIN rest : rest[i].id # NewId(rest)
    BY <1>3, <1>5, NewIdFree
  <2>2. /\ made \in Commands /\ made.id = NewId(rest) /\ made.kind = kind
        /\ made.sel = sel /\ (made.fresh <=> kind = "post")
        /\ \A n \in Nodes : made.st[n] = "none"
    BY <2>1 DEF Commands
  <2> HIDE DEF made
  <2>3. /\ cmds' \in Seq(Commands) /\ DOMAIN cmds' = 1 .. (Len(rest) + 1)
        /\ DOMAIN rest = 1 .. Len(rest) /\ Len(rest) \in Nat
        /\ cmds'[Len(rest) + 1] = made
        /\ \A j \in DOMAIN rest : cmds'[j] = rest[j]
    BY <1>3, <1>5, <2>2
  <2>4. Distinct(cmds')
    BY <1>3, <2>1, <2>2, <2>3 DEF Distinct
  <2>5. phase' \in PhaseType /\ phase'.at = at /\ phase'.cmd = made.id
    BY <1>5, <2>1, <2>2 DEF PhaseType
  <2>6. ASSUME NEW j \in DOMAIN cmds', j # Len(rest) + 1
        PROVE  /\ \E k \in DOMAIN cmds : Weakens(cmds'[j], cmds[k])
               /\ cmds'[j].id # phase'.cmd
    BY <1>3, <2>1, <2>2, <2>3, <2>5, <2>6
  <2> QED BY <2>2, <2>3, <2>4, <2>5, <2>6 DEF Creates
<1> QED BY <1>2, <1>4, <1>5

-----------------------------------------------------------------------------
(***************************************************************************)
(* Type correctness.                                                       *)
(***************************************************************************)

\* What the phases do to a node keeps its type.
LEMMA NodeUpdates ==
    ASSUME NEW s \in BKENodes, NEW b \in BOOLEAN, NEW n \in Nodes
    PROVE  /\ Charge(n, s) \in BKENodes
           /\ [Charge(n, s) EXCEPT !.pushed = FALSE] \in BKENodes
           /\ [s EXCEPT !.pushed = TRUE] \in BKENodes
           /\ [s EXCEPT !.pushed = TRUE, !.ready = TRUE, !.retry = 0] \in BKENodes
           /\ [s EXCEPT !.env = TRUE] \in BKENodes
           /\ [s EXCEPT !.skip = b] \in BKENodes
           /\ [s EXCEPT !.post = b] \in BKENodes
           /\ [s EXCEPT !.boot = TRUE] \in BKENodes
<1> DEFINE d == s.skip \/ (n \notin Masters /\ s.retry + 1 >= Limit)
           r == s.retry + 1
<1>1. d \in BOOLEAN /\ r \in Nat
  BY DEF BKENodes
<1>2. Charge(n, s) = [s EXCEPT !.retry = r, !.skip = d]
  BY DEF Charge
<1> HIDE DEF d, r
<1>3. Charge(n, s) \in BKENodes
  BY <1>1, <1>2 DEF BKENodes
<1> QED BY <1>3 DEF BKENodes

LEMMA StatusTypes ==
    ASSUME node \in [Nodes -> BKENodes], NEW S, NEW F
    PROVE  /\ PingStatus(S, F) \in [Nodes -> BKENodes]
           /\ EnvStatus(S, F) \in [Nodes -> BKENodes]
           /\ MarkPost(S) \in [Nodes -> BKENodes]
<1> SUFFICES ASSUME NEW n \in Nodes
             PROVE  /\ PingStatus(S, F)[n] \in BKENodes
                    /\ EnvStatus(S, F)[n] \in BKENodes
                    /\ MarkPost(S)[n] \in BKENodes
  BY DEF PingStatus, EnvStatus, MarkPost
<1> DEFINE s == node[n]
           b == s.skip \/ n \in F \ Masters
           p == s.post \/ n \in S
<1>1. s \in BKENodes /\ b \in BOOLEAN /\ p \in BOOLEAN
  OBVIOUS
<1>2. /\ PingStatus(S, F)[n] =
           IF n \in S THEN [s EXCEPT !.pushed = TRUE, !.ready = TRUE, !.retry = 0]
           ELSE IF n \in F THEN [Charge(n, s) EXCEPT !.pushed = FALSE] ELSE s
      /\ EnvStatus(S, F)[n] =
           IF n \in S THEN [s EXCEPT !.env = TRUE] ELSE [s EXCEPT !.skip = b]
      /\ MarkPost(S)[n] = [s EXCEPT !.post = p]
  BY DEF PingStatus, EnvStatus, MarkPost
<1> HIDE DEF s, b, p
<1>3. /\ [s EXCEPT !.pushed = TRUE, !.ready = TRUE, !.retry = 0] \in BKENodes
      /\ [Charge(n, s) EXCEPT !.pushed = FALSE] \in BKENodes
      /\ [s EXCEPT !.env = TRUE] \in BKENodes
      /\ [s EXCEPT !.skip = b] \in BKENodes
  BY <1>1, NodeUpdates
<1>4. [s EXCEPT !.post = p] \in BKENodes
  BY <1>1, NodeUpdates
<1> QED BY <1>1, <1>2, <1>3, <1>4

\* Points the phase can be sent to.
LEMMA PhaseTypes ==
    ASSUME NEW at \in Points, NEW T \in SUBSET Nodes
    PROVE  /\ Idle \in PhaseType
           /\ [Idle EXCEPT !.at = at] \in PhaseType
           /\ [Idle EXCEPT !.at = at, !.todo = T] \in PhaseType
BY DEF Idle, PhaseType, Points

\* What the end of a wait shows of the Command that was waited for.
LEMMA WaitEffect ==
    ASSUME TypeOK, Known, NEW S, WaitEnds(S)
    PROVE  /\ Derived(cmds', cmds)
           /\ faults' \in 0 .. MaxFaults
           /\ late' \subseteq Nodes /\ late \subseteq late'
           /\ \E i \in DOMAIN cmds : Waited = cmds[i] /\ cmds[i].id = phase.cmd
           /\ S \subseteq Waited.sel
           /\ \A n \in S : Waited.st[n] = "ok"
           /\ \/ \A n \in Waited.sel \ S : Waited.st[n] = "failed"
              \/ Waited.sel \subseteq late'
              \/ /\ S \in Successes(Waited)
                 /\ \A n \in Waited.sel \cap up : Waited.st[n] \in {"ok", "failed"}
<1>1. cmds \in Seq(Commands) /\ Distinct(cmds) /\ late \subseteq Nodes
      /\ faults \in 0 .. MaxFaults /\ MaxFaults \in Nat
  BY NodesEnvAssumption DEF TypeOK, Distinct
<1>2. PICK i \in DOMAIN cmds : Waited = cmds[i] /\ cmds[i].id = phase.cmd
  BY DEF Known, Find, Waited
<1>3. Waited \in Commands
  BY <1>1, <1>2
<1>4. Waited.sel \subseteq Nodes
  BY <1>3 DEF Commands
<1>5. Derived(Delete(cmds, phase.cmd), cmds)
  BY <1>1, DeleteDerived
<1>6. Derived(Aged(Delete(cmds, phase.cmd)), cmds)
  <2> DEFINE ds == Delete(cmds, phase.cmd)
  <2>1. ds \in Seq(Commands) /\ Distinct(ds)
    BY <1>5 DEF Derived
  <2> HIDE DEF ds
  <2>2. Derived(Aged(ds), ds)
    BY <2>1, AgedDerived
  <2>3. Derived(ds, cmds)
    BY <1>5 DEF ds
  <2>4. Derived(Aged(ds), cmds)
    BY <1>1, <2>2, <2>3, DerivedTransitive
  <2> QED BY <2>4 DEF ds
<1>7. CASE WaitCompletes(S)
  <2>1. \A n \in Waited.sel \ S : Waited.st[n] = "failed"
    BY <1>7 DEF WaitCompletes, Complete, Reported
  <2>2. S \subseteq Waited.sel /\ \A n \in S : Waited.st[n] = "ok"
    BY <1>7 DEF WaitCompletes, Reported
  <2> QED BY <1>1, <1>2, <1>5, <1>7, <2>1, <2>2 DEF WaitCompletes
<1>8. CASE WaitTimesOut(S)
  <2>1. S \subseteq Reported(Waited, "ok")
    BY <1>8 DEF WaitTimesOut, Successes
  <2>2. S \subseteq Waited.sel /\ \A n \in S : Waited.st[n] = "ok"
    BY <2>1 DEF Reported
  <2>3. CASE /\ \A n \in Waited.sel \cap up : Waited.st[n] \in {"ok", "failed"}
             /\ UNCHANGED <<faults, late>>
    BY <1>1, <1>2, <1>6, <1>8, <2>2, <2>3 DEF WaitTimesOut
  <2>4. CASE /\ faults < MaxFaults /\ faults' = faults + 1
             /\ late' = late \cup Waited.sel
    BY <1>1, <1>2, <1>4, <1>6, <1>8, <2>2, <2>4 DEF WaitTimesOut
  <2> QED BY <1>8, <2>3, <2>4 DEF WaitTimesOut
<1> QED BY <1>7, <1>8 DEF WaitEnds

\* The first state has its types.
LEMMA TypeInit == Init => TypeOK
<1> SUFFICES ASSUME Init PROVE TypeOK
  OBVIOUS
<1>1. node \in [Nodes -> BKENodes]
  BY DEF Init, NewNode, BKENodes
<1>2. cmds \in Seq(Commands) /\ DOMAIN cmds = {}
  BY DEF Init
<1>3. phase \in PhaseType
  BY DEF Init, Idle, PhaseType, Points
<1> QED BY <1>1, <1>2, <1>3, NodesEnvAssumption DEF Init, TypeOK, PhaseType

\* A report, which changes what one Command says of one node.
Reports(i, n, s) ==
    /\ cmds' \in Seq(Commands) /\ Distinct(cmds')
    /\ DOMAIN cmds' = DOMAIN cmds
    /\ \A j \in DOMAIN cmds :
          /\ cmds'[j].id = cmds[j].id /\ cmds'[j].kind = cmds[j].kind
          /\ cmds'[j].sel = cmds[j].sel /\ cmds'[j].fresh = cmds[j].fresh
          /\ \A m \in Nodes : cmds'[j].st[m] =
                IF j = i /\ m = n THEN s ELSE cmds[j].st[m]

LEMMA ReportEffect ==
    ASSUME cmds \in Seq(Commands), Distinct(cmds), NEW i \in DOMAIN cmds,
           NEW n \in Nodes, NEW s \in {"running", "ok", "failed"},
           cmds' = [cmds EXCEPT ![i].st[n] = s]
    PROVE  Reports(i, n, s)
<1> DEFINE c == [cmds[i] EXCEPT !.st[n] = s]
<1>1. cmds[i] \in Commands /\ i \in 1 .. Len(cmds)
  OBVIOUS
<1>2. /\ c \in Commands
      /\ c.id = cmds[i].id /\ c.kind = cmds[i].kind
      /\ c.sel = cmds[i].sel /\ c.fresh = cmds[i].fresh
      /\ \A m \in Nodes : c.st[m] = IF m = n THEN s ELSE cmds[i].st[m]
  BY <1>1 DEF Commands
<1>3. cmds' = [cmds EXCEPT ![i] = c]
  OBVIOUS
<1> HIDE DEF c
<1>4. /\ cmds' \in Seq(Commands) /\ DOMAIN cmds' = DOMAIN cmds
      /\ \A j \in DOMAIN cmds : cmds'[j] = IF j = i THEN c ELSE cmds[j]
  BY <1>1, <1>2, <1>3, ExceptSeq, SMTT(30)
<1>5. \A j \in DOMAIN cmds : cmds'[j].id = cmds[j].id
  BY <1>2, <1>4
<1>6. Distinct(cmds')
  BY <1>4, <1>5 DEF Distinct
<1> QED BY <1>2, <1>4, <1>6 DEF Reports

CmdsType == cmds \in Seq(Commands) /\ Distinct(cmds)

\* The types without the list and the phase, which the lemmas above give.
RestType ==
    /\ node \in [Nodes -> BKENodes]
    /\ up \subseteq Nodes
    /\ deploying \in BOOLEAN
    /\ {answered, ran, blamed, late} \subseteq SUBSET Nodes
    /\ fails \in 0 .. MaxFails /\ faults \in 0 .. MaxFaults

LEMMA TypeParts == TypeOK <=> CmdsType /\ phase \in PhaseType /\ RestType
BY DEF TypeOK, CmdsType, RestType, PhaseType, Distinct

LEMMA TypePartsNext ==
    TypeOK' <=> CmdsType' /\ phase' \in PhaseType /\ RestType'
BY DEF TypeOK, CmdsType, RestType, PhaseType, Distinct, Commands, Kinds, Ids,
       Points, BKENodes

LEMMA DerivedCmds == ASSUME Derived(cmds', cmds) PROVE CmdsType'
BY DEF Derived, CmdsType, Distinct, Commands, Kinds, Ids

\* Creating a Command keeps the types.
LEMMA NewTypes ==
    ASSUME TypeOK, NEW kind \in Kinds, NEW sel \in SUBSET Nodes,
           NEW at \in Points, New(kind, sel, at)
    PROVE  CmdsType' /\ phase' \in PhaseType
<1>1. cmds \in Seq(Commands) /\ Distinct(cmds) /\ phase \in PhaseType
  BY TypeParts DEF CmdsType
<1>2. cmds' \in Seq(Commands) /\ Distinct(cmds') /\ phase' \in PhaseType
  BY <1>1, NewEffect DEF Creates
<1> QED BY <1>2 DEF CmdsType, Distinct

\* Every action keeps the types.
LEMMA TypeStep == TypeOK /\ [Next]_vars => TypeOK'
<1> SUFFICES ASSUME TypeOK, [Next]_vars PROVE TypeOK'
  OBVIOUS
<1> USE DEF history
<1>0. CmdsType /\ phase \in PhaseType /\ RestType
  BY TypeParts
<1>a. /\ MaxFails \in Nat /\ MaxFaults \in Nat
      /\ \A S : S \subseteq Nodes => S \in SUBSET Nodes
  BY NodesEnvAssumption
<1>b. \A at \in Points, T \in SUBSET Nodes :
         /\ Idle \in PhaseType
         /\ [Idle EXCEPT !.at = at] \in PhaseType
         /\ [Idle EXCEPT !.at = at, !.todo = T] \in PhaseType
  BY PhaseTypes
<1>c. UNCHANGED cmds => CmdsType'
  BY <1>0 DEF CmdsType, Distinct
<1>d. Derived(Aged(cmds), cmds)
  BY <1>0, AgedDerived DEF CmdsType
<1>e. cmds' = Aged(cmds) => CmdsType'
  BY <1>d, DerivedCmds
<1>f. \A at \in Points : Go(at) \/ Error \/ Return => phase' \in PhaseType
  BY <1>b DEF Go, Error, Return
<1>g. \A S, F : /\ PingStatus(S, F) \in [Nodes -> BKENodes]
                /\ EnvStatus(S, F) \in [Nodes -> BKENodes]
                /\ MarkPost(S) \in [Nodes -> BKENodes]
  BY <1>0, StatusTypes DEF RestType
<1>h. Points = {"idle", "agent", "ping", "pingWait", "env", "envWait", "pre",
                "preWait", "post", "postWait"}
  BY DEF Points
<1>1. CASE Reconcile
  BY <1>0, <1>1, <1>c, <1>f, <1>h, TypePartsNext DEF Reconcile, RestType
<1>2. CASE NothingToPush
  BY <1>0, <1>2, <1>c, <1>f, <1>h, TypePartsNext DEF NothingToPush, RestType
<1>3. ASSUME NEW F \in SUBSET Nodes, NEW D \in SUBSET Nodes, PushAgent(F, D)
      PROVE  TypeOK'
  <2> DEFINE T == NeedPush
             st == [n \in Nodes |->
                      IF n \in F THEN Charge(n, node[n])
                      ELSE IF n \in T /\ F # T THEN [node[n] EXCEPT !.pushed = TRUE]
                      ELSE node[n]]
  <2>1. /\ node' = st /\ StartAgents(T, F, D) /\ HandlePushResults(T, F, st)
        /\ cmds' = Aged(cmds) /\ UNCHANGED <<deploying, answered, ran, late, faults>>
        /\ fails + Cardinality(F \cup D) <= MaxFails
        /\ fails' = fails + Cardinality(F \cup D)
        /\ blamed' = blamed \cup F \cup D
    BY <1>3 DEF PushAgent
  <2>2. T \in SUBSET Nodes
    BY DEF NeedPush
  <2> HIDE DEF T
  <2>3. node' \in [Nodes -> BKENodes]
    <3> SUFFICES ASSUME NEW n \in Nodes PROVE st[n] \in BKENodes
      BY <2>1
    <3>1. node[n] \in BKENodes
      BY <1>0 DEF RestType
    <3>2. Charge(n, node[n]) \in BKENodes /\ [node[n] EXCEPT !.pushed = TRUE] \in BKENodes
      BY <3>1, NodeUpdates
    <3> QED BY <3>1, <3>2
  <2> HIDE DEF st
  <2>4. phase' \in PhaseType
    BY <1>b, <1>h, <2>1, <2>2, ZenonT(30) DEF HandlePushResults, Error
  <2>5. fails' \in 0 .. MaxFails
    <3>1. IsFiniteSet(F \cup D)
      BY NodesEnvAssumption, FS_Subset
    <3>2. Cardinality(F \cup D) \in Nat
      BY <3>1, FS_CardinalityType
    <3> QED BY <1>0, <1>a, <2>1, <3>2 DEF RestType
  <2>6. up' \subseteq Nodes
    BY <1>0, <2>1, <2>2 DEF StartAgents, RestType
  <2> QED BY <1>0, <1>e, <2>1, <2>3, <2>4, <2>5, <2>6, TypePartsNext DEF RestType
<1>4. CASE PingAgent
  <2>1. PingNodes \in SUBSET Nodes /\ "ping" \in Kinds /\ "pingWait" \in Points
    BY DEF PingNodes, Kinds, Points
  <2>2. CASE PingNodes = {}
    BY <1>0, <1>4, <1>c, <1>f, <1>h, <2>2, TypePartsNext DEF PingAgent, RestType
  <2>3. CASE PingNodes # {}
    <3>1. New("ping", PingNodes, "pingWait")
      BY <1>4, <2>3 DEF PingAgent
    <3> QED BY <1>0, <1>4, <2>1, <3>1, NewTypes, TypePartsNext DEF PingAgent, RestType
  <2> QED BY <2>2, <2>3
<1>5. CASE InitEnv
  <2>1. EnvNodes \in SUBSET Nodes /\ "env" \in Kinds /\ "envWait" \in Points
    BY DEF EnvNodes, Kinds, Points
  <2>2. CASE EnvNodes = {}
    BY <1>0, <1>5, <1>c, <1>f, <1>h, <2>2, TypePartsNext DEF InitEnv, RestType
  <2>3. CASE EnvNodes # {}
    <3>1. New("env", EnvNodes, "envWait")
      BY <1>5, <2>3 DEF InitEnv
    <3> QED BY <1>0, <1>5, <2>1, <3>1, NewTypes, TypePartsNext DEF InitEnv, RestType
  <2> QED BY <2>2, <2>3
<1>6. CASE Preprocess
  <2>1. phase.todo \in SUBSET Nodes /\ "pre" \in Kinds /\ "preWait" \in Points
    BY <1>0 DEF PhaseType, Kinds, Points
  <2>2. New("pre", phase.todo, "preWait")
    BY <1>6 DEF Preprocess
  <2> QED BY <1>0, <1>6, <2>1, <2>2, NewTypes, TypePartsNext DEF Preprocess, RestType
<1>7. CASE PostProcess
  <2> DEFINE P == PostNodes \cap Postprocessed
  <2>1. P \in SUBSET Nodes /\ "post" \in Kinds /\ "postWait" \in Points
    BY DEF PostNodes, Kinds, Points
  <2>2. node' \in [Nodes -> BKENodes]
    BY <1>7, <1>g DEF PostProcess
  <2>3. CASE P = {}
    BY <1>0, <1>7, <1>c, <1>f, <1>h, <2>2, <2>3, TypePartsNext DEF PostProcess, RestType
  <2>4. CASE P # {}
    <3>1. New("post", P, "postWait")
      BY <1>7, <2>4 DEF PostProcess
    <3>2. CmdsType' /\ phase' \in PhaseType
      BY <2>1, <3>1, NewTypes
    <3> QED BY <1>0, <1>7, <2>2, <3>2, TypePartsNext DEF PostProcess, RestType
  <2> QED BY <2>3, <2>4
<1>w. ASSUME Known, NEW S, WaitEnds(S), UNCHANGED <<up, deploying, answered, ran, blamed, fails>>,
             node' \in [Nodes -> BKENodes], phase' \in PhaseType
      PROVE  TypeOK'
  <2>1. /\ Derived(cmds', cmds) /\ faults' \in 0 .. MaxFaults /\ late' \subseteq Nodes
    BY <1>w, WaitEffect
  <2>2. CmdsType'
    BY <2>1, DerivedCmds
  <2> QED BY <1>0, <1>w, <2>1, <2>2, TypePartsNext DEF RestType
<1>8. CASE PingResult
  <2>1. PICK S \in SUBSET Nodes :
          /\ WaitEnds(S) /\ node' = PingStatus(S, Waited.sel \ S)
          /\ Error \/ Go("env")
    BY <1>8 DEF PingResult
  <2>2. Known /\ UNCHANGED <<up, deploying, answered, ran, blamed, fails>>
    BY <1>8 DEF PingResult
  <2> QED BY <1>f, <1>g, <1>h, <1>w, <2>1, <2>2
<1>9. CASE EnvResult
  <2>1. PICK S \in SUBSET Nodes :
          /\ WaitEnds(S) /\ node' = EnvStatus(S, Waited.sel \ S)
          /\ \/ Error \/ Go("post")
             \/ phase' = [Idle EXCEPT !.at = "pre", !.todo = S \cap Preprocessed]
    BY <1>9 DEF EnvResult
  <2>2. Known /\ UNCHANGED <<up, deploying, answered, ran, blamed, fails>>
    BY <1>9 DEF EnvResult
  <2>3. phase' \in PhaseType
    <3>1. S \cap Preprocessed \in SUBSET Nodes /\ "pre" \in Points /\ "post" \in Points
      BY DEF Points
    <3>2. CASE Error \/ Go("post")
      BY <1>f, <3>1, <3>2
    <3>3. CASE phase' = [Idle EXCEPT !.at = "pre", !.todo = S \cap Preprocessed]
      BY <1>b, <3>1, <3>3
    <3> QED BY <2>1, <3>2, <3>3
  <2> QED BY <1>g, <1>w, <2>1, <2>2, <2>3
<1>10. CASE PreprocessResult
  <2>1. PICK S \in SUBSET Nodes : WaitEnds(S) /\ (Error \/ Go("post"))
    BY <1>10 DEF PreprocessResult
  <2>2. Known /\ UNCHANGED <<node, up, deploying, answered, ran, blamed, fails>>
    BY <1>10 DEF PreprocessResult
  <2>3. phase' \in PhaseType /\ node' \in [Nodes -> BKENodes]
    BY <1>0, <1>f, <1>h, <2>1, <2>2 DEF RestType
  <2> QED BY <1>w, <2>1, <2>2, <2>3
<1>11. CASE PostProcessResult
  <2>1. PICK S \in SUBSET Nodes :
          WaitEnds(S) /\ node' = PostStatus(S, Waited.sel \ S)
    BY <1>11 DEF PostProcessResult
  <2>2. /\ Known /\ phase' = Idle
        /\ UNCHANGED <<up, deploying, answered, ran, blamed, fails>>
    BY <1>11 DEF PostProcessResult
  <2>3. phase' \in PhaseType /\ node' \in [Nodes -> BKENodes]
    BY <1>b, <1>g, <1>h, <2>1, <2>2 DEF PostStatus
  <2> QED BY <1>w, <2>1, <2>2, <2>3
<1>12. CASE WaitFails
  BY <1>0, <1>12, <1>b, <1>c, <1>h, TypePartsNext DEF WaitFails, RestType
<1>r. ASSUME NEW n \in Nodes, NEW s \in {"running", "ok", "failed"},
             NEW i \in DOMAIN cmds, cmds' = [cmds EXCEPT ![i].st[n] = s]
      PROVE  CmdsType'
  <2>1. cmds \in Seq(Commands) /\ Distinct(cmds)
    BY <1>0 DEF CmdsType
  <2>2. cmds' \in Seq(Commands) /\ Distinct(cmds')
    BY <1>r, <2>1, ReportEffect DEF Reports
  <2> QED BY <2>2 DEF CmdsType, Distinct
<1>13. ASSUME NEW n \in Nodes, AgentStarts(n) PROVE TypeOK'
  <2>1. CmdsType'
    BY <1>13, <1>r DEF AgentStarts
  <2> QED BY <1>0, <1>13, <2>1, TypePartsNext DEF AgentStarts, RestType
<1>14. ASSUME NEW n \in Nodes, AgentSucceeds(n) PROVE TypeOK'
  <2>1. CmdsType'
    BY <1>14, <1>r DEF AgentSucceeds
  <2>2. {answered', ran'} \subseteq SUBSET Nodes
    BY <1>0, <1>14 DEF AgentSucceeds, RestType
  <2> QED BY <1>0, <1>14, <2>1, <2>2, TypePartsNext DEF AgentSucceeds, RestType
<1>15. ASSUME NEW n \in Nodes, AgentFails(n) PROVE TypeOK'
  <2>1. CmdsType'
    BY <1>15, <1>r DEF AgentFails
  <2>2. fails' \in 0 .. MaxFails
    BY <1>0, <1>15, <1>a DEF AgentFails, RestType
  <2> QED BY <1>0, <1>15, <2>1, <2>2, TypePartsNext DEF AgentFails, RestType
<1>16. ASSUME NEW n \in Nodes, AgentDrops(n) PROVE TypeOK'
  <2>1. CmdsType'
    BY <1>0, <1>16, RemoveAtDerived, DerivedCmds DEF AgentDrops, CmdsType
  <2> QED BY <1>0, <1>16, <2>1, TypePartsNext DEF AgentDrops, RestType
<1>17. ASSUME NEW n \in Nodes, Boots(n) PROVE TypeOK'
  <2>1. node[n] \in BKENodes
    BY <1>0 DEF RestType
  <2>2. [node[n] EXCEPT !.boot = TRUE] \in BKENodes
    BY <2>1, NodeUpdates
  <2>3. node' = [node EXCEPT ![n] = [node[n] EXCEPT !.boot = TRUE]]
    BY <1>17 DEF Boots
  <2>4. node' \in [Nodes -> BKENodes]
    BY <1>0, <2>2, <2>3 DEF RestType
  <2> QED BY <1>0, <1>17, <1>c, <2>4, TypePartsNext DEF Boots, RestType
<1>18. CASE Tick
  BY <1>0, <1>18, <1>e, TypePartsNext DEF Tick, RestType
<1>19. CASE Crash
  <2>1. faults' \in 0 .. MaxFaults
    BY <1>0, <1>19, <1>a DEF Crash, RestType
  <2> QED BY <1>0, <1>19, <1>b, <1>e, <1>h, <2>1, TypePartsNext DEF Crash, RestType
<1>20. CASE UNCHANGED vars
  BY <1>0, <1>20, <1>c, TypePartsNext DEF vars, RestType
<1> QED
  BY <1>1, <1>2, <1>3, <1>4, <1>5, <1>6, <1>7, <1>8, <1>9, <1>10, <1>11, <1>12,
     <1>13, <1>14, <1>15, <1>16, <1>17, <1>18, <1>19, <1>20
     DEF Next, Manager, Agent

\* The variables keep their types: the ids of the Commands stay distinct and
\* within their bound, whatever is created, found again and deleted.
THEOREM TypeCorrect == Spec => []TypeOK
BY TypeInit, TypeStep, PTL DEF Spec

-----------------------------------------------------------------------------
(***************************************************************************)
(* The reports are true, and the flags follow them.                        *)
(***************************************************************************)

Waits == {"pingWait", "envWait"}

\* The history and the nodes that were tried only grow.
Grows ==
    /\ Tried \subseteq Tried' /\ answered \subseteq answered'
    /\ ran \subseteq ran' /\ blamed \subseteq blamed'

\* A list that has only Commands of the last one stays sound.
LEMMA SoundKept ==
    ASSUME CommandsSound, Derived(cmds', cmds), Grows,
           phase'.at \notin Waits \/ UNCHANGED <<phase, up>>
    PROVE  CommandsSound'
<1> SUFFICES ASSUME NEW j \in DOMAIN cmds'
             PROVE  Sound(cmds[j])' /\ Awaited(cmds[j])'
  BY DEF CommandsSound
<1>1. PICK k \in DOMAIN cmds : Weakens(cmds'[j], cmds[k])
  BY DEF Derived
<1>2. Sound(cmds[k]) /\ Awaited(cmds[k])
  BY DEF CommandsSound
<1>3. Sound(cmds[j])'
  BY <1>1, <1>2 DEF Sound, Weakens, Grows
<1>4. Awaited(cmds[j])'
  <2>1. CASE phase'.at \notin Waits
    BY <2>1 DEF Awaited, Waits
  <2>2. CASE UNCHANGED <<phase, up>>
    BY <1>1, <1>2, <2>2 DEF Awaited, Weakens
  <2> QED BY <2>1, <2>2
<1> QED BY <1>3, <1>4

\* So does one a Command was created in, if its nodes have been tried: a Command
\* that is found again is one of postprocessing.
LEMMA SoundNew ==
    ASSUME TypeOK, CommandsSound,
           NEW kind \in Kinds, NEW sel \in SUBSET Nodes, NEW at \in Points,
           New(kind, sel, at),
           kind \in {"ping", "env"} => sel \subseteq Tried,
           at = "pingWait" => kind = "ping", at = "envWait" => kind = "env",
           UNCHANGED <<up, answered, ran, blamed>>
    PROVE  CommandsSound'
<1> SUFFICES ASSUME NEW j \in DOMAIN cmds'
             PROVE  Sound(cmds[j])' /\ Awaited(cmds[j])'
  BY DEF CommandsSound
<1>1. cmds \in Seq(Commands) /\ Distinct(cmds) /\ phase \in PhaseType
  BY TypeParts DEF CmdsType
<1>2. /\ phase'.at = at
      /\ \/ /\ \E k \in DOMAIN cmds : Weakens(cmds'[j], cmds[k])
            /\ \/ cmds'[j].id # phase'.cmd
               \/ \E k \in DOMAIN cmds : cmds[k].kind = kind /\ cmds[k].fresh
         \/ /\ cmds'[j].kind = kind /\ cmds'[j].sel = sel
            /\ cmds'[j].fresh => kind = "post"
            /\ \A n \in Nodes : cmds'[j].st[n] = "none"
  <2>1. Creates(kind, sel, at)
    BY <1>1, NewEffect
  <2> QED BY <2>1 DEF Creates
<1>3. \A k \in DOMAIN cmds : cmds[k].fresh => cmds[k].kind = "post"
  BY DEF CommandsSound, Sound
<1>4. Tried' = Tried
  BY DEF Tried
<1>5. CASE /\ \E k \in DOMAIN cmds : Weakens(cmds'[j], cmds[k])
           /\ \/ cmds'[j].id # phase'.cmd
              \/ \E k \in DOMAIN cmds : cmds[k].kind = kind /\ cmds[k].fresh
  <2>1. PICK k \in DOMAIN cmds : Weakens(cmds'[j], cmds[k])
    BY <1>5
  <2>2. Sound(cmds[k])
    BY DEF CommandsSound
  <2>3. Sound(cmds[j])'
    BY <1>4, <2>1, <2>2 DEF Sound, Weakens
  <2>4. phase'.at \in Waits => cmds'[j].id # phase'.cmd
    BY <1>2, <1>3, <1>5 DEF Waits
  <2> QED BY <2>3, <2>4 DEF Awaited, Waits
<1>6. CASE /\ cmds'[j].kind = kind /\ cmds'[j].sel = sel
           /\ cmds'[j].fresh => kind = "post"
           /\ \A n \in Nodes : cmds'[j].st[n] = "none"
  <2>1. Sound(cmds[j])'
    BY <1>4, <1>6 DEF Sound
  <2>2. Awaited(cmds[j])'
    BY <1>2, <1>6 DEF Awaited
  <2> QED BY <2>1, <2>2
<1> QED BY <1>2, <1>5, <1>6

\* A report of an agent that runs keeps the list sound.
LEMMA SoundReport ==
    ASSUME TypeOK, CommandsSound, NEW n \in up,
           AgentStarts(n) \/ AgentSucceeds(n) \/ AgentFails(n)
    PROVE  CommandsSound' /\ Grows
<1> USE DEF history
<1>1. Grows /\ UNCHANGED <<up, phase>>
  BY DEF Grows, Tried, AgentStarts, AgentSucceeds, AgentFails
<1>2. PICK i \in DOMAIN cmds, s \in {"running", "ok", "failed"} :
        /\ cmds' = [cmds EXCEPT ![i].st[n] = s]
        /\ s = "ok" /\ cmds[i].kind = "ping" => n \in answered'
        /\ s = "ok" /\ cmds[i].kind = "env" => n \in ran'
        /\ s = "failed" => n \in blamed'
  BY DEF AgentStarts, AgentSucceeds, AgentFails
<1>3. cmds \in Seq(Commands) /\ Distinct(cmds) /\ n \in Nodes
  BY TypeParts DEF CmdsType, RestType
<1>4. Reports(i, n, s)
  BY <1>2, <1>3, ReportEffect
<1>5. ASSUME NEW j \in DOMAIN cmds'
      PROVE  Sound(cmds[j])' /\ Awaited(cmds[j])'
  <2>1. Sound(cmds[j]) /\ Awaited(cmds[j])
    BY <1>4 DEF CommandsSound, Reports
  <2>2. Sound(cmds[j])'
    BY <1>1, <1>2, <1>4, <2>1 DEF Sound, Grows, Reports
  <2>3. Awaited(cmds[j])'
    BY <1>1, <1>4, <2>1 DEF Awaited, Reports
  <2> QED BY <2>2, <2>3
<1> QED BY <1>1, <1>5 DEF CommandsSound

\* What a failed node is charged with: it is skipped only if it is a worker.
LEMMA ChargeFields ==
    ASSUME NEW s \in BKENodes, NEW n \in Nodes
    PROVE  LET d == Charge(n, s)
           IN  /\ d.pushed = s.pushed /\ d.ready = s.ready /\ d.env = s.env
               /\ d.skip => s.skip \/ n \notin Masters
<1> DEFINE b == s.skip \/ (n \notin Masters /\ s.retry + 1 >= Limit)
           r == s.retry + 1
<1>1. b => s.skip \/ n \notin Masters
  OBVIOUS
<1>2. Charge(n, s) = [s EXCEPT !.retry = r, !.skip = b]
  BY DEF Charge
<1> HIDE DEF b, r
<1>3. /\ Charge(n, s).pushed = s.pushed /\ Charge(n, s).ready = s.ready
      /\ Charge(n, s).env = s.env /\ Charge(n, s).skip = b
  BY <1>2 DEF BKENodes
<1> QED BY <1>1, <1>3

\* The flags that a phase sets are those of the nodes it counts as successful,
\* and it gives up only workers that it counts as failed.
Follows(s, t, good, failed, n) ==
    /\ t.pushed => s.pushed \/ good
    /\ t.ready => s.ready \/ good
    /\ t.skip => s.skip \/ (failed /\ n \notin Masters)

LEMMA StatusFields ==
    ASSUME node \in [Nodes -> BKENodes], NEW S, NEW F, NEW n \in Nodes
    PROVE  /\ Follows(node[n], PingStatus(S, F)[n], n \in S, n \in F, n)
           /\ PingStatus(S, F)[n].env => node[n].env
           /\ Follows(node[n], EnvStatus(S, F)[n], FALSE, n \in F, n)
           /\ EnvStatus(S, F)[n].env => node[n].env \/ n \in S
           /\ Follows(node[n], MarkPost(S)[n], FALSE, FALSE, n)
           /\ MarkPost(S)[n].env => node[n].env
<1> DEFINE s == node[n]
           b == s.skip \/ n \in F \ Masters
           p == s.post \/ n \in S
           c == Charge(n, s)
<1>1. /\ s \in BKENodes /\ b \in BOOLEAN /\ p \in BOOLEAN
      /\ b => s.skip \/ (n \in F /\ n \notin Masters)
  OBVIOUS
<1>2. /\ PingStatus(S, F)[n] =
           IF n \in S THEN [s EXCEPT !.pushed = TRUE, !.ready = TRUE, !.retry = 0]
           ELSE IF n \in F THEN [c EXCEPT !.pushed = FALSE] ELSE s
      /\ EnvStatus(S, F)[n] =
           IF n \in S THEN [s EXCEPT !.env = TRUE] ELSE [s EXCEPT !.skip = b]
      /\ MarkPost(S)[n] = [s EXCEPT !.post = p]
  BY DEF PingStatus, EnvStatus, MarkPost
<1>3. /\ c \in BKENodes
      /\ c.pushed = s.pushed /\ c.ready = s.ready /\ c.env = s.env
      /\ c.skip => s.skip \/ n \notin Masters
  BY <1>1, ChargeFields, NodeUpdates
<1> HIDE DEF s, b, p, c
<1>4. /\ Follows(s, PingStatus(S, F)[n], n \in S, n \in F, n)
      /\ PingStatus(S, F)[n].env => s.env
  <2>1. CASE n \in S
    BY <1>1, <1>2, <2>1 DEF BKENodes, Follows
  <2>2. CASE n \notin S /\ n \in F
    BY <1>2, <1>3, <2>2 DEF BKENodes, Follows
  <2>3. CASE n \notin S /\ n \notin F
    BY <1>2, <2>3 DEF Follows
  <2> QED BY <2>1, <2>2, <2>3
<1>5. /\ Follows(s, EnvStatus(S, F)[n], FALSE, n \in F, n)
      /\ EnvStatus(S, F)[n].env => s.env \/ n \in S
  <2>1. CASE n \in S
    BY <1>1, <1>2, <2>1 DEF BKENodes, Follows
  <2>2. CASE n \notin S
    <3>1. EnvStatus(S, F)[n] = [s EXCEPT !.skip = b]
      BY <1>2, <2>2
    <3>2. /\ EnvStatus(S, F)[n].pushed = s.pushed /\ EnvStatus(S, F)[n].ready = s.ready
          /\ EnvStatus(S, F)[n].env = s.env /\ EnvStatus(S, F)[n].skip = b
      BY <1>1, <3>1 DEF BKENodes
    <3> QED BY <1>1, <3>2 DEF Follows
  <2> QED BY <2>1, <2>2
<1>6. /\ Follows(s, MarkPost(S)[n], FALSE, FALSE, n)
      /\ MarkPost(S)[n].env => s.env
  <2>1. /\ MarkPost(S)[n].pushed = s.pushed /\ MarkPost(S)[n].ready = s.ready
        /\ MarkPost(S)[n].env = s.env /\ MarkPost(S)[n].skip = s.skip
    BY <1>1, <1>2 DEF BKENodes
  <2> QED BY <2>1 DEF Follows
<1> QED BY <1>4, <1>5, <1>6 DEF s

\* Whom a wait counts: those it counts as successful have reported so, and the
\* others have failed, or were given up.
LEMMA WaitCounts ==
    ASSUME TypeOK, CommandsSound, Known, phase.at \in Waits, NEW S, WaitEnds(S)
    PROVE  /\ S \subseteq Nodes /\ Waited.sel \subseteq Nodes \cap Tried
           /\ phase.at = "pingWait" => S \subseteq answered \cap Tried
           /\ phase.at = "envWait" => S \subseteq ran
           /\ Waited.sel \ S \subseteq blamed \cup late'
<1>1. PICK i \in DOMAIN cmds : Waited = cmds[i] /\ cmds[i].id = phase.cmd
  BY WaitEffect
<1>2. /\ S \subseteq Waited.sel
      /\ \A n \in S : Waited.st[n] = "ok"
      /\ \/ \A n \in Waited.sel \ S : Waited.st[n] = "failed"
         \/ Waited.sel \subseteq late'
         \/ /\ S \in Successes(Waited)
            /\ \A n \in Waited.sel \cap up : Waited.st[n] \in {"ok", "failed"}
  BY WaitEffect
<1>3. Waited.sel \subseteq Nodes
  <2>1. Waited \in Commands
    BY <1>1, TypeParts DEF CmdsType
  <2> QED BY <2>1 DEF Commands
<1>4. Sound(Waited) /\ Awaited(Waited)
  BY <1>1 DEF CommandsSound
<1>5. /\ Waited.kind = IF phase.at = "pingWait" THEN "ping" ELSE "env"
      /\ \A n \in Nodes : Waited.st[n] = "running" => n \in up
  BY <1>1, <1>4 DEF Awaited, Waits
<1>6. Waited.sel \subseteq Tried
  BY <1>4, <1>5 DEF Sound
<1>7. /\ phase.at = "pingWait" => S \subseteq answered
      /\ phase.at = "envWait" => S \subseteq ran
  BY <1>2, <1>3, <1>4, <1>5 DEF Sound
<1>8. ASSUME NEW n \in Waited.sel \ S
      PROVE  n \in blamed \cup late'
  <2>1. n \in Nodes /\ (Waited.st[n] = "failed" => n \in blamed)
    BY <1>3, <1>4 DEF Sound
  <2>2. CASE /\ S \in Successes(Waited)
             /\ \A m \in Waited.sel \cap up : Waited.st[m] \in {"ok", "failed"}
    <3>1. Reported(Waited, "running") = {}
      BY <1>3, <1>5, <2>2 DEF Reported
    <3>2. S = Reported(Waited, "ok")
      BY <2>2, <3>1 DEF Successes
    <3>3. n \in up => Waited.st[n] = "failed"
      BY <2>2, <3>2 DEF Reported
    <3> QED BY <1>6, <2>1, <3>3 DEF Tried
  <2> QED BY <1>2, <2>1, <2>2
<1> QED BY <1>2, <1>3, <1>6, <1>7, <1>8

\* The part of the invariant that is about the nodes.
NodesInv == NodesTried /\ FlagsAreEarned /\ SkipForCause

\* A step that leaves the nodes alone keeps it, and so does one that changes
\* them as the counted results of a wait allow.
LEMMA NodesKept ==
    ASSUME NodesInv, Grows, late \subseteq late',
           NEW good, NEW bad,
           good \subseteq answered' \cap Tried', bad \subseteq blamed' \cup late',
           \A n \in Nodes :
              /\ Follows(node[n], node'[n], n \in good, n \in bad, n)
              /\ node'[n].env => node[n].env \/ n \in ran'
    PROVE  NodesInv'
<1> SUFFICES ASSUME NEW n \in Nodes
             PROVE  /\ node'[n].pushed \/ node'[n].ready => n \in Tried'
                    /\ node'[n].ready => n \in answered'
                    /\ node'[n].env => n \in ran'
                    /\ node'[n].skip => n \notin Masters /\ n \in blamed' \cup late'
  BY DEF NodesInv, NodesTried, FlagsAreEarned, SkipForCause
<1>1. /\ node[n].pushed \/ node[n].ready => n \in Tried
      /\ node[n].ready => n \in answered
      /\ node[n].env => n \in ran
      /\ node[n].skip => n \notin Masters /\ n \in blamed \cup late
  BY DEF NodesInv, NodesTried, FlagsAreEarned, SkipForCause
<1>2. /\ Follows(node[n], node'[n], n \in good, n \in bad, n)
      /\ node'[n].env => node[n].env \/ n \in ran'
  OBVIOUS
<1> QED BY <1>1, <1>2 DEF Follows, Grows

LEMMA NodesSame ==
    ASSUME NodesInv, Grows, late \subseteq late', UNCHANGED node
    PROVE  NodesInv'
<1>1. \A n \in Nodes :
         /\ Follows(node[n], node'[n], n \in {}, n \in {}, n)
         /\ node'[n].env => node[n].env \/ n \in ran'
  BY DEF Follows
<1> QED BY <1>1, NodesKept

\* The end of a wait, after which no phase waits for a Command.
LEMMA WaitKeeps ==
    ASSUME IInv, Known, NEW S, WaitEnds(S), phase'.at \notin Waits,
           UNCHANGED <<up, answered, ran, blamed>>
    PROVE  CommandsSound' /\ Grows /\ late \subseteq late'
<1>1. Derived(cmds', cmds) /\ late \subseteq late'
  BY WaitEffect DEF IInv
<1>2. Grows
  BY DEF Grows, Tried
<1> QED BY <1>1, <1>2, SoundKept DEF IInv

\* A node whose upload succeeded runs its agent or has failed to start it.
LEMMA PushKeeps ==
    ASSUME IInv, NEW F \in SUBSET Nodes, NEW D \in SUBSET Nodes, PushAgent(F, D)
    PROVE  CommandsSound' /\ NodesInv'
<1> DEFINE T == NeedPush
           st == [n \in Nodes |->
                    IF n \in F THEN Charge(n, node[n])
                    ELSE IF n \in T /\ F # T THEN [node[n] EXCEPT !.pushed = TRUE]
                    ELSE node[n]]
<1>1. /\ node' = st /\ F \subseteq T /\ D \subseteq T \ F
      /\ up' = (up \ T) \cup (T \ (F \cup D))
      /\ cmds' = Aged(cmds) /\ UNCHANGED <<answered, ran, late>>
      /\ blamed' = blamed \cup F \cup D
      /\ HandlePushResults(T, F, st)
  BY DEF PushAgent, StartAgents, SshPush
<1>2. phase'.at \notin Waits
  <2> HIDE DEF T, st
  <2>1. phase' = Idle \/ phase' = [Idle EXCEPT !.at = "ping", !.todo = T]
    BY <1>1 DEF HandlePushResults, Error
  <2>2. Idle.at = "idle" /\ [Idle EXCEPT !.at = "ping", !.todo = T].at = "ping"
    BY DEF Idle
  <2> QED BY <2>1, <2>2 DEF Waits
<1>3. Derived(cmds', cmds)
  <2>1. cmds \in Seq(Commands) /\ Distinct(cmds)
    BY TypeParts DEF IInv, CmdsType
  <2>2. Derived(Aged(cmds), cmds)
    BY <2>1, AgedDerived
  <2> QED BY <1>1, <2>2
<1>4. T \subseteq Tried'
  BY <1>1 DEF Tried
<1>5. Grows
  BY <1>1 DEF Grows, Tried
<1>6. CommandsSound'
  BY <1>2, <1>3, <1>5, SoundKept DEF IInv
<1>7. ASSUME NEW n \in Nodes
      PROVE  /\ node'[n].pushed => node[n].pushed \/ n \in T
             /\ node'[n].ready => node[n].ready
             /\ node'[n].env => node[n].env
             /\ node'[n].skip => node[n].skip \/ (n \in F /\ n \notin Masters)
  <2>1. node[n] \in BKENodes
    BY TypeParts DEF IInv, RestType
  <2>2. CASE n \in F
    <3>1. node'[n] = Charge(n, node[n])
      BY <1>1, <2>2
    <3> QED BY <2>1, <2>2, <3>1, ChargeFields
  <2>3. CASE n \notin F /\ n \in T /\ F # T
    <3>1. node'[n] = [node[n] EXCEPT !.pushed = TRUE]
      BY <1>1, <2>3
    <3>2. /\ node'[n].ready = node[n].ready /\ node'[n].env = node[n].env
          /\ node'[n].skip = node[n].skip
      BY <2>1, <3>1 DEF BKENodes
    <3> QED BY <2>3, <3>2
  <2>4. CASE n \notin F /\ ~(n \in T /\ F # T)
    <3>1. node'[n] = node[n]
      BY <1>1, <2>4
    <3> QED BY <3>1
  <2> QED BY <2>2, <2>3, <2>4
<1>8. /\ NodesTried /\ FlagsAreEarned /\ SkipForCause
      /\ F \subseteq blamed'
  BY <1>1 DEF IInv
<1> HIDE DEF T
<1>9. NodesTried'
  BY <1>4, <1>5, <1>7, <1>8 DEF NodesTried, Grows
<1>10. FlagsAreEarned'
  BY <1>1, <1>7, <1>8 DEF FlagsAreEarned
<1>11. SkipForCause'
  BY <1>1, <1>7, <1>8 DEF SkipForCause
<1> QED BY <1>6, <1>9, <1>10, <1>11 DEF NodesInv

LEMMA InvInit == Init => IInv
<1> SUFFICES ASSUME Init PROVE IInv
  OBVIOUS
<1>1. TypeOK
  BY TypeInit
<1>2. CommandsSound
  <2>1. DOMAIN cmds = {}
    BY DEF Init
  <2> QED BY <2>1 DEF CommandsSound
<1>3. \A n \in Nodes : /\ node[n].pushed = FALSE /\ node[n].ready = FALSE
                       /\ node[n].env = FALSE /\ node[n].skip = FALSE
  BY DEF Init, NewNode
<1> QED BY <1>1, <1>2, <1>3 DEF IInv, NodesTried, FlagsAreEarned, SkipForCause

\* Every action keeps the invariant.
LEMMA InvStep == IInv /\ [Next]_vars => IInv'
<1> SUFFICES ASSUME IInv, [Next]_vars PROVE IInv'
  OBVIOUS
<1> USE DEF history
<1>t. TypeOK'
  BY TypeStep DEF IInv
<1>i. TypeOK /\ CommandsSound /\ NodesInv
  BY DEF IInv, NodesInv
<1>q. (CommandsSound' /\ NodesInv') => IInv'
  BY <1>t DEF IInv, NodesInv
<1>c. CmdsType /\ phase \in PhaseType /\ RestType
  BY <1>i, TypeParts
<1>g. UNCHANGED <<up, answered, ran, blamed>> => Grows
  BY DEF Grows, Tried
<1>s. Derived(cmds, cmds) /\ Derived(Aged(cmds), cmds)
  BY <1>c, DerivedSelf, AgedDerived DEF CmdsType
<1>o. \A at : Go(at) => phase'.at = at
  BY <1>c DEF Go, Idle, PhaseType
<1>e. Error \/ Return => phase'.at = "idle"
  BY DEF Error, Return, Idle
\* a step that changes the phase only, or makes the Commands older
<1>p. ASSUME UNCHANGED <<node, up, answered, ran, blamed, late>>,
             UNCHANGED cmds \/ cmds' = Aged(cmds),
             phase'.at \notin Waits \/ UNCHANGED phase
      PROVE  IInv'
  <2>1. Grows /\ late \subseteq late'
    BY <1>p, <1>g
  <2>2. CommandsSound'
    BY <1>i, <1>p, <1>s, <2>1, SoundKept
  <2> QED BY <1>i, <1>p, <1>q, <2>1, <2>2, NodesSame
\* a step that creates a Command
<1>n. ASSUME NEW kind \in Kinds, NEW sel \in SUBSET Nodes, NEW at \in Points,
             New(kind, sel, at), kind \in {"ping", "env"} => sel \subseteq Tried,
             at = "pingWait" => kind = "ping", at = "envWait" => kind = "env",
             UNCHANGED <<up, answered, ran, blamed>>
      PROVE  CommandsSound' /\ Grows
  BY <1>g, <1>i, <1>n, SoundNew
<1>m. ASSUME NEW S, node' = MarkPost(S), Grows, late \subseteq late'
      PROVE  NodesInv'
  <2>1. \A n \in Nodes :
           /\ Follows(node[n], node'[n], n \in {}, n \in {}, n)
           /\ node'[n].env => node[n].env \/ n \in ran'
    <3>1. \A n \in Nodes : /\ Follows(node[n], node'[n], FALSE, FALSE, n)
                           /\ node'[n].env => node[n].env
      BY <1>c, <1>m, StatusFields DEF RestType
    <3> QED BY <3>1 DEF Follows
  <2> QED BY <1>i, <1>m, <2>1, NodesKept
<1>1. CASE Reconcile
  BY <1>1, <1>o, <1>p DEF Reconcile, Waits
<1>2. CASE NothingToPush
  BY <1>2, <1>o, <1>p DEF NothingToPush, Waits
<1>3. ASSUME NEW F \in SUBSET Nodes, NEW D \in SUBSET Nodes, PushAgent(F, D)
      PROVE  IInv'
  BY <1>3, <1>q, PushKeeps
<1>4. CASE PingAgent
  <2>1. CASE PingNodes = {}
    BY <1>4, <1>e, <1>p, <2>1 DEF PingAgent, Waits
  <2>2. CASE PingNodes # {}
    <3>1. New("ping", PingNodes, "pingWait")
      BY <1>4, <2>2 DEF PingAgent
    <3>2. PingNodes \subseteq Tried /\ PingNodes \in SUBSET Nodes
      BY <1>i DEF PingNodes, NodesInv, NodesTried
    <3>3. UNCHANGED <<node, up, answered, ran, blamed, late>>
      BY <1>4 DEF PingAgent
    <3>4. "ping" \in Kinds /\ "pingWait" \in Points
      BY DEF Kinds, Points
    <3>5. CommandsSound' /\ Grows
      BY <1>n, <3>1, <3>2, <3>3, <3>4
    <3> QED BY <1>i, <1>q, <3>3, <3>5, NodesSame
  <2> QED BY <2>1, <2>2
<1>5. CASE InitEnv
  <2>1. CASE EnvNodes = {}
    BY <1>5, <1>o, <1>p, <2>1 DEF InitEnv, Waits
  <2>2. CASE EnvNodes # {}
    <3>1. New("env", EnvNodes, "envWait")
      BY <1>5, <2>2 DEF InitEnv
    <3>2. EnvNodes \subseteq Tried /\ EnvNodes \in SUBSET Nodes
      BY <1>i DEF EnvNodes, NodesInv, NodesTried
    <3>3. UNCHANGED <<node, up, answered, ran, blamed, late>>
      BY <1>5 DEF InitEnv
    <3>4. "env" \in Kinds /\ "envWait" \in Points
      BY DEF Kinds, Points
    <3>5. CommandsSound' /\ Grows
      BY <1>n, <3>1, <3>2, <3>3, <3>4
    <3> QED BY <1>i, <1>q, <3>3, <3>5, NodesSame
  <2> QED BY <2>1, <2>2
<1>6. CASE Preprocess
  <2>1. phase.todo \in SUBSET Nodes /\ "pre" \in Kinds /\ "preWait" \in Points
    BY <1>c DEF PhaseType, Kinds, Points
  <2>2. /\ New("pre", phase.todo, "preWait")
        /\ UNCHANGED <<node, up, answered, ran, blamed, late>>
    BY <1>6 DEF Preprocess
  <2>3. CommandsSound' /\ Grows
    BY <1>n, <2>1, <2>2
  <2> QED BY <1>i, <1>q, <2>2, <2>3, NodesSame
<1>7. CASE PostProcess
  <2> DEFINE P == PostNodes \cap Postprocessed
  <2>1. P \in SUBSET Nodes /\ "post" \in Kinds /\ "postWait" \in Points
    BY DEF PostNodes, Kinds, Points
  <2>2. /\ node' = MarkPost(PostNodes \ Postprocessed)
        /\ UNCHANGED <<up, answered, ran, blamed, late>>
    BY <1>7 DEF PostProcess
  <2>3. CommandsSound' /\ Grows
    <3>1. CASE P = {}
      <4>1. UNCHANGED cmds /\ phase'.at = "idle"
        BY <1>7, <1>e, <3>1 DEF PostProcess
      <4>2. Grows
        BY <1>g, <2>2
      <4> QED BY <1>i, <1>s, <4>1, <4>2, SoundKept DEF Waits
    <3>2. CASE P # {}
      <4>1. New("post", P, "postWait")
        BY <1>7, <3>2 DEF PostProcess
      <4> QED BY <1>n, <2>1, <2>2, <4>1
    <3> QED BY <3>1, <3>2
  <2> QED BY <1>m, <1>q, <2>2, <2>3
<1>8. CASE PingResult
  <2>1. PICK S \in SUBSET Nodes :
          /\ WaitEnds(S) /\ node' = PingStatus(S, Waited.sel \ S)
          /\ Error \/ Go("env")
    BY <1>8 DEF PingResult
  <2>2. /\ Known /\ phase.at = "pingWait"
        /\ UNCHANGED <<up, answered, ran, blamed>>
    BY <1>8 DEF PingResult
  <2>3. phase'.at \notin Waits
    BY <1>e, <1>o, <2>1 DEF Waits
  <2>4. CommandsSound' /\ Grows /\ late \subseteq late'
    BY <2>1, <2>2, <2>3, WaitKeeps
  <2> DEFINE F == Waited.sel \ S
  <2>5. S \subseteq answered \cap Tried /\ F \subseteq blamed \cup late'
    BY <1>i, <2>1, <2>2, WaitCounts DEF Waits
  <2>6. S \subseteq answered' \cap Tried' /\ F \subseteq blamed' \cup late'
    BY <2>2, <2>5 DEF Tried
  <2>7. \A n \in Nodes :
           /\ Follows(node[n], node'[n], n \in S, n \in F, n)
           /\ node'[n].env => node[n].env \/ n \in ran'
    <3> HIDE DEF F
    <3> QED BY <1>c, <2>1, StatusFields DEF RestType, F
  <2> HIDE DEF F
  <2>8. NodesInv'
    BY <1>i, <2>4, <2>6, <2>7, NodesKept
  <2> QED BY <1>q, <2>4, <2>8
<1>9. CASE EnvResult
  <2>1. PICK S \in SUBSET Nodes :
          /\ WaitEnds(S) /\ node' = EnvStatus(S, Waited.sel \ S)
          /\ \/ Error \/ Go("post")
             \/ phase' = [Idle EXCEPT !.at = "pre", !.todo = S \cap Preprocessed]
    BY <1>9 DEF EnvResult
  <2>2. /\ Known /\ phase.at = "envWait"
        /\ UNCHANGED <<up, answered, ran, blamed>>
    BY <1>9 DEF EnvResult
  <2>3. phase'.at \notin Waits
    <3>1. [Idle EXCEPT !.at = "pre", !.todo = S \cap Preprocessed].at = "pre"
      BY DEF Idle
    <3> QED BY <1>e, <1>o, <2>1, <3>1 DEF Waits
  <2>4. CommandsSound' /\ Grows /\ late \subseteq late'
    BY <2>1, <2>2, <2>3, WaitKeeps
  <2> DEFINE F == Waited.sel \ S
  <2>5. S \subseteq ran /\ F \subseteq blamed \cup late'
    BY <1>i, <2>1, <2>2, WaitCounts DEF Waits
  <2>6. F \subseteq blamed' \cup late'
    BY <2>2, <2>5
  <2>7. \A n \in Nodes :
           /\ Follows(node[n], node'[n], n \in {}, n \in F, n)
           /\ node'[n].env => node[n].env \/ n \in ran'
    <3>1. \A n \in Nodes : /\ Follows(node[n], node'[n], FALSE, n \in F, n)
                           /\ node'[n].env => node[n].env \/ n \in S
      BY <1>c, <2>1, StatusFields DEF RestType
    <3> HIDE DEF F
    <3> QED BY <2>2, <2>5, <3>1 DEF Follows
  <2> HIDE DEF F
  <2>8. NodesInv'
    BY <1>i, <2>4, <2>6, <2>7, NodesKept
  <2> QED BY <1>q, <2>4, <2>8
<1>10. CASE PreprocessResult
  <2>1. PICK S \in SUBSET Nodes : WaitEnds(S) /\ (Error \/ Go("post"))
    BY <1>10 DEF PreprocessResult
  <2>2. Known /\ UNCHANGED <<node, up, answered, ran, blamed>>
    BY <1>10 DEF PreprocessResult
  <2>3. phase'.at \notin Waits
    BY <1>e, <1>o, <2>1 DEF Waits
  <2>4. CommandsSound' /\ Grows /\ late \subseteq late'
    BY <2>1, <2>2, <2>3, WaitKeeps
  <2> QED BY <1>i, <1>q, <2>2, <2>4, NodesSame
<1>11. CASE PostProcessResult
  <2>1. PICK S \in SUBSET Nodes :
          WaitEnds(S) /\ node' = PostStatus(S, Waited.sel \ S)
    BY <1>11 DEF PostProcessResult
  <2>2. Known /\ phase' = Idle /\ UNCHANGED <<up, answered, ran, blamed>>
    BY <1>11 DEF PostProcessResult
  <2>3. phase'.at \notin Waits
    BY <2>2 DEF Idle, Waits
  <2>4. CommandsSound' /\ Grows /\ late \subseteq late'
    BY <2>1, <2>2, <2>3, WaitKeeps
  <2>5. NodesInv'
    BY <1>m, <2>1, <2>4 DEF PostStatus
  <2> QED BY <1>q, <2>4, <2>5
<1>12. CASE WaitFails
  BY <1>12, <1>p DEF WaitFails, Idle, Waits
<1>13. ASSUME NEW n \in Nodes, AgentStarts(n) \/ AgentSucceeds(n) \/ AgentFails(n)
       PROVE  IInv'
  <2>1. n \in up /\ UNCHANGED <<node, late>>
    BY <1>13 DEF AgentStarts, AgentSucceeds, AgentFails
  <2>2. CommandsSound' /\ Grows
    BY <1>13, <1>i, <2>1, SoundReport
  <2> QED BY <1>i, <1>q, <2>1, <2>2, NodesSame
<1>14. ASSUME NEW n \in Nodes, AgentDrops(n) PROVE IInv'
  <2>1. PICK i \in DOMAIN cmds : cmds' = RemoveAt(cmds, i)
    BY <1>14 DEF AgentDrops
  <2>2. UNCHANGED <<node, up, phase, answered, ran, blamed, late>>
    BY <1>14 DEF AgentDrops
  <2>3. Derived(cmds', cmds)
    BY <1>c, <2>1, RemoveAtDerived DEF CmdsType
  <2>4. CommandsSound'
    BY <1>g, <1>i, <2>2, <2>3, SoundKept
  <2> QED BY <1>g, <1>i, <1>q, <2>2, <2>4, NodesSame
<1>15. ASSUME NEW n \in Nodes, Boots(n) PROVE IInv'
  <2>1. /\ node' = [node EXCEPT ![n].boot = TRUE]
        /\ UNCHANGED <<up, cmds, phase, answered, ran, blamed, late>>
    BY <1>15 DEF Boots
  <2>2. CommandsSound' /\ Grows
    BY <1>g, <1>i, <1>s, <2>1, SoundKept
  <2>3. \A m \in Nodes :
           /\ node'[m].pushed = node[m].pushed /\ node'[m].ready = node[m].ready
           /\ node'[m].env = node[m].env /\ node'[m].skip = node[m].skip
    BY <1>c, <2>1 DEF RestType, BKENodes
  <2>4. \A m \in Nodes :
           /\ Follows(node[m], node'[m], m \in {}, m \in {}, m)
           /\ node'[m].env => node[m].env \/ m \in ran'
    BY <2>3 DEF Follows
  <2>5. NodesInv'
    BY <1>i, <2>1, <2>2, <2>4, NodesKept
  <2> QED BY <1>q, <2>2, <2>5
<1>16. CASE Tick
  BY <1>16, <1>p DEF Tick
<1>17. CASE Crash
  BY <1>17, <1>p DEF Crash, Idle, Waits
<1>18. CASE UNCHANGED vars
  BY <1>18, <1>p DEF vars
<1> QED
  BY <1>1, <1>2, <1>3, <1>4, <1>5, <1>6, <1>7, <1>8, <1>9, <1>10, <1>11, <1>12,
     <1>13, <1>14, <1>15, <1>16, <1>17, <1>18 DEF Next, Manager, Agent

LEMMA Invariant == Spec => []IInv
BY InvInit, InvStep, PTL DEF Spec

\* A node has NodeAgentReadyFlag only if it has answered a ping, and NodeEnvFlag
\* only if an env command succeeded on it: what waitCommandComplete counts, at a
\* time-out too, is what the Command of this phase reported.
THEOREM FlagsEarned == Spec => []FlagsAreEarned
BY Invariant, PTL DEF IInv

\* No master is ever skipped, and a worker only for a failure of its own or for
\* a command the manager gave up while its agent was at work.
THEOREM SkippedForCause == Spec => []SkipForCause
BY Invariant, PTL DEF IInv
=============================================================================
