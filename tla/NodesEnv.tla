------------------------------ MODULE NodesEnv ------------------------------
(***************************************************************************)
(* How nodes are made ready for Kubernetes: the phases EnsureBKEAgent      *)
(* (push the agent over SSH, then ping it), EnsureNodesEnv (run the env    *)
(* command and the user's preprocess scripts) and EnsureNodesPostProcess,  *)
(* and the manager's side of a Command (pkg/command): create it, wait for  *)
(* the agents to report, count who succeeded when the wait times out, and  *)
(* delete it.  The agents' side is reduced to what the manager can see of  *)
(* it (see AgentCommand).  The manager may crash; the Commands it had      *)
(* created stay behind.                                                    *)
(***************************************************************************)
EXTENDS Naturals, FiniteSets, Sequences, SequencesExt

CONSTANTS
    Nodes, Masters,   \* all nodes, and those with the master role
    Preprocessed,     \* the nodes with preprocess scripts
    Postprocessed,    \* the nodes with postprocess scripts
    Limit,            \* ReconcileAllowedFailedCount
    MaxFails,         \* bound on pushes, agents and commands that fail
    MaxFaults,        \* bound on crashes and on waits that end too early
    MaxCmds           \* bound on the Commands that exist at a time

ASSUME NodesEnvAssumption ==
    /\ Masters \subseteq Nodes /\ Preprocessed \cup Postprocessed \subseteq Nodes
    /\ IsFiniteSet(Nodes)
    /\ Limit \in Nat \ {0} /\ MaxCmds \in Nat \ {0}
    /\ MaxFails \in Nat /\ MaxFaults \in Nat

VARIABLES
    node,      \* the status of each BKENode: its flags, NeedSkip, RetryCount
    up,        \* the nodes whose agent runs
    cmds,      \* the Commands on the API server, the oldest first
    phase,     \* where the reconcile is, and what its phase holds in memory
    deploying, \* is the cluster being deployed (or has it been)?
    answered,  \* history: the nodes that have answered a ping
    ran,       \* history: the nodes on which an env command succeeded
    blamed,    \* history: the nodes that really failed at something
    late,      \* history: the nodes of commands that were given up early
    fails, faults

history == <<answered, ran, blamed, late>>
vars == <<node, up, cmds, phase, deploying, answered, ran, blamed, late, fails,
          faults>>

BKENodes == [pushed: BOOLEAN, ready: BOOLEAN, env: BOOLEAN, boot: BOOLEAN,
             post: BOOLEAN, skip: BOOLEAN, retry: Nat]

NewNode == [pushed |-> FALSE, ready |-> FALSE, env |-> FALSE, boot |-> FALSE,
            post |-> FALSE, skip |-> FALSE, retry |-> 0]

Kinds == {"ping", "env", "pre", "post"}
Ids == 1..MaxCmds

\* A Command: its family, its node selector, what each node has reported, and
\* whether it was created in the current second (which its name ends with).
Commands == [id: Ids, kind: Kinds, sel: SUBSET Nodes, deleting: BOOLEAN,
             fresh: BOOLEAN, st: [Nodes -> {"none", "running", "ok", "failed"}]]

Points == {"idle", "agent", "ping", "pingWait", "env", "envWait", "pre",
           "preWait", "post", "postWait"}

Idle == [at |-> "idle", todo |-> {}, cmd |-> 0]

TypeOK ==
    /\ node \in [Nodes -> BKENodes]
    /\ up \subseteq Nodes
    /\ cmds \in Seq(Commands)
    /\ \A i, j \in DOMAIN cmds : cmds[i].id = cmds[j].id => i = j
    /\ phase \in [at: Points, todo: SUBSET Nodes, cmd: Ids \cup {0}]
    /\ deploying \in BOOLEAN
    /\ {answered, ran, blamed, late} \subseteq SUBSET Nodes
    /\ fails \in 0..MaxFails /\ faults \in 0..MaxFaults

Init ==
    /\ node = [n \in Nodes |-> NewNode]
    /\ up = {} /\ cmds = <<>> /\ phase = Idle
    /\ deploying \in BOOLEAN
    /\ answered = {} /\ ran = {} /\ blamed = {} /\ late = {}
    /\ fails = 0 /\ faults = 0

-----------------------------------------------------------------------------
(* pkg/command                                                             *)

Find(id) == {i \in DOMAIN cmds : cmds[i].id = id}
Known == phase.cmd # 0 /\ Find(phase.cmd) # {}
Waited == cmds[CHOOSE i \in Find(phase.cmd) : TRUE]

\* More than a second has passed.
Aged(cs) == [i \in DOMAIN cs |-> [cs[i] EXCEPT !.fresh = FALSE]]

Touched(c) == \E n \in c.sel : c.st[n] # "none"

\* A Command that no agent has put its finalizer on is gone at once.
DeleteAt(cs, i) == IF Touched(cs[i]) THEN [cs EXCEPT ![i].deleting = TRUE]
                   ELSE RemoveAt(cs, i)

Delete(cs, id) ==
    LET found == {i \in DOMAIN cs : cs[i].id = id}
    IN  IF found = {} THEN cs ELSE DeleteAt(cs, CHOOSE i \in found : TRUE)

\* handleUniqueCommand: the first command of the family is deleted, no other
HandleUniqueCommand(cs, kind) ==
    LET family == {i \in DOMAIN cs : cs[i].kind = kind}
    IN  IF kind # "env" \/ family = {} THEN cs ELSE DeleteAt(cs, Min(family))

NewId(cs) == CHOOSE i \in Ids : \A c \in Range(cs) : c.id # i

\* newCommand: a Command with the name of this second is used as it is.  Only
\* postprocessing can come round again within a second: the other commands are
\* behind an upload, or are not repeated once their nodes have the flag.
New(kind, sel, at) ==
    LET rest == HandleUniqueCommand(cmds, kind)
        same == {c \in Range(rest) : c.kind = kind /\ c.fresh}
        made == [id |-> NewId(rest), kind |-> kind, sel |-> sel,
                 deleting |-> FALSE, fresh |-> kind = "post",
                 st |-> [n \in Nodes |-> "none"]]
    IN  \/ /\ same # {}
           /\ cmds' = rest
           /\ phase' = [phase EXCEPT !.at = at,
                                     !.cmd = (CHOOSE c \in same : TRUE).id]
        \/ /\ same = {} /\ Len(rest) < MaxCmds
           /\ cmds' = Append(rest, made)
           /\ phase' = [phase EXCEPT !.at = at, !.cmd = made.id]

Reported(c, s) == {n \in c.sel : c.st[n] = s}

\* CheckCommandStatus
Complete(c) == c.sel \subseteq Reported(c, "ok") \cup Reported(c, "failed")

\* mutant: a node that still runs at the time-out is taken for a success
OptimisticSuccesses(c) == {c.sel \ Reported(c, "failed")}

\* The nodes that may be counted as successful at a time-out: CheckCommandStatus
\* walks a map and returns at the first node that still runs.
Successes(c) ==
    IF Reported(c, "running") = {} THEN {Reported(c, "ok")}
    ELSE SUBSET Reported(c, "ok")

\* waitCommandComplete counts the nodes S as successful and the others of the
\* selector as failed.
WaitCompletes(S) ==
    /\ Complete(Waited)
    /\ S = Reported(Waited, "ok")
    /\ cmds' = Delete(cmds, phase.cmd)
    /\ UNCHANGED <<faults, late>>

\* handleTimeoutCase.  A wait that nothing can end any more times out, another
\* one may when the agents are slow.
WaitTimesOut(S) ==
    /\ ~Complete(Waited)
    /\ S \in Successes(Waited)
    /\ \/ /\ \A n \in Waited.sel \cap up : Waited.st[n] \in {"ok", "failed"}
          /\ UNCHANGED <<faults, late>>
       \/ /\ faults < MaxFaults /\ faults' = faults + 1
          /\ late' = late \cup Waited.sel
    /\ cmds' = Aged(Delete(cmds, phase.cmd))

WaitEnds(S) == WaitCompletes(S) \/ WaitTimesOut(S)

\* the command vanished: GetCommand fails until the time-out and at it
WaitFails ==
    /\ phase.at \in {"pingWait", "envWait", "preWait", "postWait"} /\ ~Known
    /\ phase' = Idle
    /\ UNCHANGED <<node, up, cmds, deploying, history, fails, faults>>

-----------------------------------------------------------------------------
(* EnsureBKEAgent                                                          *)

\* The phase returns an error, or the last phase returns.
Error == phase' = Idle
Return == phase' = Idle
Go(at) == phase' = [Idle EXCEPT !.at = at]

Skipped(st, S) == \A n \in S : st[n].skip

\* A reconcile begins: PhaseFlow runs the phases in this order.
Reconcile ==
    /\ phase.at = "idle"
    /\ \E n \in Nodes : \/ ~node[n].skip /\ ~(node[n].pushed /\ node[n].env)
                        \/ ~node[n].skip /\ ~node[n].post
    /\ Go("agent")
    /\ UNCHANGED <<node, up, cmds, deploying, history, fails, faults>>

NeedPush == {n \in Nodes : ~node[n].pushed /\ ~node[n].skip}

\* A node that failed: a worker is given up when its retries are used up.
Charge(n, s) ==
    [s EXCEPT !.retry = @ + 1,
              !.skip = @ \/ (n \notin Masters /\ s.retry + 1 >= Limit)]

NothingToPush ==
    /\ phase.at = "agent" /\ NeedPush = {}
    /\ Go("env")
    /\ UNCHANGED <<node, up, cmds, deploying, history, fails, faults>>

\* sshPushAgent: F are the nodes it fails on
SshPush(T, F) == F \subseteq T

\* executeStartCommand restarts the agents; those of D do not come up
StartAgents(T, F, D) ==
    /\ D \subseteq T \ F
    /\ up' = (up \ T) \cup (T \ (F \cup D))

\* handlePushResults.  When no host is left on the way sshPushAgent returns an
\* error itself, and the nodes that were given up do not count.
HandlePushResults(T, F, st) ==
    LET ping == phase' = [Idle EXCEPT !.at = "ping", !.todo = T]
    IN  \/ F = T /\ Error
        \/ F = T /\ Skipped(st, F) /\ ping
        \/ F # T /\ F \cap Masters # {} /\ Error
        \/ F # T /\ F \cap Masters = {} /\ ping

\* pushAgent; the upload takes longer than a second
PushAgent(F, D) ==
    LET T == NeedPush
        st == [n \in Nodes |->
                 IF n \in F THEN Charge(n, node[n])
                 ELSE IF n \in T /\ F # T THEN [node[n] EXCEPT !.pushed = TRUE]
                 ELSE node[n]]
    IN  /\ phase.at = "agent" /\ T # {}
        /\ SshPush(T, F) /\ StartAgents(T, F, D)
        /\ fails + Cardinality(F \cup D) <= MaxFails
        /\ fails' = fails + Cardinality(F \cup D)
        /\ blamed' = blamed \cup F \cup D
        /\ node' = st
        /\ HandlePushResults(T, F, st)
        /\ cmds' = Aged(cmds)
        /\ UNCHANGED <<deploying, answered, ran, late, faults>>

PingNodes == {n \in Nodes : node[n].pushed /\ ~node[n].ready}

\* pingAgent; with nothing to ping the result is empty, which is an error
PingAgent ==
    /\ phase.at = "ping"
    /\ IF PingNodes = {} THEN Error /\ UNCHANGED cmds
       ELSE New("ping", PingNodes, "pingWait")
    /\ UNCHANGED <<node, up, deploying, history, fails, faults>>

\* mutant: a node that does not answer keeps NodeAgentPushedFlag
KeepPushed(S, F) ==
    [n \in Nodes |->
       IF n \in S THEN [node[n] EXCEPT !.pushed = TRUE, !.ready = TRUE, !.retry = 0]
       ELSE IF n \in F THEN Charge(n, node[n])
       ELSE node[n]]

\* updateNodeStatus
PingStatus(S, F) ==
    [n \in Nodes |->
       IF n \in S THEN [node[n] EXCEPT !.pushed = TRUE, !.ready = TRUE, !.retry = 0]
       ELSE IF n \in F THEN [Charge(n, node[n]) EXCEPT !.pushed = FALSE]
       ELSE node[n]]

\* pingAgent after the wait, and checkAllOrPushedAgentsFailed
PingResult ==
    /\ phase.at = "pingWait" /\ Known
    /\ \E S \in SUBSET Nodes :
         LET F == Waited.sel \ S
             st == PingStatus(S, F)
         IN  /\ WaitEnds(S)
             /\ node' = st
             /\ IF \/ deploying /\ ~Skipped(st, F)
                   \/ S = {} /\ ~Skipped(st, F)
                   \/ S # {} /\ F # {} /\ phase.todo \subseteq F
                THEN Error ELSE Go("env")
    /\ UNCHANGED <<up, deploying, answered, ran, blamed, fails>>

-----------------------------------------------------------------------------
(* EnsureNodesEnv                                                          *)

\* getNodesToInitEnv
EnvNodes == {n \in Nodes : node[n].ready /\ ~node[n].env /\ ~node[n].skip}

InitEnv ==
    /\ phase.at = "env"
    /\ IF EnvNodes = {} THEN Go("post") /\ UNCHANGED cmds
       ELSE New("env", EnvNodes, "envWait")
    /\ UNCHANGED <<node, up, deploying, history, fails, faults>>

\* mutant: a failed node is skipped whatever its role
EnvSkipsMasters(S, F) ==
    [n \in Nodes |-> IF n \in S THEN [node[n] EXCEPT !.env = TRUE]
                     ELSE [node[n] EXCEPT !.skip = @ \/ n \in F]]

\* handleSuccessNodes, handleFailedNodes
EnvStatus(S, F) ==
    [n \in Nodes |->
       IF n \in S THEN [node[n] EXCEPT !.env = TRUE]
       ELSE [node[n] EXCEPT !.skip = @ \/ n \in F \ Masters]]

\* CheckOrInitNodesEnv after the wait, and finalDecisionAndCleanup.  The check
\* of nodes that are not to be skipped counts none: it reads a local file.
EnvResult ==
    /\ phase.at = "envWait" /\ Known
    /\ \E S \in SUBSET Nodes :
         LET F == Waited.sel \ S
         IN  /\ WaitEnds(S)
             /\ node' = EnvStatus(S, F)
             /\ IF S = {} THEN Error
                ELSE IF S \cap Preprocessed = {} THEN Go("post")
                ELSE phase' = [Idle EXCEPT !.at = "pre", !.todo = S \cap Preprocessed]
    /\ UNCHANGED <<up, deploying, answered, ran, blamed, fails>>

\* executeNodePreprocessScripts
Preprocess ==
    /\ phase.at = "pre"
    /\ New("pre", phase.todo, "preWait")
    /\ UNCHANGED <<node, up, deploying, history, fails, faults>>

PreprocessResult ==
    /\ phase.at = "preWait" /\ Known
    /\ \E S \in SUBSET Nodes :
         LET F == Waited.sel \ S
         IN  /\ WaitEnds(S)
             /\ IF F # {} THEN Error ELSE Go("post")
    /\ UNCHANGED <<node, up, deploying, answered, ran, blamed, fails>>

-----------------------------------------------------------------------------
(* EnsureNodesPostProcess                                                  *)

PostNodes == {n \in Nodes : node[n].boot /\ ~node[n].post /\ ~node[n].skip}

MarkPost(S) ==
    [n \in Nodes |-> [node[n] EXCEPT !.post = @ \/ n \in S]]

PostProcess ==
    /\ phase.at = "post"
    /\ node' = MarkPost(PostNodes \ Postprocessed)
    /\ IF PostNodes \cap Postprocessed = {} THEN Return /\ UNCHANGED cmds
       ELSE New("post", PostNodes \cap Postprocessed, "postWait")
    /\ UNCHANGED <<up, deploying, history, fails, faults>>

\* one failure: the nodes that failed are marked, those that succeeded are not
PostStatus(S, F) == IF F = {} THEN MarkPost(S) ELSE MarkPost(F)

PostProcessResult ==
    /\ phase.at = "postWait" /\ Known
    /\ \E S \in SUBSET Nodes :
         LET F == Waited.sel \ S
         IN  /\ WaitEnds(S)
             /\ node' = PostStatus(S, F)
    /\ phase' = Idle
    /\ UNCHANGED <<up, deploying, answered, ran, blamed, fails>>

-----------------------------------------------------------------------------
(* The environment                                                         *)

\* The node joins the cluster (see MachineBootstrap).
Boots(n) ==
    /\ node[n].env /\ ~node[n].boot
    /\ node' = [node EXCEPT ![n].boot = TRUE]
    /\ UNCHANGED <<up, cmds, phase, deploying, history, fails, faults>>

AgentStarts(n) ==
    /\ n \in up
    /\ \E i \in DOMAIN cmds :
         /\ ~cmds[i].deleting /\ n \in cmds[i].sel /\ cmds[i].st[n] = "none"
         /\ cmds' = [cmds EXCEPT ![i].st[n] = "running"]
    /\ UNCHANGED <<node, up, phase, deploying, history, fails, faults>>

AgentSucceeds(n) ==
    /\ n \in up
    /\ \E i \in DOMAIN cmds :
         /\ cmds[i].st[n] = "running"
         /\ cmds' = [cmds EXCEPT ![i].st[n] = "ok"]
         /\ answered' = IF cmds[i].kind = "ping" THEN answered \cup {n} ELSE answered
         /\ ran' = IF cmds[i].kind = "env" THEN ran \cup {n} ELSE ran
    /\ UNCHANGED <<node, up, phase, deploying, blamed, late, fails, faults>>

AgentFails(n) ==
    /\ n \in up /\ fails < MaxFails
    /\ \E i \in DOMAIN cmds :
         /\ cmds[i].st[n] = "running"
         /\ cmds' = [cmds EXCEPT ![i].st[n] = "failed"]
    /\ fails' = fails + 1
    /\ blamed' = blamed \cup {n}
    /\ UNCHANGED <<node, up, phase, deploying, answered, ran, late, faults>>

\* The first agent that sees the deletion removes the finalizer they share.
AgentDrops(n) ==
    /\ n \in up
    /\ \E i \in DOMAIN cmds :
         /\ cmds[i].deleting /\ n \in cmds[i].sel
         /\ cmds' = RemoveAt(cmds, i)
    /\ UNCHANGED <<node, up, phase, deploying, history, fails, faults>>

\* The next second.
Tick ==
    /\ \E c \in Range(cmds) : c.fresh
    /\ cmds' = Aged(cmds)
    /\ UNCHANGED <<node, up, phase, deploying, history, fails, faults>>

\* A restart takes longer than a second.
Crash ==
    /\ phase.at # "idle" /\ faults < MaxFaults
    /\ faults' = faults + 1
    /\ phase' = Idle
    /\ cmds' = Aged(cmds)
    /\ UNCHANGED <<node, up, deploying, history, fails>>

-----------------------------------------------------------------------------

Manager ==
    \/ Reconcile \/ NothingToPush
    \/ \E F, D \in SUBSET Nodes : PushAgent(F, D)
    \/ PingAgent \/ PingResult \/ InitEnv \/ EnvResult \/ Preprocess
    \/ PreprocessResult \/ PostProcess \/ PostProcessResult \/ WaitFails

Agent(n) == AgentStarts(n) \/ AgentSucceeds(n) \/ AgentFails(n) \/ AgentDrops(n)

Next == Manager \/ (\E n \in Nodes : Agent(n) \/ Boots(n)) \/ Tick \/ Crash

Spec == Init /\ [][Next]_vars

\* An error is retried, and so is a reconcile that leaves nodes behind when the
\* cluster is queued again; agents that run do their work.
Fairness ==
    /\ WF_vars(Manager) /\ WF_vars(Tick)
    /\ \A n \in Nodes : WF_vars(Agent(n))
    /\ WF_vars(\E n \in Nodes : Boots(n))

FairSpec == Spec /\ Fairness

-----------------------------------------------------------------------------
(* Properties                                                              *)

\* The flags of a node are earned: NodeAgentReadyFlag by an answer to a ping,
\* NodeEnvFlag by an env command that succeeded on this node, whatever was
\* counted at a time-out or found in a Command that was left over or reused.
FlagsAreEarned ==
    \A n \in Nodes : /\ node[n].ready => n \in answered
                     /\ node[n].env => n \in ran

\* No master is ever given up, and a worker only for a failure of its own or
\* for a command that was not waited for: the failure of one node and the
\* retries it causes never cost another node its place.
SkipForCause ==
    \A n \in Nodes : node[n].skip => n \notin Masters /\ n \in blamed \cup late

\* Unless the manager crashes or gives a running command up, every node gets its
\* agent and its environment, and its scripts are run once it has joined, or it
\* is a worker that was given up.
NodesProvisioned ==
    <>(\/ faults > 0
       \/ \A n \in Nodes : node[n].skip \/ (node[n].env /\ node[n].post))
=============================================================================
