----------------------------- MODULE UpgradePath ----------------------------
(***************************************************************************)
(* The graph of upgrade rules (pkg/upgradepath): which sets of rules are   *)
(* loaded, and the path FindPath takes through them.  A version is a       *)
(* number, which stands for its rank in the order of semantic versions.    *)
(***************************************************************************)
EXTENDS Naturals, FiniteSets, Sequences

Rule(a, b, blocked) == [from |-> a, to |-> b, blocked |-> blocked]

RuleVersions(R) == {r.from : r \in R} \cup {r.to : r \in R}

\* ValidateRules: no rule leads to its own version, and none is there twice.
ValidRules(R) ==
    /\ \A r \in R : r.from # r.to
    /\ \A r, s \in R : r.from = s.from /\ r.to = s.to => r = s

(***************************************************************************)
(* DetectCycle, which counts the blocked rules too.  There is a cycle iff  *)
(* there are versions each of which is the target of a rule from another   *)
(* of them.                                                                *)
(***************************************************************************)
Acyclic(R) ==
    \A T \in SUBSET RuleVersions(R) :
        T # {} => \E w \in T : \A r \in R : r.to = w => r.from \notin T

Loads(R) == ValidRules(R) /\ Acyclic(R)

Last(path) == path[Len(path)]

Smallest(S) == CHOOSE v \in S : \A w \in S : v <= w

\* mutant: blocked rules are followed
FollowsBlocked(r, visited) == r.to \notin visited

\* An edge the search follows.
Follows(r, visited) == ~r.blocked /\ r.to \notin visited

\* Where the search can go on to from the end of a path.
Onward(R, path, visited) ==
    {r.to : r \in {e \in R : e.from = Last(path) /\ Follows(e, visited)}}

(***************************************************************************)
(* One turn of the inner loop of the search.  The two levels of the code   *)
(* are one queue: the paths of the level that are not done yet, then those *)
(* of the next.  The first path is extended along the next of its edges,   *)
(* which are sorted by version, or it is done.                             *)
(***************************************************************************)
Turn(R, st) ==
    IF st.queue = <<>>
    THEN st
    ELSE LET path == Head(st.queue)
             out  == Onward(R, path, st.visited)
             next == Append(path, Smallest(out))
         IN  IF out = {}
             THEN [st EXCEPT !.queue = Tail(@)]
             ELSE [visited |-> st.visited \cup {Smallest(out)},
                   queue   |-> Append(st.queue, next),
                   found   |-> st.found \cup {next}]

NoPath == <<>>

(***************************************************************************)
(* FindPath: the versions along the path, the first one included, or       *)
(* NoPath.  Each version is appended to the queue and taken from it once,  *)
(* so that the search has ended after two turns for each.                  *)
(***************************************************************************)
FindPath(R, from, to) ==
    LET V == RuleVersions(R)
        Search[k \in Nat] ==
            IF k = 0
            THEN [visited |-> {from}, queue |-> << <<from>> >>,
                  found |-> {<<from>>}]
            ELSE Turn(R, Search[k - 1])
        ways == {p \in Search[2 * Cardinality(V)].found : Last(p) = to}
    IN  IF from # to /\ {from, to} \subseteq V /\ ways # {}
        THEN CHOOSE p \in ways : TRUE ELSE NoPath

(***************************************************************************)
(* What a path is, without a search: the reference the search is checked   *)
(* against.                                                                *)
(***************************************************************************)
IsPath(R, p, from, to) ==
    /\ Len(p) > 1 /\ p[1] = from /\ Last(p) = to
    /\ \A i \in 1..(Len(p) - 1) : Rule(p[i], p[i + 1], FALSE) \in R

Reachable(R, from, to) ==
    \E n \in 2..Cardinality(RuleVersions(R)) :
        \E p \in [1..n -> RuleVersions(R)] : IsPath(R, p, from, to)

\* p is a path, and none is shorter.
IsShortest(R, p, from, to) ==
    /\ IsPath(R, p, from, to)
    /\ \A n \in 2..(Len(p) - 1) :
          \A q \in [1..n -> RuleVersions(R)] : ~IsPath(R, q, from, to)
=============================================================================
