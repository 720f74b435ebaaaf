--------------------------- MODULE DependencyWalk ---------------------------
(***************************************************************************)
(* How the MSP registry walks the dependencies of an artifact              *)
(* (components/msp/crates/msp-registry/src/lib.rs): the trust evaluation   *)
(* of a skill or a pack (evaluate_dependency_trust and its pack form) and  *)
(* the resolution of a skill's dependencies (resolve_dependencies).  The   *)
(* recursion is a stack: a frame is an artifact being visited, and next is *)
(* the place of its loop over the dependencies.                            *)
(***************************************************************************)
EXTENDS TrustPolicy, Sequences

CONSTANTS
  Ids,         \* artifact ids, installed or not
  Registries,  \* the installed artifacts: functions from ids to manifests
  Policies,    \* the trust policies
  Modes        \* "trust" and "resolve"

ASSUME RegistryAssumption ==
  \A reg \in Registries :
    /\ DOMAIN reg \subseteq Ids
    /\ \A a \in DOMAIN reg : \A i \in DOMAIN reg[a].deps : reg[a].deps[i].id \in Ids
    /\ \A a \in DOMAIN reg : Len(reg[a].deps) \in Nat /\ DOMAIN reg[a].deps = 1..Len(reg[a].deps)
ASSUME ModeAssumption == Modes \subseteq {"trust", "resolve"}

VARIABLES
  registry, policy, mode, root,  \* what is asked, and of what
  phase,     \* "start", "walk", "done" or "error"
  stack,     \* the artifacts being visited, outermost first
  visiting,  \* the same as a set
  visited,   \* those visited to the end
  next,      \* the dependency each artifact's loop has come to
  nodes,     \* the edges judged, in order
  missing,   \* the required artifacts that are not installed
  cycles,    \* the cycles met
  verdict    \* whether the root is allowed

question == <<registry, policy, mode, root>>
walk     == <<stack, visiting, visited, next>>
vars     == <<question, phase, walk, nodes, missing, cycles, verdict>>

Installed == DOMAIN registry
Deps(a)   == registry[a].deps

Init ==
  /\ registry \in Registries /\ policy \in Policies /\ mode \in Modes
  /\ root \in {a \in DOMAIN registry : mode = "resolve" => registry[a].kind = "skill"}
  /\ phase = "start" /\ stack = <<>> /\ visiting = {} /\ visited = {}
  /\ next = [a \in Ids |-> 1]
  /\ nodes = <<>> /\ missing = {} /\ cycles = {} /\ verdict = FALSE

-----------------------------------------------------------------------------
(* One edge: evaluate_dependency_edge.                                     *)

\* Of an artifact that is neither skill nor pack nothing is known.
Artifact(e) == e.kind \in {"skill", "pack"}

IsInstalled(e) == Artifact(e) /\ e.id \in Installed /\ registry[e.id].kind = e.kind

\* dependency_resolved
Found(e) == ~Artifact(e) \/ IsInstalled(e)

Resolved(e) == IsInstalled(e) => VersionMatches(e, registry[e.id].version)

\* The edge's own demands on what it names.
Satisfied(e, m) ==
  /\ e.issuer \in {"any", m.issuer}
  /\ e.hash \in {"any", m.hash}
  /\ e.mustBeSigned => m.signed /\ Passes(m)

\* Faulty variant: the depth is not looked at, so a dependency may have its own.
EdgeAllowedDeep(e, depth) ==
  /\ e.required => Found(e)
  /\ IsInstalled(e) =>
       LET m == registry[e.id] IN
       /\ policy.verified => Allowed(policy, e.id, m)
       /\ VersionMatches(e, m.version)
       /\ Satisfied(e, m)

EdgeAllowed(e, depth) ==
  /\ e.required => Found(e)
  /\ IsInstalled(e) =>
       LET m == registry[e.id] IN
       /\ policy.verified => Allowed(policy, e.id, m)
       /\ VersionMatches(e, m.version)
       /\ ~policy.transitive /\ depth = 1 => m.deps = <<>>
       /\ Satisfied(e, m)

EdgeErrs(e) ==
  /\ mode = "trust" /\ IsInstalled(e)
  /\ LET m == registry[e.id] IN
     EvaluationErrs(policy, m) \/ (e.mustBeSigned /\ Unverifiable(m))

\* Whether the walk goes on into the artifact the edge names.
Follows(e) ==
  /\ IsInstalled(e) /\ Resolved(e)
  /\ mode = "trust" => policy.transitive
  /\ mode = "resolve" => e.kind = "skill"

-----------------------------------------------------------------------------
(* The walk: evaluate_dependency_trust_inner and resolve_dependencies_inner. *)

Top  == stack[Len(stack)]
Edge == Deps(Top)[next[Top]]
AtEdge == phase = "walk" /\ stack # <<>> /\ next[Top] <= Len(Deps(Top))

\* The edge's node is pushed, and its target if it is required and not installed.
Judge ==
  /\ AtEdge /\ ~EdgeErrs(Edge)
  /\ nodes' = Append(nodes,
       [parent   |-> Top, index |-> next[Top], depth |-> Len(stack), resolved |-> Found(Edge) /\ Resolved(Edge),
        allowed  |-> mode = "trust" => EdgeAllowed(Edge, Len(stack))])
  /\ missing' = IF Edge.required /\ ~Found(Edge) THEN missing \union {Edge.id} ELSE missing
  /\ next' = [next EXCEPT ![Top] = @ + 1]

Visit(a) ==
  /\ stack'    = Append(stack, a)
  /\ visiting' = visiting \union {a}

\* The root is judged and entered.
Begin ==
  /\ phase = "start"
  /\ mode = "trust" => ~EvaluationErrs(policy, registry[root])
  /\ phase' = "walk"
  /\ verdict' = (mode = "trust" => Allowed(policy, root, registry[root]))
  /\ Visit(root)
  /\ UNCHANGED <<question, visited, next, nodes, missing, cycles>>

\* The edge leads nowhere, or to where the walk has been.
Pass ==
  /\ Judge
  /\ Follows(Edge) => Edge.id \in visited
  /\ UNCHANGED <<question, phase, stack, visiting, visited, cycles, verdict>>

\* The edge leads to an artifact that is not visited yet.
Descend ==
  /\ Judge
  /\ Follows(Edge) /\ Edge.id \notin visited \union visiting
  /\ Visit(Edge.id)
  /\ UNCHANGED <<question, phase, visited, cycles, verdict>>

\* Where on the stack the artifact is.
Start(a) == CHOOSE i \in 1..Len(stack) : stack[i] = a /\ \A j \in 1..(i - 1) : stack[j] # a

\* Faulty variant: an artifact being visited is taken for a visited one.
CloseNothing ==
  /\ Judge
  /\ Follows(Edge) /\ Edge.id \in visiting \ visited
  /\ UNCHANGED <<question, phase, stack, visiting, visited, cycles, verdict>>

\* Faulty variant: an artifact being visited is waited for.
CloseLater ==
  /\ Judge
  /\ Follows(Edge) /\ Edge.id \in visiting \intersect visited
  /\ UNCHANGED <<question, phase, stack, visiting, visited, cycles, verdict>>

\* The edge leads back to an artifact being visited.
Close ==
  /\ Judge
  /\ Follows(Edge) /\ Edge.id \in visiting \ visited
  /\ cycles' = cycles \union {SubSeq(stack, Start(Edge.id), Len(stack))}
  /\ UNCHANGED <<question, phase, stack, visiting, visited, verdict>>

\* The loop of the innermost artifact is over.
AtEnd == phase = "walk" /\ stack # <<>> /\ next[Top] > Len(Deps(Top))
Pop   == stack' = SubSeq(stack, 1, Len(stack) - 1)

\* Faulty variant: the artifact stays in visiting.
LeaveVisiting ==
  /\ AtEnd /\ Pop
  /\ visited'  = visited \union {Top}
  /\ UNCHANGED <<question, phase, visiting, next, nodes, missing, cycles, verdict>>

\* Faulty variant: the artifact is forgotten.
LeaveUnvisited ==
  /\ AtEnd /\ Pop
  /\ visiting' = visiting \ {Top}
  /\ next'     = [next EXCEPT ![Top] = 1]
  /\ UNCHANGED <<question, phase, visited, nodes, missing, cycles, verdict>>

Leave ==
  /\ AtEnd /\ Pop
  /\ visiting' = visiting \ {Top}
  /\ visited'  = visited \union {Top}
  /\ UNCHANGED <<question, phase, next, nodes, missing, cycles, verdict>>

\* The error of an evaluation ends the walk.
Fail ==
  /\ \/ phase = "start" /\ mode = "trust" /\ EvaluationErrs(policy, registry[root])
     \/ AtEdge /\ EdgeErrs(Edge)
  /\ phase' = "error"
  /\ UNCHANGED <<question, walk, nodes, missing, cycles, verdict>>

\* finalize_dependency_trust_result; resolve_dependencies has no verdict to give.
Finalize ==
  /\ phase = "walk" /\ stack = <<>>
  /\ phase' = "done"
  /\ verdict' = /\ verdict
                /\ mode = "trust" =>
                     /\ policy.acyclic => cycles = {}
                     /\ ~policy.transitive => \A i \in 1..Len(nodes) : nodes[i].depth <= 1
                     /\ missing = {}
                     /\ \A i \in 1..Len(nodes) : nodes[i].allowed
  /\ UNCHANGED <<question, walk, nodes, missing, cycles>>

Next == Begin \/ Pass \/ Descend \/ Close \/ Leave \/ Fail \/ Finalize

Safety == Init /\ [][Next]_vars
Spec   == Safety /\ WF_vars(Next)

-----------------------------------------------------------------------------
(* What the walk should find, said without a walk.                         *)

\* The artifacts that a leads to.
Leads(a, b) == \E i \in 1..Len(Deps(a)) : Deps(a)[i].id = b /\ Follows(Deps(a)[i])

ClosedUnder(S) == \A a \in S : \A b \in Installed : Leads(a, b) => b \in S

Reachable == {a \in Installed : \A S \in SUBSET Installed : root \in S /\ ClosedUnder(S) => a \in S}

\* There is a cycle among the artifacts of S.
Cyclic(S) == \E C \in SUBSET S : C # {} /\ \A a \in C : \E b \in C : Leads(a, b)

\* The verdict of the whole graph.
Clean ==
  /\ Allowed(policy, root, registry[root])
  /\ \A a \in Reachable : \A i \in 1..Len(Deps(a)) : EdgeAllowed(Deps(a)[i], 2)
  /\ ~policy.transitive =>
       \A i \in 1..Len(Deps(root)) :
         IsInstalled(Deps(root)[i]) => Deps(Deps(root)[i].id) = <<>>
  /\ policy.acyclic => ~Cyclic(Reachable)

-----------------------------------------------------------------------------
Nodes == [parent : Ids, index : Nat \ {0}, depth : Nat \ {0}, resolved : BOOLEAN, allowed : BOOLEAN]

TypeOK ==
  /\ root \in Installed /\ phase \in {"start", "walk", "done", "error"}
  /\ stack \in Seq(Installed) /\ visited \subseteq Installed
  /\ visiting = {stack[i] : i \in 1..Len(stack)}
  /\ next \in [Ids -> Nat \ {0}]
  /\ nodes \in Seq(Nodes)
  /\ missing \subseteq Ids
  /\ cycles \subseteq Seq(Installed)
  /\ verdict \in BOOLEAN

NodesOf(a, i) == {k \in 1..Len(nodes) : nodes[k].parent = a /\ nodes[k].index = i}

\* When the walk has ended every dependency of every artifact that the root leads
\* to has been judged, and nothing twice, however the graph loops and joins.
EveryEdgeJudged ==
  phase = "done" =>
    /\ \A a \in Reachable : \A i \in 1..Len(Deps(a)) : NodesOf(a, i) # {}
    /\ \A j, k \in 1..Len(nodes) :
         nodes[j].parent = nodes[k].parent /\ nodes[j].index = nodes[k].index => j = k

\* A reported cycle is one: each artifact leads to the next and the last to the first.
CyclesAreReal ==
  \A c \in cycles :
    /\ c # <<>> /\ Leads(c[Len(c)], c[1])
    /\ \A i \in 1..Len(c) - 1 : Leads(c[i], c[i + 1])

\* No cycle is missed: when none is reported what the root leads to has none.
NoCycleMissed == phase = "done" /\ cycles = {} => ~Cyclic(Reachable)

\* Cycles are reported if and only if there are any, and only real ones.
CyclesAreExact == CyclesAreReal /\ NoCycleMissed

\* The verdict of the walk is that of the graph: the order of the dependencies and
\* what was already visited make no difference.
VerdictIsExact == phase = "done" /\ mode = "trust" => (verdict <=> Clean)

\* Every walk ends.
WalkEnds == <>(phase \in {"done", "error"})
=============================================================================
