------------------------ MODULE DependencyWalk_proofs ------------------------
(***************************************************************************)
(* Theorems about DependencyWalk, for every set of registries and of       *)
(* policies.                                                               *)
(***************************************************************************)
EXTENDS DependencyWalk, SequenceTheorems, TLAPS

\* What was asked is a question the model allows.
Asked == registry \in Registries /\ mode \in {"trust", "resolve"}

Met == visiting \union visited

\* An artifact is on the stack or visited, and met in one way.
Frames ==
  /\ \A i, j \in 1..Len(stack) : stack[i] = stack[j] => i = j
  /\ visiting \intersect visited = {}
  /\ phase = "start" => stack = <<>> /\ visited = {} /\ nodes = <<>> /\ cycles = {} /\ missing = {}
  /\ phase \in {"walk", "done"} => root \in Met
  /\ phase = "done" => stack = <<>>

\* How far each loop has come.
Loops ==
  /\ \A a \in Installed : next[a] <= Len(Deps(a)) + 1
  /\ \A a \in visited : next[a] = Len(Deps(a)) + 1
  /\ \A a \in Installed \ Met : next[a] = 1

Inv == Asked /\ TypeOK /\ Frames /\ Loops

-------------------------------------------------------------------------------
(* The question does not change. *)

LEMMA DepsOf ==
  ASSUME Asked, NEW a \in Installed
  PROVE  /\ Len(Deps(a)) \in Nat /\ DOMAIN Deps(a) = 1..Len(Deps(a))
         /\ a \in Ids /\ \A i \in 1..Len(Deps(a)) : Deps(a)[i].id \in Ids
BY RegistryAssumption DEF Asked, Installed, Deps

LEMMA Frozen ==
  ASSUME UNCHANGED question
  PROVE  /\ Installed' = Installed
         /\ \A a : Deps(a)' = Deps(a)
         /\ \A e : Follows(e)' <=> Follows(e)
         /\ \A a, b : Leads(a, b)' <=> Leads(a, b)
         /\ \A e : Found(e)' <=> Found(e)
         /\ \A e, n : EdgeAllowed(e, n)' <=> EdgeAllowed(e, n)
<1>1. Installed' = Installed /\ \A a : Deps(a)' = Deps(a)
  BY DEF question, Installed, Deps
<1>2. \A e : IsInstalled(e)' <=> IsInstalled(e)
  BY <1>1 DEF question, IsInstalled
<1>3. \A e : Follows(e)' <=> Follows(e)
  BY <1>2 DEF question, Follows, Resolved
<1>4. \A a, b : Leads(a, b)' <=> Leads(a, b)
  BY <1>1, <1>3 DEF Leads
<1>5. \A e : Found(e)' <=> Found(e)
  BY <1>2 DEF Found
<1>6. \A e, n : EdgeAllowed(e, n)' <=> EdgeAllowed(e, n)
  BY <1>2, <1>5 DEF question, EdgeAllowed
<1> QED
  BY <1>1, <1>3, <1>4, <1>5, <1>6

LEMMA QuestionKept ==
  ASSUME [Next]_vars
  PROVE  UNCHANGED question
BY DEF Next, vars, Begin, Pass, Descend, Close, Leave, Fail, Finalize

LEMMA FollowsInstalled ==
  ASSUME NEW e, Follows(e)
  PROVE  e.id \in Installed
BY DEF Follows, IsInstalled

-------------------------------------------------------------------------------
(* One step of the walk. *)

\* The innermost artifact and the edge its loop is at.
LEMMA AtEdgeFacts ==
  ASSUME Inv, AtEdge
  PROVE  /\ Len(stack) \in Nat \ {0} /\ Top \in Installed /\ Top \in visiting /\ Top \notin visited
         /\ next[Top] \in 1..Len(Deps(Top)) /\ Edge.id \in Ids /\ Top \in Ids
<1>1. Len(stack) \in Nat \ {0} /\ Top \in Installed
  BY DEF Inv, TypeOK, AtEdge, Top
<1>2. Top \in visiting
  BY <1>1 DEF Inv, TypeOK, Top
<1>3. next[Top] \in 1..Len(Deps(Top))
  BY <1>1, DepsOf DEF Inv, TypeOK, AtEdge
<1> QED
  BY <1>1, <1>2, <1>3, DepsOf DEF Inv, Frames, Edge

\* What Judge writes.
LEMMA JudgeFacts ==
  ASSUME Inv, Judge
  PROVE  /\ nodes' \in Seq(Nodes) /\ Len(nodes) \in Nat /\ Len(nodes') = Len(nodes) + 1
         /\ \A k \in 1..Len(nodes) : nodes'[k] = nodes[k]
         /\ nodes'[Len(nodes) + 1].parent = Top
         /\ nodes'[Len(nodes) + 1].index = next[Top]
         /\ nodes'[Len(nodes) + 1].depth = Len(stack)
         /\ nodes'[Len(nodes) + 1].allowed <=> (mode = "trust" => EdgeAllowed(Edge, Len(stack)))
         /\ next' = [next EXCEPT ![Top] = next[Top] + 1]
         /\ next' \in [Ids -> Nat \ {0}] /\ missing' \subseteq Ids
<1> DEFINE node == [parent |-> Top, index |-> next[Top], depth |-> Len(stack),
                    resolved |-> Found(Edge) /\ Resolved(Edge),
                    allowed |-> mode = "trust" => EdgeAllowed(Edge, Len(stack))]
<1>1. /\ Len(stack) \in Nat \ {0} /\ Top \in Ids /\ next[Top] \in Nat \ {0} /\ Edge.id \in Ids
  BY AtEdgeFacts, DepsOf DEF Judge, Inv, TypeOK
<1>2. node \in Nodes
  BY <1>1 DEF Nodes
<1>3. nodes \in Seq(Nodes) /\ nodes' = Append(nodes, node)
  BY DEF Inv, TypeOK, Judge
<1>4. /\ nodes' \in Seq(Nodes) /\ Len(nodes) \in Nat /\ Len(nodes') = Len(nodes) + 1
      /\ \A k \in 1..Len(nodes) : nodes'[k] = nodes[k]
      /\ nodes'[Len(nodes) + 1] = node
  <2> HIDE DEF node
  <2> QED BY <1>2, <1>3
<1>7. node.parent = Top /\ node.index = next[Top] /\ node.depth = Len(stack)
  OBVIOUS
<1>8. node.allowed <=> (mode = "trust" => EdgeAllowed(Edge, Len(stack)))
  BY Zenon
<1>9. nodes'[Len(nodes) + 1].allowed <=> (mode = "trust" => EdgeAllowed(Edge, Len(stack)))
  <2> HIDE DEF node
  <2> QED BY <1>4, <1>8, Zenon
<1>5. next' = [next EXCEPT ![Top] = next[Top] + 1] /\ next' \in [Ids -> Nat \ {0}]
  BY <1>1 DEF Judge, Inv, TypeOK
<1>6. missing' \subseteq Ids
  BY <1>1 DEF Judge, Inv, TypeOK
<1>10. nodes'[Len(nodes) + 1].parent = Top /\ nodes'[Len(nodes) + 1].index = next[Top]
       /\ nodes'[Len(nodes) + 1].depth = Len(stack)
  <2> HIDE DEF node
  <2> QED BY <1>4, <1>7
<1> HIDE DEF node
<1> QED
  BY <1>4, <1>5, <1>6, <1>9, <1>10, Zenon

\* What entering an artifact does to the stack.
LEMMA VisitFacts ==
  ASSUME Inv, NEW a \in Installed, a \notin Met, Visit(a)
  PROVE  /\ stack' \in Seq(Installed) /\ Len(stack) \in Nat /\ Len(stack') = Len(stack) + 1
         /\ \A i \in 1..Len(stack) : stack'[i] = stack[i] /\ stack[i] \in visiting
         /\ stack'[Len(stack) + 1] = a
         /\ visiting' = visiting \union {a}
         /\ visiting' = {stack'[i] : i \in 1..Len(stack')}
         /\ \A i, j \in 1..Len(stack') : stack'[i] = stack'[j] => i = j
<1>1. stack \in Seq(Installed) /\ visiting = {stack[i] : i \in 1..Len(stack)}
  BY DEF Inv, TypeOK
<1>2. /\ stack' \in Seq(Installed) /\ Len(stack) \in Nat /\ Len(stack') = Len(stack) + 1
      /\ \A i \in 1..Len(stack) : stack'[i] = stack[i]
      /\ stack'[Len(stack) + 1] = a
  BY <1>1 DEF Visit
<1>3. \A i \in 1..Len(stack) : stack[i] \in visiting
  BY <1>1
<1>4. visiting' = visiting \union {a} /\ a \notin visiting
  BY DEF Visit, Met
<1>5. visiting' = {stack'[i] : i \in 1..Len(stack')}
  <2>1. \A x \in visiting' : \E i \in 1..Len(stack') : x = stack'[i]
    BY <1>1, <1>2, <1>4
  <2>2. \A i \in 1..Len(stack') : stack'[i] \in visiting'
    <3> TAKE i \in 1..Len(stack')
    <3>1. i \in 1..Len(stack) \/ i = Len(stack) + 1
      BY <1>2
    <3> QED
      BY <3>1, <1>2, <1>3, <1>4
  <2> QED
    BY <2>1, <2>2
<1>6. \A i, j \in 1..Len(stack') : stack'[i] = stack'[j] => i = j
  <2> TAKE i, j \in 1..Len(stack')
  <2>1. (i \in 1..Len(stack) \/ i = Len(stack) + 1) /\ (j \in 1..Len(stack) \/ j = Len(stack) + 1)
    BY <1>2
  <2> QED
    BY <2>1, <1>2, <1>3, <1>4 DEF Inv, Frames
<1> QED
  BY <1>2, <1>3, <1>4, <1>5, <1>6

\* What leaving the innermost artifact does to the stack.
LEMMA LeaveFacts ==
  ASSUME Inv, Leave
  PROVE  /\ Len(stack) \in Nat \ {0} /\ Top = stack[Len(stack)] /\ Top \in Installed
         /\ Top \in visiting /\ Top \notin visited /\ next[Top] = Len(Deps(Top)) + 1
         /\ stack' \in Seq(Installed) /\ Len(stack') = Len(stack) - 1
         /\ \A i \in 1..Len(stack') : stack'[i] = stack[i]
         /\ visiting' = visiting \ {Top} /\ visited' = visited \union {Top}
         /\ visiting' = {stack'[i] : i \in 1..Len(stack')}
<1>1. stack \in Seq(Installed) /\ visiting = {stack[i] : i \in 1..Len(stack)}
  BY DEF Inv, TypeOK
<1>2. Len(stack) \in Nat \ {0} /\ Top = stack[Len(stack)] /\ Top \in Installed /\ Top \in visiting
  BY <1>1 DEF Leave, AtEnd, Top
<1>3. Top \notin visited
  BY <1>2 DEF Inv, Frames
<1>4. next[Top] = Len(Deps(Top)) + 1
  <2>1. /\ next[Top] > Len(Deps(Top)) /\ next[Top] <= Len(Deps(Top)) + 1
        /\ Len(Deps(Top)) \in Nat /\ Top \in Ids
    BY <1>2, DepsOf DEF Leave, AtEnd, Inv, Loops
  <2> QED
    BY <2>1 DEF Inv, TypeOK
<1>5. /\ stack' \in Seq(Installed) /\ Len(stack') = Len(stack) - 1
      /\ \A i \in 1..Len(stack') : stack'[i] = stack[i]
  <2>1. stack' = SubSeq(stack, 1, Len(stack) - 1) /\ Len(stack) - 1 \in Nat
    BY <1>2 DEF Leave, Pop
  <2>2. \A i \in 1..(Len(stack) - 1) : stack[i] \in Installed
    BY <1>1, <1>2
  <2>3. ASSUME NEW n \in Nat, \A i \in 1..n : stack[i] \in Installed
        PROVE  /\ SubSeq(stack, 1, n) \in Seq(Installed)
               /\ Len(SubSeq(stack, 1, n)) = IF 1 <= n THEN n - 1 + 1 ELSE 0
               /\ \A i \in 1..(n - 1 + 1) : SubSeq(stack, 1, n)[i] = stack[1 + i - 1]
    BY <2>3, SubSeqProperties
  <2>4. ASSUME NEW n \in Nat, \A i \in 1..n : stack[i] \in Installed
        PROVE  /\ SubSeq(stack, 1, n) \in Seq(Installed) /\ Len(SubSeq(stack, 1, n)) = n
               /\ \A i \in 1..n : SubSeq(stack, 1, n)[i] = stack[i]
    BY <2>3, <2>4
  <2> QED
    BY <2>1, <2>2, <2>4
<1>6. visiting' = visiting \ {Top} /\ visited' = visited \union {Top}
  BY DEF Leave
<1>7. visiting' = {stack'[i] : i \in 1..Len(stack')}
  <2>1. \A x \in visiting' : \E i \in 1..Len(stack') : x = stack'[i]
    <3> TAKE x \in visiting'
    <3>1. PICK i \in 1..Len(stack) : x = stack[i]
      BY <1>1, <1>6
    <3>2. i # Len(stack)
      BY <3>1, <1>2, <1>6
    <3> QED
      BY <3>1, <3>2, <1>2, <1>5
  <2>2. \A i \in 1..Len(stack') : stack'[i] \in visiting'
    <3> TAKE i \in 1..Len(stack')
    <3>1. i \in 1..Len(stack) /\ i # Len(stack) /\ Len(stack) \in 1..Len(stack)
      BY <1>2, <1>5
    <3>2. stack[i] # Top /\ stack[i] \in visiting
      BY <3>1, <1>1, <1>2 DEF Inv, Frames
    <3> QED
      BY <3>2, <1>5, <1>6
  <2> QED
    BY <2>1, <2>2
<1> QED
  BY <1>2, <1>3, <1>4, <1>5, <1>6, <1>7

-------------------------------------------------------------------------------
(* Typing *)

LEMMA InitInv ==
  ASSUME Init
  PROVE  Inv
<1>1. Asked /\ root \in Installed
  BY ModeAssumption DEF Init, Asked, Installed
<1>2. \A a \in Installed : a \in Ids /\ Len(Deps(a)) \in Nat
  BY <1>1, DepsOf
<1>3. TypeOK
  <2>1. stack = <<>> /\ Len(stack) = 0 /\ visiting = {} /\ {stack[i] : i \in 1..0} = {}
    BY DEF Init
  <2>2. stack \in Seq(Installed) /\ nodes \in Seq(Nodes)
    BY DEF Init
  <2>3. visiting = {stack[i] : i \in 1..Len(stack)}
    BY <2>1
  <2>4. next \in [Ids -> Nat \ {0}]
    BY DEF Init
  <2> QED
    BY <1>1, <2>2, <2>3, <2>4 DEF Init, TypeOK
<1>4. Frames /\ Loops
  BY <1>2 DEF Init, Frames, Loops, Met
<1> QED
  BY <1>1, <1>3, <1>4 DEF Inv

\* Where a reported cycle begins.
LEMMA StartFacts ==
  ASSUME Inv, NEW a \in visiting
  PROVE  Start(a) \in 1..Len(stack) /\ stack[Start(a)] = a
<1>1. PICK i \in 1..Len(stack) : stack[i] = a
  BY DEF Inv, TypeOK
<1>2. \A j \in 1..(i - 1) : stack[j] # a
  <2> TAKE j \in 1..(i - 1)
  <2>1. j \in 1..Len(stack) /\ j # i
    BY DEF Inv, TypeOK
  <2> QED
    BY <2>1, <1>1 DEF Inv, Frames
<1> QED
  BY <1>1, <1>2 DEF Start

LEMMA CloseFacts ==
  ASSUME Inv, Close
  PROVE  LET s == Start(Edge.id)
             c == SubSeq(stack, s, Len(stack))
         IN  /\ cycles' = cycles \union {c}
             /\ Edge.id \in Installed /\ Edge.id \in visiting /\ Follows(Edge)
             /\ s \in 1..Len(stack) /\ stack[s] = Edge.id
             /\ c \in Seq(Installed) /\ Len(c) = Len(stack) - s + 1
             /\ \A i \in 1..Len(c) : c[i] = stack[s + i - 1]
<1>1. Edge.id \in Installed /\ Edge.id \in visiting /\ Follows(Edge)
  BY FollowsInstalled DEF Close
<1>2. Start(Edge.id) \in 1..Len(stack) /\ stack[Start(Edge.id)] = Edge.id
  BY <1>1, StartFacts
<1>3. stack \in Seq(Installed)
  BY DEF Inv, TypeOK
<1>4. cycles' = cycles \union {SubSeq(stack, Start(Edge.id), Len(stack))}
  BY DEF Close
<1>5. ASSUME NEW s \in 1..Len(stack)
      PROVE  /\ SubSeq(stack, s, Len(stack)) \in Seq(Installed)
             /\ Len(SubSeq(stack, s, Len(stack))) = Len(stack) - s + 1
             /\ \A i \in 1..(Len(stack) - s + 1) : SubSeq(stack, s, Len(stack))[i] = stack[s + i - 1]
  BY <1>3
<1> QED
  BY <1>1, <1>2, <1>4, <1>5

\* Nothing that Inv says depends on a step that only ends the walk.
LEMMA EndStep ==
  ASSUME Inv, UNCHANGED <<question, walk, nodes, missing, cycles>>, verdict' \in BOOLEAN,
         \/ phase' = "error"
         \/ phase' = "done" /\ phase = "walk" /\ stack = <<>>
         \/ phase' = phase
  PROVE  Inv'
<1>1. Installed' = Installed /\ Asked' /\ \A a : Deps(a)' = Deps(a)
  BY Frozen DEF Inv, Asked, question
<1>2. root' = root /\ stack' = stack /\ visiting' = visiting /\ visited' = visited /\ next' = next
  BY DEF question, walk
<1>3. nodes' = nodes /\ missing' = missing /\ cycles' = cycles
  OBVIOUS
<1>4. TypeOK'
  BY <1>1, <1>2, <1>3 DEF Inv, TypeOK
<1>5. Frames'
  BY <1>2, <1>3 DEF Inv, Frames, Met
<1>6. Loops'
  BY <1>1, <1>2 DEF Inv, Loops, Met
<1> QED
  BY <1>1, <1>4, <1>5, <1>6 DEF Inv

\* An edge that leads nowhere new.
LEMMA StayStep ==
  ASSUME Inv, Judge, UNCHANGED <<question, phase, stack, visiting, visited, verdict>>,
         cycles' \subseteq Seq(Installed)
  PROVE  Inv'
<1>1. Installed' = Installed /\ Asked' /\ \A a : Deps(a)' = Deps(a)
  BY Frozen DEF Inv, Asked, question
<1>2. root' = root /\ stack' = stack /\ visiting' = visiting /\ visited' = visited /\ phase' = "walk"
  BY DEF question, Judge, AtEdge
<1>3. TypeOK'
  BY <1>1, <1>2, JudgeFacts DEF Inv, TypeOK
<1>4. Frames'
  BY <1>2 DEF Inv, Frames, Met, Judge, AtEdge
<1>5. Loops'
  <2>1. Top \in visiting /\ Top \notin visited /\ next[Top] \in 1..Len(Deps(Top)) /\ Top \in Ids
    BY AtEdgeFacts DEF Judge
  <2>2. next' = [next EXCEPT ![Top] = next[Top] + 1] /\ next \in [Ids -> Nat \ {0}]
    BY JudgeFacts DEF Inv, TypeOK
  <2>3. \A a \in Installed : Len(Deps(a)) \in Nat /\ a \in Ids
    BY DepsOf DEF Inv
  <2>4. \A a \in Installed : next'[a] <= Len(Deps(a)) + 1
    BY <2>1, <2>2, <2>3 DEF Inv, Loops
  <2>5. \A a \in visited : next'[a] = Len(Deps(a)) + 1
    BY <2>1, <2>2, <2>3 DEF Inv, Loops, TypeOK
  <2>6. \A a \in Installed \ Met : next'[a] = 1
    BY <2>1, <2>2, <2>3 DEF Inv, Loops, Met
  <2> QED
    BY <1>1, <1>2, <2>4, <2>5, <2>6 DEF Loops, Met
<1> QED
  BY <1>1, <1>3, <1>4, <1>5 DEF Inv

LEMMA BeginInv ==
  ASSUME Inv, Begin
  PROVE  Inv'
<1>1. Installed' = Installed /\ Asked' /\ \A a : Deps(a)' = Deps(a)
  BY Frozen DEF Begin, Inv, Asked, question
<1>2. /\ root \in Installed /\ root \notin Met /\ Visit(root) /\ root' = root
      /\ phase' = "walk" /\ visited' = visited /\ next' = next /\ visited = {}
      /\ nodes' = nodes /\ missing' = missing /\ cycles' = cycles /\ verdict' \in BOOLEAN
  <2>1. stack = <<>> /\ visited = {} /\ visiting = {}
    BY DEF Inv, Frames, Begin, TypeOK
  <2> QED
    BY <2>1 DEF Begin, Inv, TypeOK, Met, question
<1>3. TypeOK'
  BY <1>1, <1>2, VisitFacts DEF Inv, TypeOK
<1>4. Frames'
  BY <1>2, VisitFacts DEF Frames, Met
<1>5. Loops'
  BY <1>1, <1>2, VisitFacts DEF Inv, Loops, Met
<1> QED
  BY <1>1, <1>3, <1>4, <1>5 DEF Inv

LEMMA DescendInv ==
  ASSUME Inv, Descend
  PROVE  Inv'
<1> DEFINE a == Edge.id
<1>1. Installed' = Installed /\ Asked' /\ \A b : Deps(b)' = Deps(b)
  BY Frozen DEF Descend, Inv, Asked, question
<1>2. /\ a \in Installed /\ a \notin Met /\ Visit(a) /\ root' = root /\ Judge
      /\ phase = "walk" /\ phase' = "walk" /\ visited' = visited /\ cycles' = cycles /\ verdict' = verdict
  BY FollowsInstalled DEF Descend, Judge, AtEdge, Met, question
<1> HIDE DEF a
<1>3. TypeOK'
  BY <1>1, <1>2, VisitFacts, JudgeFacts DEF Inv, TypeOK
<1>4. Frames'
  BY <1>2, VisitFacts DEF Inv, Frames, Met
<1>5. Loops'
  <2>1. Top \in visiting /\ Top \notin visited /\ next[Top] \in 1..Len(Deps(Top)) /\ Top \in Ids
    BY <1>2, AtEdgeFacts DEF Judge
  <2>2. next' = [next EXCEPT ![Top] = next[Top] + 1] /\ next \in [Ids -> Nat \ {0}]
    BY <1>2, JudgeFacts DEF Inv, TypeOK
  <2>3. \A b \in Installed : Len(Deps(b)) \in Nat /\ b \in Ids
    BY DepsOf DEF Inv
  <2>4. \A b \in Installed : next'[b] <= Len(Deps(b)) + 1
    BY <2>1, <2>2, <2>3 DEF Inv, Loops
  <2>5. \A b \in visited : next'[b] = Len(Deps(b)) + 1
    BY <2>1, <2>2, <2>3 DEF Inv, Loops, TypeOK
  <2>6. \A b \in Installed \ Met : next'[b] = 1
    BY <2>1, <2>2, <2>3 DEF Inv, Loops, Met
  <2>7. visiting' = visiting \union {a}
    BY <1>2, VisitFacts
  <2> QED
    BY <1>1, <1>2, <2>4, <2>5, <2>6, <2>7 DEF Loops, Met
<1> QED
  BY <1>1, <1>3, <1>4, <1>5 DEF Inv

LEMMA LeaveInv ==
  ASSUME Inv, Leave
  PROVE  Inv'
<1>1. Installed' = Installed /\ Asked' /\ \A b : Deps(b)' = Deps(b)
  BY Frozen DEF Leave, Inv, Asked, question
<1>2. /\ root' = root /\ phase = "walk" /\ phase' = "walk" /\ next' = next
      /\ nodes' = nodes /\ missing' = missing /\ cycles' = cycles /\ verdict' = verdict
  BY DEF Leave, AtEnd, question
<1>3. TypeOK'
  BY <1>1, <1>2, LeaveFacts DEF Inv, TypeOK
<1>4. Frames'
  <2>1. \A i, j \in 1..Len(stack') : stack'[i] = stack'[j] => i = j
    BY LeaveFacts DEF Inv, Frames
  <2>2. visiting' \intersect visited' = {} /\ root' \in Met'
    BY <1>2, LeaveFacts DEF Inv, Frames, Met
  <2> QED
    BY <1>2, <2>1, <2>2 DEF Frames
<1>5. Loops'
  BY <1>1, <1>2, LeaveFacts DEF Inv, Loops, Met
<1> QED
  BY <1>1, <1>3, <1>4, <1>5 DEF Inv

LEMMA StepInv ==
  ASSUME Inv, [Next]_vars
  PROVE  Inv'
<1>1. CASE Pass
  BY <1>1, StayStep DEF Pass, Inv, TypeOK
<1>2. CASE Close
  BY <1>2, StayStep, CloseFacts DEF Close, Inv, TypeOK
<1>3. CASE Fail
  BY <1>3, EndStep DEF Fail, Inv, TypeOK
<1>4. CASE Finalize
  <2>1. verdict' \in BOOLEAN
    BY <1>4 DEF Finalize
  <2> QED
    BY <1>4, <2>1, EndStep DEF Finalize
<1>5. CASE UNCHANGED vars
  BY <1>5, EndStep DEF vars, Inv, TypeOK
<1> QED
  BY <1>1, <1>2, <1>3, <1>4, <1>5, BeginInv, DescendInv, LeaveInv DEF Next

\* Every state has the types of TypeOK.
THEOREM Typing == Safety => []TypeOK
<1>1. Inv /\ [Next]_vars => Inv'
  BY StepInv
<1>2. Inv => TypeOK
  BY DEF Inv
<1> QED
  BY <1>1, <1>2, InitInv, PTL DEF Safety

-------------------------------------------------------------------------------
(* What is met is what the root leads to. *)

LEMMA ReachRoot ==
  ASSUME root \in Installed
  PROVE  root \in Reachable
BY DEF Reachable

LEMMA ReachStep ==
  ASSUME NEW a \in Reachable, NEW b \in Installed, Leads(a, b)
  PROVE  b \in Reachable
<1> SUFFICES ASSUME NEW S \in SUBSET Installed, root \in S, ClosedUnder(S) PROVE b \in S
  BY DEF Reachable
<1>1. a \in S
  BY DEF Reachable
<1> QED
  BY <1>1 DEF ClosedUnder

LEMMA ReachLeast ==
  ASSUME NEW S \in SUBSET Installed, root \in S, ClosedUnder(S)
  PROVE  Reachable \subseteq S
BY DEF Reachable

LEMMA ReachFrozen ==
  ASSUME UNCHANGED question
  PROVE  Reachable' = Reachable
<1>1. Installed' = Installed /\ root' = root /\ \A a, b : Leads(a, b)' <=> Leads(a, b)
  BY Frozen DEF question
<1>2. \A S : ClosedUnder(S)' <=> ClosedUnder(S)
  BY <1>1 DEF ClosedUnder
<1> QED
  BY <1>1, <1>2 DEF Reachable

\* The edges judged so far, each once, and where they led.
Judged ==
  /\ \A a \in Met : \A i \in 1..Len(Deps(a)) :
       i < next[a] => \E k \in 1..Len(nodes) : nodes[k].parent = a /\ nodes[k].index = i
  /\ \A k \in 1..Len(nodes) :
       /\ nodes[k].parent \in Met /\ nodes[k].index \in 1..Len(Deps(nodes[k].parent))
       /\ nodes[k].index < next[nodes[k].parent]
  /\ \A j, k \in 1..Len(nodes) :
       nodes[j].parent = nodes[k].parent /\ nodes[j].index = nodes[k].index => j = k
Led ==
  \A a \in Met : \A i \in 1..Len(Deps(a)) :
    i < next[a] /\ Follows(Deps(a)[i]) => Deps(a)[i].id \in Met
Known == Met \subseteq Reachable

JudgeInv == Judged /\ Led /\ Known

\* When an edge is judged, whatever is entered after it.
LEMMA JudgedStep ==
  ASSUME Inv, Judge, Judged, UNCHANGED question, Met \subseteq Met',
         \A a \in Met' : a \in Met \/ (a \in Installed /\ next[a] = 1)
  PROVE  Judged'
<1>1. /\ Top \in Met /\ Top \in Installed /\ next[Top] \in 1..Len(Deps(Top)) /\ Top \in Ids
      /\ \A a \in Installed : Len(Deps(a)) \in Nat /\ a \in Ids
      /\ \A a : Deps(a)' = Deps(a)
  BY AtEdgeFacts, DepsOf, Frozen DEF Judge, Met, Inv
<1>2. /\ next' = [next EXCEPT ![Top] = next[Top] + 1] /\ next \in [Ids -> Nat \ {0}]
      /\ Len(nodes) \in Nat /\ Len(nodes') = Len(nodes) + 1
      /\ \A k \in 1..Len(nodes) : nodes'[k] = nodes[k]
      /\ nodes'[Len(nodes) + 1].parent = Top /\ nodes'[Len(nodes) + 1].index = next[Top]
  BY JudgeFacts DEF Inv, TypeOK
<1>3. \A a \in Met : a \in Installed
  BY DEF Inv, TypeOK, Met
<1>4. \A k \in 1..Len(nodes') : k \in 1..Len(nodes) \/ k = Len(nodes) + 1
  BY <1>2
<1>5. ASSUME NEW a \in Met', NEW i \in 1..Len(Deps(a)'), i < next'[a]
      PROVE  \E k \in 1..Len(nodes') : nodes'[k].parent = a /\ nodes'[k].index = i
  <2>1. Len(nodes) + 1 \in 1..Len(nodes')
    BY <1>2
  <2>2. CASE a = Top /\ i = next[Top]
    BY <2>1, <2>2, <1>2
  <2>3. CASE ~(a = Top /\ i = next[Top])
    <3>1. i \in 1..Len(Deps(a)) /\ i < next[a] /\ a \in Met
      BY <1>1, <1>2, <1>3, <1>5, <2>3
    <3>2. PICK k \in 1..Len(nodes) : nodes[k].parent = a /\ nodes[k].index = i
      BY <3>1 DEF Judged
    <3>3. k \in 1..Len(nodes') /\ nodes'[k] = nodes[k]
      BY <1>2
    <3> QED
      BY <3>2, <3>3
  <2> QED
    BY <2>2, <2>3
<1>6. ASSUME NEW k \in 1..Len(nodes')
      PROVE  /\ nodes'[k].parent \in Met' /\ nodes'[k].index \in 1..Len(Deps(nodes'[k].parent))
             /\ nodes'[k].index < next'[nodes'[k].parent]
  <2>1. CASE k = Len(nodes) + 1
    <3>1. nodes'[k].parent = Top /\ nodes'[k].index = next[Top]
      BY <2>1, <1>2
    <3>2. next[Top] \in Nat /\ next'[Top] = next[Top] + 1
      BY <1>1, <1>2
    <3> QED
      BY <3>1, <3>2, <1>1
  <2>2. CASE k \in 1..Len(nodes)
    <3>1. /\ nodes[k].parent \in Met /\ nodes[k].index \in 1..Len(Deps(nodes[k].parent))
          /\ nodes[k].index < next[nodes[k].parent] /\ nodes'[k] = nodes[k]
      BY <2>2, <1>2 DEF Judged
    <3>2. next[nodes[k].parent] \in Nat /\ nodes[k].parent \in Ids
      BY <3>1, <1>1, <1>2, <1>3
    <3>3. nodes[k].index < next'[nodes[k].parent]
      <4>1. CASE nodes[k].parent = Top
        BY <4>1, <3>1, <3>2, <1>1, <1>2
      <4>2. CASE nodes[k].parent # Top
        BY <4>2, <3>1, <3>2, <1>1, <1>2
      <4> QED
        BY <4>1, <4>2
    <3> QED
      BY <3>1, <3>3, <1>1
  <2> QED
    BY <1>4, <2>1, <2>2
<1>7. ASSUME NEW j \in 1..Len(nodes'), NEW k \in 1..Len(nodes'),
             nodes'[j].parent = nodes'[k].parent, nodes'[j].index = nodes'[k].index
      PROVE  j = k
  <2>1. ASSUME NEW l \in 1..Len(nodes)
        PROVE  ~(nodes[l].parent = Top /\ nodes[l].index = next[Top])
    BY <1>1 DEF Judged
  <2>2. j \in 1..Len(nodes) /\ k \in 1..Len(nodes) => j = k
    BY <1>2, <1>7 DEF Judged
  <2> QED
    BY <1>2, <1>4, <1>7, <2>1, <2>2
<1>8. \A a : Deps(a)' = Deps(a)
  BY <1>1
<1> QED
  BY <1>5, <1>6, <1>7, <1>8 DEF Judged

LEMMA LedStep ==
  ASSUME Inv, Judge, Led, UNCHANGED question, Met \subseteq Met',
         \A a \in Met' : a \in Met \/ (a \in Installed /\ next[a] = 1),
         Follows(Edge) => Edge.id \in Met'
  PROVE  Led'
<1>1. /\ Top \in Met /\ Top \in Installed /\ next[Top] \in 1..Len(Deps(Top)) /\ Top \in Ids
      /\ \A a \in Installed : Len(Deps(a)) \in Nat /\ a \in Ids
      /\ \A a : Deps(a)' = Deps(a)
      /\ \A e : Follows(e)' <=> Follows(e)
  BY AtEdgeFacts, DepsOf, Frozen DEF Judge, Met, Inv
<1>2. next' = [next EXCEPT ![Top] = next[Top] + 1] /\ next \in [Ids -> Nat \ {0}]
  BY JudgeFacts DEF Inv, TypeOK
<1>3. \A a \in Met : a \in Installed
  BY DEF Inv, TypeOK, Met
<1> SUFFICES ASSUME NEW a \in Met', NEW i \in 1..Len(Deps(a)), i < next'[a], Follows(Deps(a)[i])
             PROVE  Deps(a)[i].id \in Met'
  BY <1>1 DEF Led
<1>4. CASE a = Top /\ i = next[Top]
  BY <1>4 DEF Edge
<1>5. CASE ~(a = Top /\ i = next[Top])
  <2>1. a \in Met /\ i < next[a]
    BY <1>1, <1>2, <1>3, <1>5
  <2> QED
    BY <2>1 DEF Led
<1> QED
  BY <1>4, <1>5

\* An edge that is followed leads from the innermost artifact.
LEMMA EdgeLeads ==
  ASSUME Inv, AtEdge, Follows(Edge)
  PROVE  Leads(Top, Edge.id) /\ Edge.id \in Installed
BY AtEdgeFacts, FollowsInstalled DEF Leads, Edge

LEMMA JudgeInvStep ==
  ASSUME Inv, Inv', JudgeInv, [Next]_vars
  PROVE  JudgeInv'
<1>1. Reachable' = Reachable /\ UNCHANGED question /\ \A a : Deps(a)' = Deps(a)
  BY QuestionKept, ReachFrozen, Frozen
<1>2. CASE Begin
  <2>1. /\ root \in Installed /\ root \notin Met /\ nodes' = nodes /\ next' = next /\ nodes = <<>>
        /\ Met' = {root} /\ Len(nodes) = 0 /\ next[root] = 1
    <3>1. visited = {} /\ visiting = {} /\ nodes = <<>>
      BY <1>2 DEF Begin, Inv, Frames, TypeOK
    <3> QED
      BY <1>2, <3>1 DEF Begin, Visit, Inv, Loops, TypeOK, Met
  <2>2. Judged' /\ Led'
    BY <1>1, <2>1 DEF Judged, Led
  <2> QED
    BY <1>1, <2>1, <2>2, ReachRoot DEF JudgeInv, Known
<1>3. CASE Pass
  <2>1. Met' = Met /\ Judge /\ (Follows(Edge) => Edge.id \in Met)
    BY <1>3 DEF Pass, Met
  <2> QED
    BY <1>1, <2>1, JudgedStep, LedStep DEF JudgeInv, Known
<1>4. CASE Close
  <2>1. Met' = Met /\ Judge /\ (Follows(Edge) => Edge.id \in Met)
    BY <1>4 DEF Close, Met
  <2> QED
    BY <1>1, <2>1, JudgedStep, LedStep DEF JudgeInv, Known
<1>5. CASE Descend
  <2>1. /\ Met' = Met \union {Edge.id} /\ Judge /\ AtEdge /\ Follows(Edge)
        /\ Edge.id \in Installed \ Met
    BY <1>5, FollowsInstalled DEF Descend, Judge, Visit, Met
  <2>2. next[Edge.id] = 1
    BY <2>1 DEF Inv, Loops
  <2>3. Edge.id \in Reachable
    BY <2>1, EdgeLeads, AtEdgeFacts, ReachStep DEF JudgeInv, Known, Met
  <2> QED
    BY <1>1, <2>1, <2>2, <2>3, JudgedStep, LedStep DEF JudgeInv, Known
<1>6. CASE Leave
  <2>1. Met' = Met /\ nodes' = nodes /\ next' = next
    BY <1>6, LeaveFacts DEF Leave, Met
  <2> QED
    BY <1>1, <2>1, Frozen DEF JudgeInv, Judged, Led, Known
<1>7. CASE Fail \/ Finalize \/ UNCHANGED vars
  <2>1. Met' = Met /\ nodes' = nodes /\ next' = next
    BY <1>7 DEF Fail, Finalize, vars, walk, Met
  <2> QED
    BY <1>1, <2>1, Frozen DEF JudgeInv, Judged, Led, Known
<1> QED
  BY <1>2, <1>3, <1>4, <1>5, <1>6, <1>7 DEF Next

LEMMA InitJudge ==
  ASSUME Init
  PROVE  JudgeInv
<1>1. visiting = {} /\ visited = {} /\ nodes = <<>> /\ Len(nodes) = 0
  BY DEF Init
<1> QED
  BY <1>1 DEF JudgeInv, Judged, Led, Known, Met

\* At the end the artifacts visited are those the root leads to.
LEMMA VisitedAll ==
  ASSUME Inv, JudgeInv, phase = "done"
  PROVE  visited = Reachable /\ Met = Reachable
<1>1. visiting = {} /\ Met = visited /\ root \in visited /\ visited \subseteq Installed
  BY DEF Inv, Frames, TypeOK, Met
<1>2. ClosedUnder(visited)
  <2> SUFFICES ASSUME NEW a \in visited, NEW b \in Installed, Leads(a, b) PROVE b \in visited
    BY DEF ClosedUnder
  <2>1. PICK i \in 1..Len(Deps(a)) : Deps(a)[i].id = b /\ Follows(Deps(a)[i])
    BY DEF Leads
  <2>2. i < next[a]
    BY <1>1, DepsOf DEF Inv, Loops
  <2> QED
    BY <1>1, <2>1, <2>2 DEF JudgeInv, Led
<1> QED
  BY <1>1, <1>2, ReachLeast DEF JudgeInv, Known

\* However the graph loops and joins, every dependency of every artifact that the
\* root leads to is judged, and none twice.
THEOREM EdgesJudged == Safety => []EveryEdgeJudged
<1>1. Init => Inv /\ JudgeInv
  BY InitInv, InitJudge
<1>2. Inv /\ JudgeInv /\ [Next]_vars => Inv' /\ JudgeInv'
  BY StepInv, JudgeInvStep
<1>3. Inv /\ JudgeInv => EveryEdgeJudged
  <2> SUFFICES ASSUME Inv, JudgeInv, phase = "done"
               PROVE  /\ \A a \in Reachable : \A i \in 1..Len(Deps(a)) : NodesOf(a, i) # {}
                      /\ \A j, k \in 1..Len(nodes) :
                           nodes[j].parent = nodes[k].parent /\ nodes[j].index = nodes[k].index => j = k
    BY DEF EveryEdgeJudged
  <2>1. ASSUME NEW a \in Reachable, NEW i \in 1..Len(Deps(a))
        PROVE  NodesOf(a, i) # {}
    <3>1. a \in visited /\ a \in Met /\ a \in Installed
      BY VisitedAll DEF Inv, TypeOK
    <3>2. i < next[a]
      BY <3>1, DepsOf DEF Inv, Loops
    <3> QED
      BY <3>1, <3>2 DEF JudgeInv, Judged, NodesOf
  <2> QED
    BY <2>1 DEF JudgeInv, Judged
<1> QED
  BY <1>1, <1>2, <1>3, PTL DEF Safety

-------------------------------------------------------------------------------
(* Reported cycles *)

\* The stack is a path of the graph, and what is reported was met.
Path ==
  /\ \A i \in 1..(Len(stack) - 1) : Leads(stack[i], stack[i + 1])
  /\ \A c \in cycles : \A i \in 1..Len(c) : c[i] \in Met
RealInv == Path /\ CyclesAreReal

LEMMA CloseReal ==
  ASSUME Inv, RealInv, Close
  PROVE  RealInv'
<1> DEFINE s == Start(Edge.id)
           c == SubSeq(stack, s, Len(stack))
<1>1. /\ cycles' = cycles \union {c} /\ s \in 1..Len(stack) /\ stack[s] = Edge.id /\ Follows(Edge)
      /\ c \in Seq(Installed) /\ Len(c) = Len(stack) - s + 1
      /\ \A i \in 1..Len(c) : c[i] = stack[s + i - 1]
  BY CloseFacts
<1>2. /\ stack' = stack /\ visiting' = visiting /\ visited' = visited /\ AtEdge
      /\ \A a, b : Leads(a, b)' <=> Leads(a, b)
  BY Frozen DEF Close, Judge
<1>3. Leads(Top, Edge.id) /\ Len(stack) \in Nat \ {0} /\ Top = stack[Len(stack)]
  BY <1>1, <1>2, EdgeLeads, AtEdgeFacts DEF Top
<1> HIDE DEF c, s
<1>4. \A i \in 1..Len(c) : s + i - 1 \in 1..Len(stack) /\ c[i] \in visiting
  BY <1>1, <1>3 DEF Inv, TypeOK
<1>5. Len(c) \in Nat \ {0} /\ c # <<>>
  BY <1>1, <1>3
<1>6. c[1] = Edge.id /\ c[Len(c)] = Top
  BY <1>1, <1>3, <1>5
<1>7. \A i \in 1..(Len(c) - 1) : Leads(c[i], c[i + 1])
  <2> TAKE i \in 1..(Len(c) - 1)
  <2>1. /\ i \in 1..Len(c) /\ i + 1 \in 1..Len(c) /\ s + i - 1 \in 1..(Len(stack) - 1)
        /\ s + (i + 1) - 1 = (s + i - 1) + 1
    BY <1>1, <1>3, <1>5
  <2>2. c[i] = stack[s + i - 1] /\ c[i + 1] = stack[(s + i - 1) + 1]
    BY <1>1, <2>1
  <2> QED
    BY <2>1, <2>2 DEF RealInv, Path
<1>8. Path'
  BY <1>1, <1>2, <1>4 DEF RealInv, Path, Met
<1>9. CyclesAreReal'
  <2>1. \A d \in cycles : /\ d # <<>> /\ Leads(d[Len(d)], d[1])
                          /\ \A i \in 1..(Len(d) - 1) : Leads(d[i], d[i + 1])
    BY DEF RealInv, CyclesAreReal
  <2>2. \A d \in cycles' : /\ d # <<>> /\ Leads(d[Len(d)], d[1])
                           /\ \A i \in 1..(Len(d) - 1) : Leads(d[i], d[i + 1])
    BY <1>1, <1>3, <1>5, <1>6, <1>7, <2>1
  <2> QED
    BY <1>2, <2>2 DEF CyclesAreReal
<1> QED
  BY <1>8, <1>9 DEF RealInv

\* A step that reports nothing and forgets nothing it has met.
LEMMA RealKept ==
  ASSUME CyclesAreReal, \A c \in cycles : \A i \in 1..Len(c) : c[i] \in Met,
         UNCHANGED <<question, cycles>>, Met \subseteq Met',
         \A i \in 1..(Len(stack') - 1) : Leads(stack'[i], stack'[i + 1])
  PROVE  RealInv'
<1>1. \A a, b : Leads(a, b)' <=> Leads(a, b)
  BY Frozen
<1> QED
  BY <1>1 DEF RealInv, Path, CyclesAreReal

LEMMA RealStep ==
  ASSUME Inv, Inv', RealInv, [Next]_vars
  PROVE  RealInv'
<1>1. UNCHANGED question
  BY QuestionKept
<1>2. CASE Begin
  <2>1. Visit(root) /\ cycles' = cycles /\ stack = <<>> /\ visited' = visited
    BY <1>2 DEF Begin, Inv, Frames
  <2>2. Len(stack') = 1 /\ Met \subseteq Met'
    BY <2>1 DEF Visit, Met
  <2> QED
    BY <1>1, <2>1, <2>2, RealKept DEF RealInv, Path
<1>3. CASE Pass
  <2>1. stack' = stack /\ cycles' = cycles /\ Met' = Met
    BY <1>3 DEF Pass, Met
  <2> QED
    BY <1>1, <2>1, RealKept DEF RealInv, Path
<1>4. CASE Descend
  <2>1. /\ Visit(Edge.id) /\ cycles' = cycles /\ visited' = visited /\ Edge.id \in Installed \ Met
        /\ AtEdge /\ Leads(Top, Edge.id)
    BY <1>4, EdgeLeads DEF Descend, Judge, Met
  <2>2. /\ Len(stack) \in Nat \ {0} /\ Len(stack') = Len(stack) + 1 /\ stack'[Len(stack) + 1] = Edge.id
        /\ \A i \in 1..Len(stack) : stack'[i] = stack[i]
        /\ visiting' = visiting \union {Edge.id}
    BY <2>1, VisitFacts, AtEdgeFacts
  <2>3. \A i \in 1..(Len(stack') - 1) : Leads(stack'[i], stack'[i + 1])
    <3> TAKE i \in 1..(Len(stack') - 1)
    <3>1. CASE i = Len(stack)
      BY <3>1, <2>1, <2>2 DEF Top
    <3>2. CASE i # Len(stack)
      <4>1. i \in 1..(Len(stack) - 1) /\ i \in 1..Len(stack) /\ i + 1 \in 1..Len(stack)
        BY <3>2, <2>2
      <4> QED
        BY <4>1, <2>2 DEF RealInv, Path
    <3> QED
      BY <3>1, <3>2
  <2>4. Met \subseteq Met'
    BY <2>1, <2>2 DEF Met
  <2> QED
    BY <1>1, <2>1, <2>3, <2>4, RealKept DEF RealInv, Path
<1>5. CASE Leave
  <2>1. /\ Len(stack) \in Nat /\ Len(stack') = Len(stack) - 1 /\ cycles' = cycles
        /\ \A i \in 1..Len(stack') : stack'[i] = stack[i]
        /\ Met \subseteq Met'
    BY <1>5, LeaveFacts DEF Leave, Met
  <2>2. \A i \in 1..(Len(stack') - 1) : Leads(stack'[i], stack'[i + 1])
    <3> TAKE i \in 1..(Len(stack') - 1)
    <3>1. i \in 1..(Len(stack) - 1) /\ i \in 1..Len(stack') /\ i + 1 \in 1..Len(stack')
      BY <2>1
    <3> QED
      BY <3>1, <2>1 DEF RealInv, Path
  <2> QED
    BY <1>1, <2>1, <2>2, RealKept DEF RealInv, Path
<1>6. CASE Fail \/ Finalize \/ UNCHANGED vars
  <2>1. stack' = stack /\ cycles' = cycles /\ Met' = Met
    BY <1>6 DEF Fail, Finalize, vars, walk, Met
  <2> QED
    BY <1>1, <2>1, RealKept DEF RealInv, Path
<1> QED
  BY <1>2, <1>3, <1>4, <1>5, <1>6, CloseReal DEF Next

LEMMA InitReal ==
  ASSUME Init
  PROVE  RealInv
<1>1. cycles = {} /\ stack = <<>> /\ Len(stack) = 0
  BY DEF Init
<1> QED
  BY <1>1 DEF RealInv, Path, CyclesAreReal

\* Every reported cycle is one.
THEOREM ReportedCyclesAreReal == Safety => []CyclesAreReal
<1>1. Init => Inv /\ RealInv
  BY InitInv, InitReal
<1>2. Inv /\ RealInv /\ [Next]_vars => Inv' /\ RealInv'
  BY StepInv, RealStep
<1>3. RealInv => CyclesAreReal
  BY DEF RealInv
<1> QED
  BY <1>1, <1>2, <1>3, PTL DEF Safety

-------------------------------------------------------------------------------
(* No cycle is missed *)

\* While no cycle is reported, what is visited leads to what is visited, an
\* artifact on the stack to what is visited or to the one above it, and the
\* artifacts visited have no cycle.
Ordered ==
  cycles = {} =>
    /\ \A a \in visited : \A b \in Installed : Leads(a, b) => b \in visited
    /\ \A p \in 1..Len(stack) : \A i \in 1..Len(Deps(stack[p])) :
         i < next[stack[p]] /\ Follows(Deps(stack[p])[i]) =>
           \/ Deps(stack[p])[i].id \in visited
           \/ p < Len(stack) /\ Deps(stack[p])[i].id = stack[p + 1]
    /\ ~Cyclic(visited)

\* An artifact that leads only to the artifacts of an acyclic, closed set closes no cycle.
LEMMA NoNewCycle ==
  ASSUME NEW S \in SUBSET Installed, NEW a \in Installed, a \notin S, ~Cyclic(S),
         \A x \in S : \A b \in Installed : Leads(x, b) => b \in S,
         \A b \in Installed : Leads(a, b) => b \in S
  PROVE  ~Cyclic(S \union {a})
<1> SUFFICES ASSUME NEW C \in SUBSET (S \union {a}), C # {},
                    \A x \in C : \E b \in C : Leads(x, b)
             PROVE  FALSE
  BY DEF Cyclic
<1>1. \A x \in C : \E b \in C \ {a} : Leads(x, b)
  <2> TAKE x \in C
  <2>1. PICK b \in C : Leads(x, b)
    OBVIOUS
  <2>2. b \in S
    BY <2>1
  <2> QED
    BY <2>1, <2>2
<1>2. C \ {a} # {}
  BY <1>1
<1>3. C \ {a} \in SUBSET S
  OBVIOUS
<1> QED
  BY <1>1, <1>2, <1>3 DEF Cyclic

LEMMA OrderedLeave ==
  ASSUME Inv, Leave, Ordered, cycles = {}
  PROVE  /\ \A a \in visited' : \A b \in Installed : Leads(a, b) => b \in visited'
         /\ \A p \in 1..Len(stack') : \A i \in 1..Len(Deps(stack'[p])) :
              i < next[stack'[p]] /\ Follows(Deps(stack'[p])[i]) =>
                \/ Deps(stack'[p])[i].id \in visited'
                \/ p < Len(stack') /\ Deps(stack'[p])[i].id = stack'[p + 1]
         /\ ~Cyclic(visited')
<1>1. /\ Len(stack) \in Nat \ {0} /\ Top = stack[Len(stack)] /\ Top \in Installed
      /\ Top \notin visited /\ next[Top] = Len(Deps(Top)) + 1 /\ Len(stack') = Len(stack) - 1
      /\ \A i \in 1..Len(stack') : stack'[i] = stack[i]
      /\ visited' = visited \union {Top} /\ visited \subseteq Installed
  BY LeaveFacts DEF Inv, TypeOK
<1>2. \A b \in Installed : Leads(Top, b) => b \in visited
  <2> SUFFICES ASSUME NEW b \in Installed, Leads(Top, b) PROVE b \in visited
    OBVIOUS
  <2>1. PICK i \in 1..Len(Deps(Top)) : Deps(Top)[i].id = b /\ Follows(Deps(Top)[i])
    BY DEF Leads
  <2>2. i < next[Top] /\ Len(stack) \in 1..Len(stack) /\ ~(Len(stack) < Len(stack))
    BY <1>1, DepsOf DEF Inv
  <2> QED
    BY <1>1, <2>1, <2>2 DEF Ordered
<1>3. \A a \in visited : \A b \in Installed : Leads(a, b) => b \in visited
  BY DEF Ordered
<1>4. ~Cyclic(visited')
  BY <1>1, <1>2, <1>3, NoNewCycle DEF Ordered
<1>5. ASSUME NEW p \in 1..Len(stack'), NEW i \in 1..Len(Deps(stack'[p])),
             i < next[stack'[p]], Follows(Deps(stack'[p])[i])
      PROVE  \/ Deps(stack'[p])[i].id \in visited'
             \/ p < Len(stack') /\ Deps(stack'[p])[i].id = stack'[p + 1]
  <2>1. p \in 1..Len(stack) /\ stack'[p] = stack[p] /\ p < Len(stack)
    BY <1>1
  <2>2. \/ Deps(stack[p])[i].id \in visited
        \/ Deps(stack[p])[i].id = stack[p + 1]
    BY <1>5, <2>1 DEF Ordered
  <2>3. CASE p + 1 = Len(stack)
    BY <1>1, <2>1, <2>2, <2>3
  <2>4. CASE p + 1 # Len(stack)
    <3>1. p + 1 \in 1..Len(stack') /\ p < Len(stack')
      BY <1>1, <2>1, <2>4
    <3> QED
      BY <1>1, <2>1, <2>2, <3>1
  <2> QED
    BY <2>3, <2>4
<1> QED
  BY <1>1, <1>2, <1>3, <1>4, <1>5

\* What the loops of the stack have seen, after one more edge.
LEMMA OrderedJudge ==
  ASSUME Inv, Judge, Ordered, cycles = {}, Follows(Edge) => Edge.id \in visited
  PROVE  \A p \in 1..Len(stack) : \A i \in 1..Len(Deps(stack[p])) :
           i < next'[stack[p]] /\ Follows(Deps(stack[p])[i]) =>
             \/ Deps(stack[p])[i].id \in visited
             \/ p < Len(stack) /\ Deps(stack[p])[i].id = stack[p + 1]
<1> SUFFICES ASSUME NEW p \in 1..Len(stack), NEW i \in 1..Len(Deps(stack[p])),
                    i < next'[stack[p]], Follows(Deps(stack[p])[i])
             PROVE  \/ Deps(stack[p])[i].id \in visited
                    \/ p < Len(stack) /\ Deps(stack[p])[i].id = stack[p + 1]
  OBVIOUS
<1>1. /\ Top \in Ids /\ next[Top] \in Nat /\ next' = [next EXCEPT ![Top] = next[Top] + 1]
      /\ next \in [Ids -> Nat \ {0}]
  BY AtEdgeFacts, JudgeFacts DEF Judge, Inv, TypeOK
<1>2. stack[p] \in Ids /\ Len(Deps(stack[p])) \in Nat
  BY DepsOf DEF Inv, TypeOK
<1>3. CASE stack[p] = Top /\ i = next[Top]
  BY <1>3 DEF Edge
<1>4. CASE ~(stack[p] = Top /\ i = next[Top])
  <2>1. i < next[stack[p]]
    BY <1>1, <1>2, <1>4
  <2> QED
    BY <2>1 DEF Ordered
<1> QED
  BY <1>3, <1>4

LEMMA OrderedDescend ==
  ASSUME Inv, Descend, Ordered, cycles = {}
  PROVE  \A p \in 1..Len(stack') : \A i \in 1..Len(Deps(stack'[p])) :
           i < next'[stack'[p]] /\ Follows(Deps(stack'[p])[i]) =>
             \/ Deps(stack'[p])[i].id \in visited
             \/ p < Len(stack') /\ Deps(stack'[p])[i].id = stack'[p + 1]
<1> DEFINE a == Edge.id
<1>1. a \in Installed /\ a \notin Met /\ Visit(a) /\ Judge /\ AtEdge
  BY FollowsInstalled DEF Descend, Judge, Met
<1>2. /\ Top \in Ids /\ Top \in visiting /\ next[Top] \in Nat
      /\ next' = [next EXCEPT ![Top] = next[Top] + 1] /\ next \in [Ids -> Nat \ {0}]
  BY <1>1, AtEdgeFacts, JudgeFacts DEF Inv, TypeOK
<1>3. /\ Len(stack) \in Nat \ {0} /\ Len(stack') = Len(stack) + 1 /\ stack'[Len(stack) + 1] = a
      /\ \A i \in 1..Len(stack) : stack'[i] = stack[i]
  BY <1>1, VisitFacts, AtEdgeFacts
<1>4. a = Deps(Top)[next[Top]].id
  BY DEF Edge
<1> HIDE DEF a
<1> SUFFICES ASSUME NEW p \in 1..Len(stack'), NEW i \in 1..Len(Deps(stack'[p])),
                    i < next'[stack'[p]], Follows(Deps(stack'[p])[i])
             PROVE  \/ Deps(stack'[p])[i].id \in visited
                    \/ p < Len(stack') /\ Deps(stack'[p])[i].id = stack'[p + 1]
  OBVIOUS
<1>5. CASE p = Len(stack) + 1
  <2>1. stack'[p] = a /\ next[a] = 1 /\ a # Top /\ a \in Ids /\ Len(Deps(a)) \in Nat
    BY <1>1, <1>2, <1>3, <1>5, DepsOf DEF Inv, Loops, Met
  <2>2. next'[a] = 1
    BY <1>2, <2>1
  <2> QED
    BY <2>1, <2>2
<1>6. CASE p \in 1..Len(stack)
  <2>1. /\ stack'[p] = stack[p] /\ stack[p] \in Ids /\ Len(Deps(stack[p])) \in Nat
        /\ Len(stack) \in 1..Len(stack)
    BY <1>3, <1>6, DepsOf DEF Inv, TypeOK
  <2>2. CASE stack[p] = Top /\ i = next[Top]
    <3>1. p = Len(stack)
      BY <1>6, <2>1, <2>2 DEF Inv, Frames, Top
    <3> QED
      BY <1>3, <1>4, <2>1, <2>2, <3>1
  <2>3. CASE ~(stack[p] = Top /\ i = next[Top])
    <3>1. i < next[stack[p]]
      BY <1>2, <2>1, <2>3
    <3>2. \/ Deps(stack[p])[i].id \in visited
          \/ p < Len(stack) /\ Deps(stack[p])[i].id = stack[p + 1]
      BY <1>6, <2>1, <3>1 DEF Ordered
    <3>3. p < Len(stack) => p + 1 \in 1..Len(stack) /\ p < Len(stack')
      BY <1>3, <1>6
    <3> QED
      BY <1>3, <2>1, <3>2, <3>3
  <2> QED
    BY <2>2, <2>3
<1> QED
  BY <1>3, <1>5, <1>6

LEMMA OrderedStep ==
  ASSUME Inv, Inv', Ordered, [Next]_vars
  PROVE  Ordered'
<1>1. /\ Installed' = Installed /\ \A a : Deps(a)' = Deps(a)
      /\ \A e : Follows(e)' <=> Follows(e)
      /\ \A a, b : Leads(a, b)' <=> Leads(a, b)
  BY QuestionKept, Frozen
<1>2. \A S : Cyclic(S)' <=> Cyclic(S)
  BY <1>1 DEF Cyclic
<1>3. CASE Begin
  <2>1. visited = {} /\ visited' = {} /\ cycles' = cycles /\ next' = next /\ stack = <<>> /\ visiting = {}
    BY <1>3 DEF Begin, Inv, Frames, TypeOK
  <2>2. Visit(root) /\ root \in Installed /\ root \notin Met
    BY <1>3, <2>1 DEF Begin, Inv, TypeOK, Met
  <2>3. Len(stack') = 1 /\ stack'[1] = root /\ next[root] = 1
    BY <2>1, <2>2 DEF Visit, Inv, Loops
  <2>4. ~Cyclic({})
    BY DEF Cyclic
  <2>5. Len(Deps(root)) \in Nat
    BY <2>2, DepsOf DEF Inv
  <2> QED
    BY <1>1, <1>2, <2>1, <2>3, <2>4, <2>5 DEF Ordered
<1>4. CASE Pass
  <2>1. stack' = stack /\ visited' = visited /\ cycles' = cycles /\ Judge /\ (Follows(Edge) => Edge.id \in visited)
    BY <1>4 DEF Pass
  <2> QED
    BY <1>1, <1>2, <2>1, OrderedJudge DEF Ordered
<1>5. CASE Close
  <2>1. cycles' # {}
    BY <1>5, CloseFacts
  <2> QED
    BY <2>1 DEF Ordered
<1>6. CASE Descend
  <2>1. visited' = visited /\ cycles' = cycles
    BY <1>6 DEF Descend
  <2> QED
    BY <1>1, <1>2, <1>6, <2>1, OrderedDescend DEF Ordered
<1>7. CASE Leave
  <2>1. next' = next /\ cycles' = cycles
    BY <1>7 DEF Leave
  <2> QED
    BY <1>1, <1>2, <1>7, <2>1, OrderedLeave DEF Ordered
<1>8. CASE Fail \/ Finalize \/ UNCHANGED vars
  <2>1. stack' = stack /\ visited' = visited /\ cycles' = cycles /\ next' = next
    BY <1>8 DEF Fail, Finalize, vars, walk
  <2> QED
    BY <1>1, <1>2, <2>1 DEF Ordered
<1> QED
  BY <1>3, <1>4, <1>5, <1>6, <1>7, <1>8 DEF Next

LEMMA InitOrdered ==
  ASSUME Init
  PROVE  Ordered
<1>1. visited = {} /\ stack = <<>> /\ Len(stack) = 0
  BY DEF Init
<1> QED
  BY <1>1 DEF Ordered, Cyclic

\* Every cycle that is reported is one, and when none is, what the root leads to
\* has none.
THEOREM CyclesAreFound == Safety => []CyclesAreExact
<1>1. Init => Inv /\ JudgeInv /\ Ordered
  BY InitInv, InitJudge, InitOrdered
<1>2. Inv /\ JudgeInv /\ Ordered /\ [Next]_vars => Inv' /\ JudgeInv' /\ Ordered'
  BY StepInv, JudgeInvStep, OrderedStep
<1>3. Inv /\ JudgeInv /\ Ordered => NoCycleMissed
  BY VisitedAll DEF Ordered, NoCycleMissed
<1>4. CyclesAreExact <=> CyclesAreReal /\ NoCycleMissed
  BY DEF CyclesAreExact
<1> QED
  BY <1>1, <1>2, <1>3, <1>4, ReportedCyclesAreReal, PTL DEF Safety

-------------------------------------------------------------------------------
(* The verdict *)

RootAllowed == Allowed(policy, root, registry[root])

\* Each node has the verdict of its edge, one that is missing is refused, and
\* the walk stays at the root if it may not go on.
NodesWeighed ==
  /\ \A k \in 1..Len(nodes) :
       nodes[k].allowed <=> EdgeAllowed(Deps(nodes[k].parent)[nodes[k].index], nodes[k].depth)
  /\ ~policy.transitive => Len(stack) <= 1 /\ \A k \in 1..Len(nodes) : nodes[k].depth = 1
  /\ missing # {} => \E k \in 1..Len(nodes) : ~nodes[k].allowed

\* What the verdict comes to.
FinalVerdict ==
  /\ RootAllowed
  /\ policy.acyclic => cycles = {}
  /\ \A k \in 1..Len(nodes) : nodes[k].allowed
VerdictWeighed ==
  /\ phase = "walk" => (verdict <=> RootAllowed)
  /\ phase = "done" => (verdict <=> FinalVerdict)
Weighed == mode = "trust" => NodesWeighed /\ VerdictWeighed

LEMMA RootFrozen ==
  ASSUME UNCHANGED question
  PROVE  (RootAllowed' <=> RootAllowed) /\ mode' = mode /\ policy' = policy
BY DEF question, RootAllowed

\* An edge's node is pushed while the stack is as it should be.
LEMMA WeighedJudge ==
  ASSUME Inv, Judge, JudgeInv, NodesWeighed, mode = "trust", UNCHANGED question,
         ~policy.transitive => Len(stack') <= 1
  PROVE  NodesWeighed'
<1>1. /\ Len(nodes) \in Nat /\ Len(nodes') = Len(nodes) + 1
      /\ \A k \in 1..Len(nodes) : nodes'[k] = nodes[k]
      /\ nodes'[Len(nodes) + 1].parent = Top /\ nodes'[Len(nodes) + 1].index = next[Top]
      /\ nodes'[Len(nodes) + 1].depth = Len(stack)
      /\ nodes'[Len(nodes) + 1].allowed <=> EdgeAllowed(Edge, Len(stack))
  BY JudgeFacts
<1>2. \A k \in 1..Len(nodes') : k \in 1..Len(nodes) \/ k = Len(nodes) + 1
  BY <1>1
<1>3. /\ \A a : Deps(a)' = Deps(a)
      /\ \A e, n : EdgeAllowed(e, n)' <=> EdgeAllowed(e, n)
      /\ policy' = policy
  BY Frozen, RootFrozen
<1>4. ASSUME NEW k \in 1..Len(nodes')
      PROVE  nodes'[k].allowed <=> EdgeAllowed(Deps(nodes'[k].parent)[nodes'[k].index], nodes'[k].depth)
  <2>1. CASE k = Len(nodes) + 1
    BY <2>1, <1>1 DEF Edge
  <2>2. CASE k \in 1..Len(nodes)
    BY <2>2, <1>1 DEF NodesWeighed
  <2> QED
    BY <1>2, <2>1, <2>2
<1>5. ~policy.transitive => \A k \in 1..Len(nodes') : nodes'[k].depth = 1
  <2> SUFFICES ASSUME ~policy.transitive, NEW k \in 1..Len(nodes') PROVE nodes'[k].depth = 1
    OBVIOUS
  <2>1. Len(stack) = 1
    <3>1. AtEdge /\ Len(stack) <= 1
      BY DEF NodesWeighed, Judge
    <3>2. Len(stack) \in Nat \ {0}
      BY <3>1, AtEdgeFacts
    <3> QED
      BY <3>1, <3>2
  <2> QED
    BY <1>1, <1>2, <2>1 DEF NodesWeighed
<1>6. missing' # {} => \E k \in 1..Len(nodes') : ~nodes'[k].allowed
  <2>1. CASE missing' = missing /\ missing # {}
    <3>1. PICK k \in 1..Len(nodes) : ~nodes[k].allowed
      BY <2>1 DEF NodesWeighed
    <3> QED
      BY <3>1, <1>1
  <2>2. CASE Edge.required /\ ~Found(Edge)
    <3>1. ~EdgeAllowed(Edge, Len(stack)) /\ Len(nodes) + 1 \in 1..Len(nodes')
      BY <2>2, <1>1 DEF EdgeAllowed
    <3> QED
      BY <3>1, <1>1
  <2> QED
    BY <2>1, <2>2 DEF Judge
<1> QED
  BY <1>3, <1>4, <1>5, <1>6 DEF NodesWeighed

LEMMA WeighedStep ==
  ASSUME Inv, Inv', JudgeInv, Weighed, [Next]_vars
  PROVE  Weighed'
<1> SUFFICES ASSUME mode' = "trust" PROVE NodesWeighed' /\ VerdictWeighed'
  BY DEF Weighed
<1>1. /\ UNCHANGED question /\ mode = "trust" /\ NodesWeighed /\ VerdictWeighed
      /\ policy' = policy /\ (RootAllowed' <=> RootAllowed)
  BY QuestionKept, RootFrozen DEF Weighed
<1>2. /\ \A a : Deps(a)' = Deps(a)
      /\ \A e, n : EdgeAllowed(e, n)' <=> EdgeAllowed(e, n)
  BY <1>1, Frozen
<1>3. ASSUME UNCHANGED <<nodes, missing>>, ~policy.transitive => Len(stack') <= 1
      PROVE  NodesWeighed'
  BY <1>1, <1>2, <1>3 DEF NodesWeighed
<1>4. CASE Begin
  <2>1. stack = <<>> /\ Visit(root) /\ nodes' = nodes /\ missing' = missing
    BY <1>4 DEF Begin, Inv, Frames
  <2>2. Len(stack') <= 1
    BY <2>1 DEF Visit
  <2>3. phase' = "walk" /\ (verdict' <=> RootAllowed)
    BY <1>1, <1>4 DEF Begin, RootAllowed
  <2> QED
    BY <1>1, <1>3, <2>1, <2>2, <2>3 DEF VerdictWeighed
<1>5. CASE Pass \/ Close
  <2>1. Judge /\ stack' = stack /\ phase' = phase /\ phase = "walk" /\ verdict' = verdict
    BY <1>5 DEF Pass, Close, Judge, AtEdge
  <2>2. NodesWeighed'
    BY <1>1, <2>1, WeighedJudge DEF NodesWeighed
  <2> QED
    BY <1>1, <2>1, <2>2 DEF VerdictWeighed
<1>6. CASE Descend
  <2>1. Judge /\ phase' = phase /\ phase = "walk" /\ verdict' = verdict /\ policy.transitive
    BY <1>1, <1>6 DEF Descend, Judge, AtEdge, Follows
  <2>2. NodesWeighed'
    BY <1>1, <2>1, WeighedJudge
  <2> QED
    BY <1>1, <2>1, <2>2 DEF VerdictWeighed
<1>7. CASE Leave
  <2>1. /\ Len(stack) \in Nat /\ Len(stack') = Len(stack) - 1 /\ nodes' = nodes /\ missing' = missing
        /\ phase' = phase /\ phase = "walk" /\ verdict' = verdict
    BY <1>7, LeaveFacts DEF Leave, AtEnd
  <2>2. ~policy.transitive => Len(stack') <= 1
    BY <1>1, <2>1 DEF NodesWeighed
  <2> QED
    BY <1>1, <1>3, <2>1, <2>2 DEF VerdictWeighed
<1>8. CASE Fail
  <2>1. stack' = stack /\ nodes' = nodes /\ missing' = missing /\ phase' = "error"
    BY <1>8 DEF Fail, walk
  <2> QED
    BY <1>1, <1>3, <2>1 DEF NodesWeighed, VerdictWeighed
<1>9. CASE Finalize
  <2>1. stack' = stack /\ nodes' = nodes /\ missing' = missing /\ cycles' = cycles /\ phase = "walk" /\ phase' = "done"
    BY <1>9 DEF Finalize, walk
  <2>2. verdict' <=> /\ RootAllowed
                     /\ policy.acyclic => cycles = {}
                     /\ ~policy.transitive => \A i \in 1..Len(nodes) : nodes[i].depth <= 1
                     /\ missing = {}
                     /\ \A i \in 1..Len(nodes) : nodes[i].allowed
    BY <1>1, <1>9, <2>1 DEF Finalize, VerdictWeighed
  <2>3. ~policy.transitive => \A i \in 1..Len(nodes) : nodes[i].depth <= 1
    BY <1>1 DEF NodesWeighed
  <2>4. verdict' <=> /\ RootAllowed
                     /\ policy.acyclic => cycles = {}
                     /\ \A k \in 1..Len(nodes) : nodes[k].allowed
    <3> DEFINE N == \A k \in 1..Len(nodes) : nodes[k].allowed
               D == ~policy.transitive => \A i \in 1..Len(nodes) : nodes[i].depth <= 1
               C == policy.acyclic => cycles = {}
    <3>1. N => missing = {}
      BY <1>1 DEF NodesWeighed
    <3>2. verdict' <=> RootAllowed /\ C /\ D /\ missing = {} /\ N
      BY <2>2
    <3>3. D
      BY <2>3
    <3> HIDE DEF N, D, C
    <3>4. verdict' <=> RootAllowed /\ C /\ N
      BY <3>1, <3>2, <3>3
    <3> QED
      BY <3>4 DEF N, C
  <2>5. NodesWeighed'
    BY <1>1, <1>3, <2>1 DEF NodesWeighed
  <2> QED
    BY <1>1, <2>1, <2>4, <2>5 DEF VerdictWeighed, FinalVerdict
<1>10. CASE UNCHANGED vars
  <2>1. stack' = stack /\ nodes' = nodes /\ missing' = missing /\ cycles' = cycles /\ phase' = phase /\ verdict' = verdict
    BY <1>10 DEF vars, walk
  <2>2. NodesWeighed'
    BY <1>1, <1>3, <2>1 DEF NodesWeighed
  <2> QED
    BY <1>1, <2>1, <2>2 DEF VerdictWeighed, FinalVerdict
<1> QED
  BY <1>4, <1>5, <1>6, <1>7, <1>8, <1>9, <1>10 DEF Next

LEMMA InitWeighed ==
  ASSUME Init
  PROVE  Weighed
<1>1. nodes = <<>> /\ Len(nodes) = 0 /\ Len(stack) = 0 /\ missing = {} /\ phase = "start"
  BY DEF Init
<1> QED
  BY <1>1 DEF Weighed, NodesWeighed, VerdictWeighed

\* An edge that is judged at any depth the walk reaches is judged as the graph's
\* own rule says.
LEMMA EdgeAllowedAt ==
  ASSUME NEW e
  PROVE  /\ policy.transitive => \A d \in Nat : EdgeAllowed(e, d) <=> EdgeAllowed(e, 2)
         /\ ~policy.transitive =>
              (EdgeAllowed(e, 1) <=> EdgeAllowed(e, 2) /\ (IsInstalled(e) => Deps(e.id) = <<>>))
BY DEF EdgeAllowed, Deps

\* What the root leads to when the policy lets the walk go no further.
LEMMA OnlyRoot ==
  ASSUME Inv, mode = "trust", ~policy.transitive
  PROVE  Reachable = {root}
<1>1. ClosedUnder({root}) /\ root \in Installed
  BY DEF ClosedUnder, Leads, Follows, Inv, TypeOK
<1> QED
  BY <1>1, ReachRoot, ReachLeast

LEMMA ReportedMeansCyclic ==
  ASSUME Inv, RealInv, Met = Reachable, cycles # {}
  PROVE  Cyclic(Reachable)
<1>1. PICK c \in cycles : TRUE
  OBVIOUS
<1>2. /\ c \in Seq(Installed) /\ c # <<>> /\ Leads(c[Len(c)], c[1])
      /\ \A i \in 1..(Len(c) - 1) : Leads(c[i], c[i + 1])
      /\ \A i \in 1..Len(c) : c[i] \in Met
  BY <1>1 DEF Inv, TypeOK, RealInv, Path, CyclesAreReal
<1> DEFINE C == {c[i] : i \in 1..Len(c)}
<1>3. Len(c) \in Nat \ {0}
  BY <1>2
<1>4. C \in SUBSET Reachable /\ C # {}
  BY <1>2, <1>3
<1>5. \A a \in C : \E b \in C : Leads(a, b)
  <2> TAKE a \in C
  <2>1. PICK i \in 1..Len(c) : a = c[i]
    OBVIOUS
  <2>2. CASE i = Len(c)
    <3>1. c[1] \in C
      BY <1>3
    <3> QED
      BY <1>2, <2>1, <2>2, <3>1
  <2>3. CASE i # Len(c)
    <3>1. i \in 1..(Len(c) - 1) /\ c[i + 1] \in C
      BY <1>3, <2>3
    <3> QED
      BY <1>2, <2>1, <3>1
  <2> QED
    BY <2>2, <2>3
<1> HIDE DEF C
<1> QED
  BY <1>4, <1>5 DEF Cyclic

\* The nodes are all allowed exactly if every edge of the graph is.
LEMMA NodesAreEdges ==
  ASSUME Inv, JudgeInv, NodesWeighed, mode = "trust", phase = "done"
  PROVE  (\A k \in 1..Len(nodes) : nodes[k].allowed) <=>
           /\ \A a \in Reachable : \A i \in 1..Len(Deps(a)) : EdgeAllowed(Deps(a)[i], 2)
           /\ ~policy.transitive =>
                \A i \in 1..Len(Deps(root)) : IsInstalled(Deps(root)[i]) => Deps(Deps(root)[i].id) = <<>>
<1>1. Met = Reachable
  BY VisitedAll
<1>2. \A k \in 1..Len(nodes) : nodes[k].depth \in Nat
  <2> TAKE k \in 1..Len(nodes)
  <2>1. nodes[k] \in Nodes
    BY DEF Inv, TypeOK
  <2> QED
    BY <2>1 DEF Nodes
<1>3. \A a \in Reachable : \A i \in 1..Len(Deps(a)) : \E k \in 1..Len(nodes) : nodes[k].parent = a /\ nodes[k].index = i
  <2> TAKE a \in Reachable
  <2> TAKE i \in 1..Len(Deps(a))
  <2>1. a \in visited /\ a \in Met /\ a \in Installed
    BY VisitedAll DEF Inv, TypeOK
  <2>2. i < next[a]
    BY <2>1, DepsOf DEF Inv, Loops
  <2> QED
    BY <2>1, <2>2 DEF JudgeInv, Judged
<1>4. \A k \in 1..Len(nodes) : nodes[k].parent \in Reachable /\ nodes[k].index \in 1..Len(Deps(nodes[k].parent))
  BY <1>1 DEF JudgeInv, Judged
<1>5. CASE policy.transitive
  <2>1. \A k \in 1..Len(nodes) : nodes[k].allowed <=> EdgeAllowed(Deps(nodes[k].parent)[nodes[k].index], 2)
    BY <1>2, <1>5, EdgeAllowedAt DEF NodesWeighed
  <2>2. (\A k \in 1..Len(nodes) : nodes[k].allowed) <=>
          \A k \in 1..Len(nodes) : EdgeAllowed(Deps(nodes[k].parent)[nodes[k].index], 2)
    BY <2>1
  <2>3. ASSUME \A k \in 1..Len(nodes) : EdgeAllowed(Deps(nodes[k].parent)[nodes[k].index], 2),
               NEW a \in Reachable, NEW i \in 1..Len(Deps(a))
        PROVE  EdgeAllowed(Deps(a)[i], 2)
    BY <1>3, <2>3
  <2>4. ASSUME \A a \in Reachable : \A i \in 1..Len(Deps(a)) : EdgeAllowed(Deps(a)[i], 2),
               NEW k \in 1..Len(nodes)
        PROVE  EdgeAllowed(Deps(nodes[k].parent)[nodes[k].index], 2)
    BY <1>4, <2>4
  <2> QED
    BY <1>5, <2>2, <2>3, <2>4
<1>6. CASE ~policy.transitive
  <2>1. \A k \in 1..Len(nodes) : nodes[k].allowed <=> EdgeAllowed(Deps(nodes[k].parent)[nodes[k].index], 1)
    BY <1>6 DEF NodesWeighed
  <2>2. \A e : EdgeAllowed(e, 1) <=> EdgeAllowed(e, 2) /\ (IsInstalled(e) => Deps(e.id) = <<>>)
    BY <1>6, EdgeAllowedAt
  <2>3. Reachable = {root}
    BY <1>6, OnlyRoot
  <2>4. \A k \in 1..Len(nodes) : nodes[k].parent = root /\ nodes[k].index \in 1..Len(Deps(root))
    BY <1>4, <2>3
  <2>5. \A i \in 1..Len(Deps(root)) : \E k \in 1..Len(nodes) : nodes[k].parent = root /\ nodes[k].index = i
    BY <1>3, <2>3
  <2>6. (\A k \in 1..Len(nodes) : nodes[k].allowed) <=>
          \A i \in 1..Len(Deps(root)) : EdgeAllowed(Deps(root)[i], 1)
    BY <2>1, <2>4, <2>5
  <2> QED
    BY <1>6, <2>2, <2>3, <2>6
<1> QED
  BY <1>5, <1>6

\* The verdict of the walk is the verdict of the graph.
THEOREM VerdictsAreExact == Safety => []VerdictIsExact
<1> DEFINE All == Inv /\ JudgeInv /\ RealInv /\ Ordered /\ Weighed
<1>1. Init => All
  BY InitInv, InitJudge, InitReal, InitOrdered, InitWeighed
<1>2. All /\ [Next]_vars => All'
  BY StepInv, JudgeInvStep, RealStep, OrderedStep, WeighedStep
<1>3. All => VerdictIsExact
  <2> SUFFICES ASSUME Inv, JudgeInv, RealInv, Ordered, Weighed, phase = "done", mode = "trust"
               PROVE  verdict <=> Clean
    BY DEF VerdictIsExact
  <2>1. Met = Reachable /\ visited = Reachable
    BY VisitedAll
  <2>2. cycles = {} <=> ~Cyclic(Reachable)
    BY <2>1, ReportedMeansCyclic DEF Ordered
  <2>3. verdict <=> /\ RootAllowed
                    /\ policy.acyclic => cycles = {}
                    /\ \A k \in 1..Len(nodes) : nodes[k].allowed
    <3>1. VerdictWeighed
      BY DEF Weighed
    <3> QED
      BY <3>1 DEF VerdictWeighed, FinalVerdict
  <2>4. NodesWeighed
    BY DEF Weighed
  <2> QED
    BY <2>2, <2>3, <2>4, NodesAreEdges DEF Clean, RootAllowed
<1> HIDE DEF All
<1> QED
  BY <1>1, <1>2, <1>3, PTL DEF Safety
=============================================================================
