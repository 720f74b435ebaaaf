--------------------------- MODULE McpPool_proofs ---------------------------
(***************************************************************************)
(* Theorems about McpPool, for every set of calls and of servers.          *)
(***************************************************************************)
EXTENDS McpPool, SequenceTheorems, TLAPS

-----------------------------------------------------------------------------
(* The inductive invariant *)

\* The lock, and which process a call uses.
Locking ==
  /\ \A c \in Calls : holder = c <=> at[c] \in Holding
  /\ \A c \in Calls : at[c] = "starting" =>
       on[c] = <<c, attempt[c]>> /\ session[ServerOf[c]] = NoProc
  /\ \A c \in Calls : at[c] \in {"ready", "reading"} => session[ServerOf[c]] = on[c] /\ on[c] # NoProc
  /\ \A c \in Calls : on[c] # NoProc => Host(on[c]) = ServerOf[c] /\ proc[on[c]] # "none"
  /\ \A s \in Servers : session[s] # NoProc => Host(session[s]) = s /\ proc[session[s]] # "none"

\* Each attempt starts a process of its own.
Attempts ==
  /\ \A c \in Calls : at[c] # "idle" => attempt[c] \in 1..2
  /\ \A c \in Calls : at[c] = "failed" => attempt[c] = 1
  /\ \A c \in Calls, k \in 1..2 :
       at[c] = "idle" \/ k > attempt[c] \/ (k = attempt[c] /\ at[c] = "queued") => proc[<<c, k>>] = "none"

AnswerTo(c) == [kind |-> "answer", of |-> c]

Has(q, m) == \E i \in DOMAIN q : q[i] = m

Once(q, m) == \A i, j \in DOMAIN q : q[i] = m /\ q[j] = m => i = j

\* A request is in one place, on a process that is still in the pool.
Traffic ==
  /\ \A p \in Procs, c \in Calls : Underway(p, c) =>
       on[c] = p /\ session[Host(p)] = p /\ at[c] \in {"reading", "failed"} \union Ended
  /\ \A p \in Procs, c \in Calls : c \in asked[p] => c \notin done[p]
  /\ \A p \in Procs, c \in Calls : c \in asked[p] \union done[p] => ~Has(outbox[p], AnswerTo(c))
  /\ \A p \in Procs, c \in Calls : Once(outbox[p], AnswerTo(c))

\* Where nobody gave up, what is under way is the request of the call that waits.
Clean ==
  \A p \in Procs, c \in Calls : Underway(p, c) /\ p \notin soiled => at[c] = "reading"

\* A request is carried out at most once per attempt.
Counted ==
  /\ \A c \in Calls : runs[c] <= attempt[c] /\ (at[c] = "idle" => attempt[c] = 0)
  /\ \A c \in Calls : at[c] \in {"queued", "starting", "ready"} => runs[c] < attempt[c]
  /\ \A p \in Procs, c \in Calls : c \in asked[p] => runs[c] < attempt[c]
  /\ \A p \in Procs, c \in Calls : Underway(p, c) /\ c \notin asked[p] => runs[c] > 0

Inv == TypeOK /\ Locking /\ Attempts /\ LiveIsPooled /\ Traffic /\ Clean /\ Counted /\ AnswersAreTrue

-----------------------------------------------------------------------------
(* Pipes *)

LEMMA TailFacts ==
  ASSUME NEW q \in Seq(Messages), q # <<>>, NEW m
  PROVE  /\ Tail(q) \in Seq(Messages) /\ Head(q) \in Messages
         /\ Has(Tail(q), m) => Has(q, m)
         /\ Head(q) = m => Has(q, m)
         /\ Once(q, m) => Once(Tail(q), m)
         /\ Once(q, m) /\ Head(q) = m => ~Has(Tail(q), m)
         /\ Len(q) > 1 => Tail(q) # <<>>
<1>1. Len(q) \in Nat \ {0} /\ Head(q) = q[1] /\ DOMAIN q = 1..Len(q)
  OBVIOUS
<1>2. DOMAIN Tail(q) = 1..(Len(q) - 1) /\ \A i \in 1..(Len(q) - 1) : Tail(q)[i] = q[i + 1]
  BY <1>1
<1>3. \A i \in 1..(Len(q) - 1) : i + 1 \in 1..Len(q) /\ i + 1 # 1
  BY <1>1
<1>4. 1 \in 1..Len(q)
  BY <1>1
<1>5. Tail(q) \in Seq(Messages) /\ Head(q) \in Messages
  BY <1>1
<1>6. Has(Tail(q), m) => Has(q, m)
  BY <1>1, <1>2, <1>3 DEF Has
<1>7. Head(q) = m => Has(q, m)
  BY <1>1, <1>4 DEF Has
<1>8. Once(q, m) => Once(Tail(q), m)
  <2> SUFFICES ASSUME Once(q, m), NEW i \in 1..(Len(q) - 1), NEW j \in 1..(Len(q) - 1),
                      Tail(q)[i] = m, Tail(q)[j] = m
               PROVE  i = j
    BY <1>2 DEF Once
  <2>1. i + 1 = j + 1
    BY <1>1, <1>2, <1>3 DEF Once
  <2> QED
    BY <2>1
<1>9. Once(q, m) /\ Head(q) = m => ~Has(Tail(q), m)
  BY <1>1, <1>2, <1>3, <1>4 DEF Once, Has
<1>10. Len(q) > 1 => Tail(q) # <<>>
  <2>1. Len(q) > 1 => 1 \in 1..(Len(q) - 1)
    BY <1>1
  <2>2. Len(q) > 1 => 1 \in DOMAIN Tail(q)
    BY <1>2, <2>1
  <2>3. DOMAIN <<>> = {}
    OBVIOUS
  <2> QED
    BY <2>2, <2>3, Zenon
<1> QED
  BY <1>5, <1>6, <1>7, <1>8, <1>9, <1>10

LEMMA AppendFacts ==
  ASSUME NEW q \in Seq(Messages), NEW e \in Messages, NEW m
  PROVE  /\ Append(q, e) \in Seq(Messages)
         /\ e # m => (Has(Append(q, e), m) <=> Has(q, m)) /\ (Once(q, m) => Once(Append(q, e), m))
         /\ ~Has(q, m) => Once(Append(q, e), m)
<1>1. Len(q) \in Nat /\ DOMAIN q = 1..Len(q) /\ Append(q, e) \in Seq(Messages)
  OBVIOUS
<1>2. /\ DOMAIN Append(q, e) = 1..(Len(q) + 1)
      /\ \A i \in 1..Len(q) : Append(q, e)[i] = q[i]
      /\ Append(q, e)[Len(q) + 1] = e
  BY <1>1
<1>3. 1..(Len(q) + 1) = 1..Len(q) \union {Len(q) + 1}
  BY <1>1
<1>4. e # m => (Has(Append(q, e), m) <=> Has(q, m)) /\ (Once(q, m) => Once(Append(q, e), m))
  BY <1>1, <1>2, <1>3 DEF Has, Once
<1>5. ~Has(q, m) => Once(Append(q, e), m)
  BY <1>1, <1>2, <1>3 DEF Has, Once
<1> QED
  BY <1>1, <1>4, <1>5

LEMMA EmptyPipe ==
  ASSUME NEW m
  PROVE  <<>> \in Seq(Messages) /\ ~Has(<<>>, m) /\ Once(<<>>, m)
BY DEF Has, Once

LEMMA UnderwayIs ==
  \A p, c : Underway(p, c) <=> c \in asked[p] \union done[p] \/ Has(outbox[p], AnswerTo(c))
BY DEF Underway, Has, AnswerTo

LEMMA Names ==
  /\ NoCall \notin Calls /\ NoProc \notin Procs /\ ServerOf \in [Calls -> Servers]
  /\ \A p \in Procs : p[1] \in Calls /\ p[2] \in 1..2 /\ p = <<p[1], p[2]>> /\ Host(p) \in Servers
  /\ \A c \in Calls, k \in 1..2 : <<c, k>> \in Procs /\ Host(<<c, k>>) = ServerOf[c]
BY NoneAssumption, ServersAssumption DEF Procs, Host

LEMMA MessageKinds ==
  /\ \A kind \in {"hello", "refusal", "note", "junk", "torn"} :
       /\ [kind |-> kind, of |-> NoCall] \in Messages
       /\ \A c \in Calls : [kind |-> kind, of |-> NoCall] # AnswerTo(c)
  /\ \A c, d \in Calls : AnswerTo(c) \in Messages /\ (AnswerTo(c) = AnswerTo(d) => c = d)
  /\ \A m \in Messages : m.kind = "answer" => m.of \in Calls /\ m = AnswerTo(m.of)
BY Names DEF Messages, Told, Answers, AnswerTo

-----------------------------------------------------------------------------
(* Steps that put nothing into a pipe but what no call waits for *)

LEMMA UnderwayNext ==
  \A p, c : Underway(p, c)' <=> c \in asked'[p] \union done'[p] \/ Has(outbox'[p], AnswerTo(c))
BY DEF Underway, Has, AnswerTo

\* What is in the pipes is at most what was there.
Less ==
  \A p \in Procs, c \in Calls :
    /\ c \in asked'[p] => c \in asked[p]
    /\ c \in done'[p] => c \in done[p]
    /\ Has(outbox'[p], AnswerTo(c)) => Has(outbox[p], AnswerTo(c))
    /\ Once(outbox'[p], AnswerTo(c))

LEMMA LessUnderway ==
  ASSUME Less, NEW p \in Procs, NEW c \in Calls, Underway(p, c)'
  PROVE  Underway(p, c) /\ (Inv /\ c \in asked[p] => c \in asked'[p])
<1>1. Underway(p, c)
  BY UnderwayIs, UnderwayNext DEF Less
<1>2. Inv /\ c \in asked[p] => c \in asked'[p]
  BY UnderwayNext DEF Less, Inv, Traffic
<1> QED
  BY <1>1, <1>2

LEMMA Numbers ==
  ASSUME TypeOK, NEW c \in Calls
  PROVE  runs[c] \in Nat /\ attempt[c] \in Nat
<1>1. runs \in [Calls -> 0..2] /\ attempt \in [Calls -> 0..2]
  BY DEF TypeOK
<1> QED
  BY <1>1

\* Calls whose request is under way move on only as a failure does.
LEMMA LessStep ==
  ASSUME Inv, Less, runs' = runs, soiled \subseteq soiled',
         \A p \in Procs, c \in Calls : Underway(p, c)' =>
           /\ on'[c] = on[c] /\ session'[Host(p)] = session[Host(p)]
           /\ at'[c] \in {"reading", "failed"} \union Ended
           /\ at'[c] # at[c] => p \in soiled',
         \A c \in Calls : attempt[c] <= attempt'[c] /\ attempt'[c] \in Nat,
         \A c \in Calls : at'[c] = "idle" => at[c] = "idle" /\ attempt'[c] = attempt[c],
         \A c \in Calls : at'[c] \in {"queued", "starting", "ready"} => runs[c] < attempt'[c],
         \A c \in Calls : at'[c] = "answered" =>
           at[c] = "answered" /\ on'[c] = on[c] /\ got'[c] = got[c]
  PROVE  Traffic' /\ Clean' /\ Counted' /\ AnswersAreTrue'
<1>1. \A p \in Procs, c \in Calls : Underway(p, c)' => Underway(p, c)
  BY LessUnderway
<1>2. \A p \in Procs, c \in Calls : Underway(p, c)' /\ c \notin asked'[p] => c \notin asked[p]
  BY LessUnderway
<1>3. Traffic'
  <2>1. \A p \in Procs, c \in Calls : Underway(p, c)' =>
          on'[c] = p /\ session'[Host(p)] = p /\ at'[c] \in {"reading", "failed"} \union Ended
    BY <1>1 DEF Inv, Traffic
  <2>2. \A p \in Procs, c \in Calls : c \in asked'[p] => c \notin done'[p]
    BY DEF Inv, Traffic, Less
  <2>3. \A p \in Procs, c \in Calls : c \in asked'[p] \union done'[p] => ~Has(outbox'[p], AnswerTo(c))
    BY DEF Inv, Traffic, Less
  <2>4. \A p \in Procs, c \in Calls : Once(outbox'[p], AnswerTo(c))
    BY DEF Less
  <2> QED
    BY <2>1, <2>2, <2>3, <2>4 DEF Traffic, Ended, Has, Once, AnswerTo
<1>4. Clean'
  BY <1>1 DEF Inv, Clean
<1>5. Counted'
  <2>1. \A c \in Calls : runs[c] \in Nat /\ attempt[c] \in Nat
    BY Numbers DEF Inv
  <2>2. \A p \in Procs, c \in Calls : c \in asked'[p] => runs'[c] < attempt'[c]
    BY <2>1 DEF Inv, Counted, Less
  <2>3. \A p \in Procs, c \in Calls : Underway(p, c)' /\ c \notin asked'[p] => runs'[c] > 0
    BY <1>1, <1>2 DEF Inv, Counted
  <2>4. \A c \in Calls : runs'[c] <= attempt'[c] /\ (at'[c] = "idle" => attempt'[c] = 0)
    BY <2>1 DEF Inv, Counted
  <2> QED
    BY <2>2, <2>3, <2>4 DEF Counted
<1>6. AnswersAreTrue'
  <2> SUFFICES ASSUME NEW c \in Calls, at'[c] = "answered"
               PROVE  /\ on'[c] \notin soiled' => got'[c] = c
                      /\ got'[c] = c => runs'[c] \in 1..attempt'[c] /\ \A p \in Procs : ~Underway(p, c)'
    BY DEF AnswersAreTrue
  <2>1. at[c] = "answered" /\ on'[c] = on[c] /\ got'[c] = got[c]
    OBVIOUS
  <2>2. on[c] \notin soiled => got[c] = c
    BY <2>1 DEF Inv, AnswersAreTrue
  <2>3. got[c] = c => runs[c] \in 1..attempt[c] /\ \A p \in Procs : ~Underway(p, c)
    BY <2>1 DEF Inv, AnswersAreTrue
  <2>4. attempt[c] \in Nat /\ attempt'[c] \in Nat /\ attempt[c] <= attempt'[c]
    BY Numbers DEF Inv
  <2> QED
    BY <1>1, <2>1, <2>2, <2>3, <2>4
<1> QED
  BY <1>3, <1>4, <1>5, <1>6

PipeTypes ==
  /\ asked \in [Procs -> SUBSET Calls]
  /\ done \in [Procs -> SUBSET Calls]
  /\ outbox \in [Procs -> Seq(Messages)]

LEMMA SameFacts ==
  ASSUME Inv, UNCHANGED <<asked, done, outbox>>
  PROVE  Less /\ PipeTypes'
<1>1. Traffic /\ PipeTypes
  BY DEF Inv, TypeOK, PipeTypes
<1>2. asked' = asked /\ done' = done /\ outbox' = outbox
  OBVIOUS
<1> QED
  BY <1>1, <1>2 DEF Less, PipeTypes, Traffic

LEMMA TakeFacts ==
  ASSUME Inv, NEW c \in Calls, on[c] \in Procs, outbox[on[c]] # <<>>, Take(c),
         UNCHANGED <<asked, done>>
  PROVE  /\ Less /\ PipeTypes'
         /\ Head(outbox[on[c]]) \in Messages
         /\ \A d \in Calls : Head(outbox[on[c]]) = AnswerTo(d) =>
              Has(outbox[on[c]], AnswerTo(d)) /\ ~Has(outbox'[on[c]], AnswerTo(d))
<1> DEFINE p == on[c]
<1>1. Traffic /\ PipeTypes
  BY DEF Inv, TypeOK, PipeTypes
<1>2. asked' = asked /\ done' = done /\ p \in Procs /\ outbox[p] \in Seq(Messages)
  BY <1>1 DEF PipeTypes
<1>3. outbox'[p] = Tail(outbox[p]) /\ \A q \in Procs \ {p} : outbox'[q] = outbox[q]
  BY <1>1, <1>2 DEF PipeTypes, Take
<1>4. \A d : /\ Tail(outbox[p]) \in Seq(Messages) /\ Head(outbox[p]) \in Messages
             /\ Has(Tail(outbox[p]), AnswerTo(d)) => Has(outbox[p], AnswerTo(d))
             /\ Head(outbox[p]) = AnswerTo(d) => Has(outbox[p], AnswerTo(d))
             /\ Once(outbox[p], AnswerTo(d)) => Once(Tail(outbox[p]), AnswerTo(d))
             /\ Once(outbox[p], AnswerTo(d)) /\ Head(outbox[p]) = AnswerTo(d)
                  => ~Has(Tail(outbox[p]), AnswerTo(d))
  BY <1>2, TailFacts
<1>5. \A q \in Procs, d \in Calls : Once(outbox[q], AnswerTo(d))
  BY <1>1 DEF Traffic
<1>6. Less
  <2> SUFFICES ASSUME NEW q \in Procs, NEW d \in Calls
               PROVE  /\ Has(outbox'[q], AnswerTo(d)) => Has(outbox[q], AnswerTo(d))
                      /\ Once(outbox'[q], AnswerTo(d))
    BY <1>2 DEF Less
  <2> QED
    BY <1>3, <1>4, <1>5
<1>7. PipeTypes'
  <2>1. outbox' = [outbox EXCEPT ![p] = Tail(outbox[p])]
    BY DEF Take
  <2> QED
    BY <1>1, <1>2, <1>4, <2>1 DEF PipeTypes
<1> QED
  BY <1>2, <1>3, <1>4, <1>5, <1>6, <1>7

\* What is put in the place of the first message is no answer.
LEMMA PutFacts ==
  ASSUME NEW q \in Seq(Messages), q # <<>>, NEW e \in Messages, NEW m, e # m
  PROVE  LET r == [q EXCEPT ![1] = e] IN
           r \in Seq(Messages) /\ (Has(r, m) => Has(q, m)) /\ (Once(q, m) => Once(r, m))
<1> DEFINE r == [q EXCEPT ![1] = e]
<1>1. Len(q) \in Nat \ {0} /\ DOMAIN q = 1..Len(q) /\ r \in Seq(Messages)
  OBVIOUS
<1>2. DOMAIN r = DOMAIN q /\ \A i \in DOMAIN q : r[i] = m => q[i] = m
  BY <1>1
<1> QED
  BY <1>1, <1>2 DEF Has, Once

LEMMA TakeUnreadableFacts ==
  ASSUME Inv, NEW c \in Calls, on[c] \in Procs, Hears(c, {"junk", "torn"}), TakeUnreadable(c),
         UNCHANGED <<asked, done>>
  PROVE  Less /\ PipeTypes'
<1> DEFINE p == on[c]
           q == outbox[p]
           cut == Head(q).kind = "torn" /\ Len(q) > 1
           rest == IF cut THEN [Tail(q) EXCEPT ![1] = Head(q)] ELSE Tail(q)
<1>1. Traffic /\ PipeTypes /\ q # <<>> /\ Head(q).kind \in {"junk", "torn"}
  BY DEF Inv, TypeOK, PipeTypes, Hears
<1>2. asked' = asked /\ done' = done /\ q \in Seq(Messages)
  BY <1>1 DEF PipeTypes
<1>3. outbox' = [outbox EXCEPT ![p] = rest]
  BY DEF TakeUnreadable
<1>4. \A d : /\ Tail(q) \in Seq(Messages) /\ Head(q) \in Messages
             /\ Has(Tail(q), AnswerTo(d)) => Has(q, AnswerTo(d))
             /\ Once(q, AnswerTo(d)) => Once(Tail(q), AnswerTo(d))
  BY <1>1, <1>2, TailFacts
<1>5. \A d \in Calls : Head(q) # AnswerTo(d)
  BY <1>1 DEF AnswerTo
<1>6. cut => Tail(q) # <<>>
  BY <1>1, <1>2, TailFacts
<1>7. \A d \in Calls : /\ rest \in Seq(Messages)
                       /\ Has(rest, AnswerTo(d)) => Has(q, AnswerTo(d))
                       /\ Once(q, AnswerTo(d)) => Once(rest, AnswerTo(d))
  <2>1. CASE cut
    <3> SUFFICES ASSUME NEW d \in Calls
                 PROVE  LET r == [Tail(q) EXCEPT ![1] = Head(q)] IN
                          /\ r \in Seq(Messages)
                          /\ Has(r, AnswerTo(d)) => Has(q, AnswerTo(d))
                          /\ Once(q, AnswerTo(d)) => Once(r, AnswerTo(d))
      BY <2>1
    <3> HIDE DEF q, cut
    <3> QED
      BY <1>4, <1>5, <1>6, <2>1, PutFacts
  <2>2. CASE ~cut
    BY <1>4, <2>2
  <2> QED
    BY <2>1, <2>2
<1>8. rest \in Seq(Messages)
  BY <1>7
<1> HIDE DEF rest
<1>9. outbox'[p] = rest /\ \A r \in Procs \ {p} : outbox'[r] = outbox[r]
  BY <1>1, <1>3 DEF PipeTypes
<1>10. Less
  <2> SUFFICES ASSUME NEW r \in Procs, NEW d \in Calls
               PROVE  /\ Has(outbox'[r], AnswerTo(d)) => Has(outbox[r], AnswerTo(d))
                      /\ Once(outbox'[r], AnswerTo(d))
    BY <1>2 DEF Less
  <2>1. Once(outbox[r], AnswerTo(d))
    BY <1>1 DEF Traffic
  <2>2. CASE r = p
    BY <1>7, <1>9, <2>1, <2>2
  <2>3. CASE r # p
    BY <1>9, <2>1, <2>3
  <2> QED
    BY <2>2, <2>3
<1>11. PipeTypes'
  BY <1>1, <1>2, <1>3, <1>8 DEF PipeTypes
<1> QED
  BY <1>10, <1>11

LEMMA KillFacts ==
  ASSUME Inv, NEW killed, Kill(killed)
  PROVE  /\ Less /\ PipeTypes' /\ deaf' \subseteq Procs
         /\ proc' \in [Procs -> {"none", "fresh", "live", "dead"}]
         /\ \A p \in Procs : proc'[p] = IF p \in killed THEN "dead" ELSE proc[p]
         /\ \A p \in Procs \intersect killed, c \in Calls : ~Underway(p, c)'
<1>1. Traffic /\ PipeTypes /\ deaf \subseteq Procs /\ proc \in [Procs -> {"none", "fresh", "live", "dead"}]
  BY DEF Inv, TypeOK, PipeTypes
<1>2. \A p \in Procs :
        /\ asked'[p] = IF p \in killed THEN {} ELSE asked[p]
        /\ done'[p] = IF p \in killed THEN {} ELSE done[p]
        /\ outbox'[p] = IF p \in killed THEN <<>> ELSE outbox[p]
        /\ proc'[p] = IF p \in killed THEN "dead" ELSE proc[p]
  BY DEF Kill
<1>3. \A d : <<>> \in Seq(Messages) /\ ~Has(<<>>, AnswerTo(d)) /\ Once(<<>>, AnswerTo(d))
  BY EmptyPipe
<1>4. Less
  BY <1>1, <1>2, <1>3 DEF Less, Traffic
<1>5. PipeTypes'
  <2>1. asked' \in [Procs -> SUBSET Calls] /\ done' \in [Procs -> SUBSET Calls]
    BY <1>1 DEF PipeTypes, Kill
  <2>2. outbox' \in [Procs -> Seq(Messages)]
    BY <1>1, <1>3 DEF PipeTypes, Kill
  <2> QED
    BY <2>1, <2>2 DEF PipeTypes
<1>6. proc' \in [Procs -> {"none", "fresh", "live", "dead"}] /\ deaf' \subseteq Procs
  BY <1>1 DEF Kill
<1>7. \A p \in Procs \intersect killed, c \in Calls : ~Underway(p, c)'
  BY <1>2, <1>3, UnderwayNext
<1> QED
  BY <1>2, <1>4, <1>5, <1>6, <1>7

LEMMA SaysFacts ==
  ASSUME Inv, NEW p \in Procs, NEW kind \in {"hello", "refusal", "note", "junk", "torn"},
         Says(p, kind, NoCall), UNCHANGED <<asked, done>>
  PROVE  Less /\ PipeTypes'
<1> DEFINE m == [kind |-> kind, of |-> NoCall]
<1>1. Traffic /\ PipeTypes
  BY DEF Inv, TypeOK, PipeTypes
<1>2. asked' = asked /\ done' = done /\ outbox[p] \in Seq(Messages) /\ m \in Messages
  BY <1>1, MessageKinds DEF PipeTypes
<1>3. outbox' = [outbox EXCEPT ![p] = Append(outbox[p], m)]
  BY DEF Says
<1>4. \A d \in Calls : m # AnswerTo(d)
  BY MessageKinds
<1> HIDE DEF m
<1>5. outbox'[p] = Append(outbox[p], m) /\ \A q \in Procs \ {p} : outbox'[q] = outbox[q]
  BY <1>1, <1>3 DEF PipeTypes
<1>6. \A d \in Calls :
        /\ Append(outbox[p], m) \in Seq(Messages)
        /\ Has(Append(outbox[p], m), AnswerTo(d)) <=> Has(outbox[p], AnswerTo(d))
        /\ Once(outbox[p], AnswerTo(d)) => Once(Append(outbox[p], m), AnswerTo(d))
  BY <1>2, <1>4, AppendFacts
<1>7. Append(outbox[p], m) \in Seq(Messages)
  BY <1>2, AppendFacts
<1>8. Less
  <2> SUFFICES ASSUME NEW q \in Procs, NEW d \in Calls
               PROVE  /\ Has(outbox'[q], AnswerTo(d)) => Has(outbox[q], AnswerTo(d))
                      /\ Once(outbox'[q], AnswerTo(d))
    BY <1>2 DEF Less
  <2> QED
    <3>1. Once(outbox[q], AnswerTo(d))
      BY <1>1 DEF Traffic
    <3>2. CASE q = p
      BY <1>5, <1>6, <3>1, <3>2
    <3>3. CASE q # p
      BY <1>5, <3>1, <3>3
    <3> QED
      BY <3>2, <3>3
<1>9. PipeTypes'
  BY <1>1, <1>2, <1>3, <1>7 DEF PipeTypes
<1> QED
  BY <1>8, <1>9

-----------------------------------------------------------------------------
(* The caller's steps *)

RestTypes ==
  /\ holder \in Calls \union {NoCall}
  /\ at \in [Calls -> {"idle", "queued", "failed"} \union Holding \union Ended]
  /\ attempt \in [Calls -> 0..2]
  /\ on \in [Calls -> Procs \union {NoProc}]
  /\ got \in [Calls -> Calls \union {NoCall}]
  /\ session \in [Servers -> Procs \union {NoProc}]
  /\ proc \in [Procs -> {"none", "fresh", "live", "dead"}]
  /\ deaf \subseteq Procs
  /\ said \in Nat
  /\ runs \in [Calls -> 0..2]
  /\ soiled \subseteq Procs

LEMMA Types == TypeOK <=> PipeTypes /\ RestTypes
BY DEF TypeOK, PipeTypes, RestTypes

LEMMA TypesNext == TypeOK' <=> PipeTypes' /\ RestTypes'
BY DEF TypeOK, PipeTypes, RestTypes

Core == Locking /\ Attempts /\ LiveIsPooled

LEMMA BeginInv ==
  ASSUME Inv, NEW c \in Calls, Begin(c)
  PROVE  Inv'
<1>1. RestTypes /\ Core
  BY Types DEF Inv, Core
<1>2. Less /\ PipeTypes'
  BY SameFacts DEF Begin, serverVars
<1>3. RestTypes'
  BY <1>1 DEF RestTypes, Begin, serverVars, poolVars
<1>4. Locking'
  BY <1>1, Names DEF RestTypes, Core, Locking, Begin, serverVars, poolVars, Holding
<1>5. Attempts'
  BY <1>1, Names DEF RestTypes, Core, Attempts, Begin, serverVars, poolVars
<1>6. LiveIsPooled'
  BY <1>1, Names DEF RestTypes, Core, LiveIsPooled, Begin, serverVars, poolVars
<1>7. Traffic' /\ Clean' /\ Counted' /\ AnswersAreTrue'
  <2>1. \A p \in Procs, d \in Calls : Underway(p, d)' => Underway(p, d) /\ d # c
    BY <1>2, LessUnderway DEF Inv, Traffic, Begin, Ended
  <2>2. runs[c] = 0 /\ \A d \in Calls : attempt[d] \in Nat
    BY <1>1, Numbers DEF Begin, Inv, Counted
  <2>3. at' = [at EXCEPT ![c] = "queued"] /\ attempt' = [attempt EXCEPT ![c] = 1]
    BY DEF Begin
  <2> QED
    BY <1>1, <1>2, <2>1, <2>2, <2>3, LessStep DEF Begin, serverVars, poolVars, Inv, RestTypes, Traffic, Counted, Ended
<1> QED
  BY <1>2, <1>3, <1>4, <1>5, <1>6, <1>7, TypesNext DEF Inv

LEMMA UsesProc ==
  ASSUME Inv, NEW c \in Calls, at[c] \in Holding
  PROVE  on[c] \in Procs
<1>1. RestTypes /\ Locking /\ Attempts
  BY Types DEF Inv
<1>2. CASE at[c] = "starting"
  <2>1. attempt[c] \in 1..2 /\ on[c] = <<c, attempt[c]>>
    BY <1>1, <1>2 DEF Locking, Attempts
  <2> QED
    BY <2>1, Names
<1>3. CASE at[c] # "starting"
  <2>1. on[c] # NoProc /\ on[c] \in Procs \union {NoProc}
    BY <1>1, <1>3 DEF RestTypes, Locking, Holding
  <2> QED
    BY <2>1
<1> QED
  BY <1>2, <1>3

LEMMA FindSessionInv ==
  ASSUME Inv, NEW c \in Calls, FindSession(c)
  PROVE  Inv'
<1>1. RestTypes /\ Core
  BY Types DEF Inv, Core
<1>2. Less /\ PipeTypes'
  BY SameFacts DEF FindSession, serverVars
<1>3. RestTypes'
  BY <1>1, <1>2, Names DEF RestTypes, Core, Locking, Attempts, Holding, Ended, FindSession, MayLock, serverVars, poolVars, callVars
<1>4. Locking'
  BY <1>1, <1>2, Names DEF RestTypes, Core, Locking, Attempts, Holding, Ended, FindSession, MayLock, serverVars, poolVars, callVars
<1>5. Attempts'
  BY <1>1, <1>2, Names DEF RestTypes, Core, Locking, Attempts, Holding, FindSession, MayLock, serverVars, poolVars, callVars
<1>6. LiveIsPooled'
  BY <1>1, <1>2, Names DEF RestTypes, Core, Locking, Attempts, LiveIsPooled, Holding, FindSession, MayLock, serverVars, poolVars, callVars
<1>7. Traffic' /\ Clean' /\ Counted' /\ AnswersAreTrue'
  <2>1. \A p \in Procs, d \in Calls : Underway(p, d)' =>
          /\ on'[d] = on[d] /\ session'[Host(p)] = session[Host(p)]
          /\ at'[d] \in {"reading", "failed"} \union Ended
          /\ at'[d] # at[d] => p \in soiled'
    BY <1>1, <1>2, LessUnderway, Names DEF Inv, Core, RestTypes, Locking, Attempts, Traffic, Ended, Holding, FindSession, MayLock, serverVars, poolVars, callVars
  <2>2. \A d \in Calls : attempt[d] \in Nat /\ runs[d] \in Nat
    BY Numbers DEF Inv
  <2>3. \A d \in Calls : attempt[d] <= attempt'[d] /\ attempt'[d] \in Nat
    BY <1>1, <2>2 DEF RestTypes, Core, Attempts, FindSession, MayLock, serverVars, poolVars, callVars
  <2>4. \A d \in Calls :
          /\ at'[d] = "idle" => at[d] = "idle" /\ attempt'[d] = attempt[d]
          /\ at'[d] \in {"queued", "starting", "ready"} => runs[d] < attempt'[d]
          /\ at'[d] = "answered" => at[d] = "answered" /\ on'[d] = on[d] /\ got'[d] = got[d]
    BY <1>1, <2>2 DEF Inv, RestTypes, Core, Locking, Attempts, Counted, Ended, Holding, FindSession, MayLock, serverVars, poolVars, callVars
  <2>5. runs' = runs /\ soiled \subseteq soiled'
    BY DEF FindSession, MayLock, serverVars, poolVars, callVars
  <2> QED
    BY <1>2, <2>1, <2>3, <2>4, <2>5, LessStep
<1> QED
  BY <1>2, <1>3, <1>4, <1>5, <1>6, <1>7, TypesNext DEF Inv

LEMMA SpawnInv ==
  ASSUME Inv, NEW c \in Calls, Spawn(c)
  PROVE  Inv'
<1>1. RestTypes /\ Core
  BY Types DEF Inv, Core
<1>2. Less /\ PipeTypes'
  BY SameFacts DEF Spawn, serverVars
<1>3. RestTypes'
  BY <1>1, <1>2, Names DEF RestTypes, Core, Locking, Attempts, Holding, Ended, Spawn, MayLock, serverVars, poolVars, callVars
<1>4. Locking'
  <2> DEFINE p == <<c, attempt[c]>>
  <2>1. p \in Procs /\ Host(p) = ServerOf[c] /\ attempt[c] \in 1..2
    BY <1>1, Names DEF RestTypes, Core, Attempts, Spawn, MayLock
  <2>2. /\ holder = NoCall /\ at[c] = "queued" /\ session[ServerOf[c]] = NoProc
        /\ holder' = c /\ at' = [at EXCEPT ![c] = "starting"] /\ on' = [on EXCEPT ![c] = p]
        /\ proc' = [proc EXCEPT ![p] = "fresh"]
        /\ attempt' = attempt /\ session' = session
    BY DEF Spawn, MayLock
  <2> HIDE DEF p
  <2>3. \A d \in Calls : at[d] \notin Holding
    BY <1>1, <2>2, Names DEF Core, Locking
  <2>4. \A d \in Calls : at'[d] = IF d = c THEN "starting" ELSE at[d]
    BY <1>1, <2>2 DEF RestTypes
  <2>5. \A d \in Calls : on'[d] = IF d = c THEN p ELSE on[d]
    BY <1>1, <2>2 DEF RestTypes
  <2>6. proc'[p] = "fresh" /\ \A q \in Procs : proc[q] # "none" => proc'[q] # "none"
    BY <1>1, <2>1, <2>2 DEF RestTypes
  <2>7. \A d \in Calls : holder' = d <=> at'[d] \in Holding
    BY <2>2, <2>3, <2>4 DEF Holding
  <2>8. \A d \in Calls : at'[d] = "starting" =>
          on'[d] = <<d, attempt'[d]>> /\ session'[ServerOf[d]] = NoProc
    BY <2>2, <2>3, <2>4, <2>5 DEF Holding, p
  <2>9. \A d \in Calls : at'[d] \in {"ready", "reading"} => session'[ServerOf[d]] = on'[d] /\ on'[d] # NoProc
    BY <2>3, <2>4 DEF Holding
  <2>10. \A d \in Calls : on'[d] # NoProc => Host(on'[d]) = ServerOf[d] /\ proc'[on'[d]] # "none"
    BY <1>1, <2>1, <2>5, <2>6 DEF RestTypes, Core, Locking
  <2>11. \A s \in Servers : session'[s] # NoProc => Host(session'[s]) = s /\ proc'[session'[s]] # "none"
    BY <1>1, <2>2, <2>6 DEF RestTypes, Core, Locking
  <2> QED
    BY <2>7, <2>8, <2>9, <2>10, <2>11 DEF Locking, Host
<1>5. Attempts'
  BY <1>1, <1>2, Names DEF RestTypes, Core, Locking, Attempts, Holding, Spawn, MayLock, serverVars, poolVars, callVars
<1>6. LiveIsPooled'
  BY <1>1, <1>2, Names DEF RestTypes, Core, Locking, Attempts, LiveIsPooled, Holding, Spawn, MayLock, serverVars, poolVars, callVars
<1>7. Traffic' /\ Clean' /\ Counted' /\ AnswersAreTrue'
  <2>1. \A p \in Procs, d \in Calls : Underway(p, d)' =>
          /\ on'[d] = on[d] /\ session'[Host(p)] = session[Host(p)]
          /\ at'[d] \in {"reading", "failed"} \union Ended
          /\ at'[d] # at[d] => p \in soiled'
    BY <1>1, <1>2, LessUnderway, Names DEF Inv, Core, RestTypes, Locking, Attempts, Traffic, Ended, Holding, Spawn, MayLock, serverVars, poolVars, callVars
  <2>2. \A d \in Calls : attempt[d] \in Nat /\ runs[d] \in Nat
    BY Numbers DEF Inv
  <2>3. \A d \in Calls : attempt[d] <= attempt'[d] /\ attempt'[d] \in Nat
    BY <1>1, <2>2 DEF RestTypes, Core, Attempts, Spawn, MayLock, serverVars, poolVars, callVars
  <2>4. \A d \in Calls :
          /\ at'[d] = "idle" => at[d] = "idle" /\ attempt'[d] = attempt[d]
          /\ at'[d] \in {"queued", "starting", "ready"} => runs[d] < attempt'[d]
          /\ at'[d] = "answered" => at[d] = "answered" /\ on'[d] = on[d] /\ got'[d] = got[d]
    BY <1>1, <2>2 DEF Inv, RestTypes, Core, Locking, Attempts, Counted, Ended, Holding, Spawn, MayLock, serverVars, poolVars, callVars
  <2>5. runs' = runs /\ soiled \subseteq soiled'
    BY DEF Spawn, MayLock, serverVars, poolVars, callVars
  <2> QED
    BY <1>2, <2>1, <2>3, <2>4, <2>5, LessStep
<1> QED
  BY <1>2, <1>3, <1>4, <1>5, <1>6, <1>7, TypesNext DEF Inv

LEMMA SpawnFailsInv ==
  ASSUME Inv, NEW c \in Calls, SpawnFails(c)
  PROVE  Inv'
<1>1. RestTypes /\ Core
  BY Types DEF Inv, Core
<1>2. Less /\ PipeTypes'
  BY SameFacts DEF SpawnFails, serverVars
<1>3. RestTypes'
  BY <1>1, <1>2, Names DEF RestTypes, Core, Locking, Attempts, Holding, Ended, SpawnFails, MayLock, Fail, serverVars, poolVars, callVars
<1>4. Locking'
  BY <1>1, <1>2, Names DEF RestTypes, Core, Locking, Attempts, Holding, Ended, SpawnFails, MayLock, Fail, serverVars, poolVars, callVars
<1>5. Attempts'
  BY <1>1, <1>2, Names DEF RestTypes, Core, Locking, Attempts, Holding, SpawnFails, MayLock, Fail, serverVars, poolVars, callVars
<1>6. LiveIsPooled'
  BY <1>1, <1>2, Names DEF RestTypes, Core, Locking, Attempts, LiveIsPooled, Holding, SpawnFails, MayLock, Fail, serverVars, poolVars, callVars
<1>7. Traffic' /\ Clean' /\ Counted' /\ AnswersAreTrue'
  <2>1. \A p \in Procs, d \in Calls : Underway(p, d)' =>
          /\ on'[d] = on[d] /\ session'[Host(p)] = session[Host(p)]
          /\ at'[d] \in {"reading", "failed"} \union Ended
          /\ at'[d] # at[d] => p \in soiled'
    BY <1>1, <1>2, LessUnderway, Names DEF Inv, Core, RestTypes, Locking, Attempts, Traffic, Ended, Holding, SpawnFails, MayLock, Fail, serverVars, poolVars, callVars
  <2>2. \A d \in Calls : attempt[d] \in Nat /\ runs[d] \in Nat
    BY Numbers DEF Inv
  <2>3. \A d \in Calls : attempt[d] <= attempt'[d] /\ attempt'[d] \in Nat
    BY <1>1, <2>2 DEF RestTypes, Core, Attempts, SpawnFails, MayLock, Fail, serverVars, poolVars, callVars
  <2>4. \A d \in Calls :
          /\ at'[d] = "idle" => at[d] = "idle" /\ attempt'[d] = attempt[d]
          /\ at'[d] \in {"queued", "starting", "ready"} => runs[d] < attempt'[d]
          /\ at'[d] = "answered" => at[d] = "answered" /\ on'[d] = on[d] /\ got'[d] = got[d]
    BY <1>1, <2>2 DEF Inv, RestTypes, Core, Locking, Attempts, Counted, Ended, Holding, SpawnFails, MayLock, Fail, serverVars, poolVars, callVars
  <2>5. runs' = runs /\ soiled \subseteq soiled'
    BY DEF SpawnFails, MayLock, Fail, serverVars, poolVars, callVars
  <2> QED
    BY <1>2, <2>1, <2>3, <2>4, <2>5, LessStep
<1> QED
  BY <1>2, <1>3, <1>4, <1>5, <1>6, <1>7, TypesNext DEF Inv

LEMMA SendFailsInv ==
  ASSUME Inv, NEW c \in Calls, SendFails(c)
  PROVE  Inv'
<1>1. RestTypes /\ Core
  BY Types DEF Inv, Core
<1>2. Less /\ PipeTypes'
  BY SameFacts DEF SendFails, serverVars
<1>3. RestTypes'
  BY <1>1, <1>2, Names DEF RestTypes, Core, Locking, Attempts, Holding, Ended, SendFails, Fail, serverVars, poolVars, callVars
<1>4. Locking'
  BY <1>1, <1>2, Names DEF RestTypes, Core, Locking, Attempts, Holding, Ended, SendFails, Fail, serverVars, poolVars, callVars
<1>5. Attempts'
  BY <1>1, <1>2, Names DEF RestTypes, Core, Locking, Attempts, Holding, SendFails, Fail, serverVars, poolVars, callVars
<1>6. LiveIsPooled'
  BY <1>1, <1>2, Names DEF RestTypes, Core, Locking, Attempts, LiveIsPooled, Holding, SendFails, Fail, serverVars, poolVars, callVars
<1>7. Traffic' /\ Clean' /\ Counted' /\ AnswersAreTrue'
  <2>1. \A p \in Procs, d \in Calls : Underway(p, d)' =>
          /\ on'[d] = on[d] /\ session'[Host(p)] = session[Host(p)]
          /\ at'[d] \in {"reading", "failed"} \union Ended
          /\ at'[d] # at[d] => p \in soiled'
    BY <1>1, <1>2, LessUnderway, Names DEF Inv, Core, RestTypes, Locking, Attempts, Traffic, Ended, Holding, SendFails, Fail, serverVars, poolVars, callVars
  <2>2. \A d \in Calls : attempt[d] \in Nat /\ runs[d] \in Nat
    BY Numbers DEF Inv
  <2>3. \A d \in Calls : attempt[d] <= attempt'[d] /\ attempt'[d] \in Nat
    BY <1>1, <2>2 DEF RestTypes, Core, Attempts, SendFails, Fail, serverVars, poolVars, callVars
  <2>4. \A d \in Calls :
          /\ at'[d] = "idle" => at[d] = "idle" /\ attempt'[d] = attempt[d]
          /\ at'[d] \in {"queued", "starting", "ready"} => runs[d] < attempt'[d]
          /\ at'[d] = "answered" => at[d] = "answered" /\ on'[d] = on[d] /\ got'[d] = got[d]
    BY <1>1, <2>2 DEF Inv, RestTypes, Core, Locking, Attempts, Counted, Ended, Holding, SendFails, Fail, serverVars, poolVars, callVars
  <2>5. runs' = runs /\ soiled \subseteq soiled'
    BY DEF SendFails, Fail, serverVars, poolVars, callVars
  <2> QED
    BY <1>2, <2>1, <2>3, <2>4, <2>5, LessStep
<1> QED
  BY <1>2, <1>3, <1>4, <1>5, <1>6, <1>7, TypesNext DEF Inv

LEMMA InitializedInv ==
  ASSUME Inv, NEW c \in Calls, Initialized(c)
  PROVE  Inv'
<1>1. RestTypes /\ Core
  BY Types DEF Inv, Core
<1>2. Less /\ PipeTypes'
  BY UsesProc, TakeFacts DEF Initialized, Hears, Awaits, Holding, serverVars
<1>3. RestTypes'
  BY <1>1, <1>2, Names DEF RestTypes, Core, Locking, Attempts, Holding, Ended, Initialized, Hears, Awaits, Wanted, serverVars, poolVars, callVars
<1>4. Locking'
  <2>1. /\ at[c] = "starting" /\ at' = [at EXCEPT ![c] = "ready"]
        /\ session' = [session EXCEPT ![ServerOf[c]] = on[c]]
        /\ on' = on /\ attempt' = attempt /\ holder' = holder /\ proc' = proc
    BY DEF Initialized, Hears, Awaits, Wanted
  <2>2. on[c] \in Procs /\ ServerOf[c] \in Servers /\ on[c] # NoProc
    BY <2>1, UsesProc, Names DEF Holding
  <2>3. /\ \A d \in Calls : at'[d] = IF d = c THEN "ready" ELSE at[d]
        /\ \A s \in Servers : session'[s] = IF s = ServerOf[c] THEN on[c] ELSE session[s]
    BY <1>1, <2>1 DEF RestTypes
  <2>4. \A d \in Calls : holder = d <=> at[d] \in Holding
    BY <1>1 DEF Core, Locking
  <2>5. holder = c /\ \A d \in Calls \ {c} : at[d] \notin Holding
    BY <2>1, <2>4 DEF Holding
  <2>6. \A d \in Calls : holder' = d <=> at'[d] \in Holding
    BY <2>1, <2>3, <2>5 DEF Holding
  <2>7. \A d \in Calls : at'[d] # "starting"
    BY <2>3, <2>5 DEF Holding
  <2>8. \A d \in Calls : at'[d] \in {"ready", "reading"} => session'[ServerOf[d]] = on'[d] /\ on'[d] # NoProc
    BY <2>1, <2>2, <2>3, <2>5 DEF Holding
  <2>9. \A d \in Calls : on'[d] # NoProc => Host(on'[d]) = ServerOf[d] /\ proc'[on'[d]] # "none"
    BY <1>1, <2>1 DEF Core, Locking
  <2>10. \A s \in Servers : session'[s] # NoProc => Host(session'[s]) = s /\ proc'[session'[s]] # "none"
    BY <1>1, <2>1, <2>2, <2>3 DEF Core, Locking
  <2> QED
    BY <2>6, <2>7, <2>8, <2>9, <2>10 DEF Locking, Host
<1>5. Attempts'
  BY <1>1, <1>2, Names DEF RestTypes, Core, Locking, Attempts, Holding, Initialized, Hears, Awaits, Wanted, serverVars, poolVars, callVars
<1>6. LiveIsPooled'
  BY <1>1, <1>2, Names DEF RestTypes, Core, Locking, Attempts, LiveIsPooled, Holding, Initialized, Hears, Awaits, Wanted, serverVars, poolVars, callVars
<1>7. Traffic' /\ Clean' /\ Counted' /\ AnswersAreTrue'
  <2>1. \A p \in Procs, d \in Calls : Underway(p, d)' =>
          /\ on'[d] = on[d] /\ session'[Host(p)] = session[Host(p)]
          /\ at'[d] \in {"reading", "failed"} \union Ended
          /\ at'[d] # at[d] => p \in soiled'
    BY <1>1, <1>2, LessUnderway, Names DEF Inv, Core, RestTypes, Locking, Attempts, Traffic, Ended, Holding, Initialized, Hears, Awaits, Wanted, serverVars, poolVars, callVars
  <2>2. \A d \in Calls : attempt[d] \in Nat /\ runs[d] \in Nat
    BY Numbers DEF Inv
  <2>3. \A d \in Calls : attempt[d] <= attempt'[d] /\ attempt'[d] \in Nat
    BY <1>1, <2>2 DEF RestTypes, Core, Attempts, Initialized, Hears, Awaits, Wanted, serverVars, poolVars, callVars
  <2>4. \A d \in Calls :
          /\ at'[d] = "idle" => at[d] = "idle" /\ attempt'[d] = attempt[d]
          /\ at'[d] \in {"queued", "starting", "ready"} => runs[d] < attempt'[d]
          /\ at'[d] = "answered" => at[d] = "answered" /\ on'[d] = on[d] /\ got'[d] = got[d]
    BY <1>1, <2>2 DEF Inv, RestTypes, Core, Locking, Attempts, Counted, Ended, Holding, Initialized, Hears, Awaits, Wanted, serverVars, poolVars, callVars
  <2>5. runs' = runs /\ soiled \subseteq soiled'
    BY DEF Initialized, Hears, Awaits, Wanted, serverVars, poolVars, callVars
  <2> QED
    BY <1>2, <2>1, <2>3, <2>4, <2>5, LessStep
<1> QED
  BY <1>2, <1>3, <1>4, <1>5, <1>6, <1>7, TypesNext DEF Inv

LEMMA SkipInv ==
  ASSUME Inv, NEW c \in Calls, Skip(c)
  PROVE  Inv'
<1>1. RestTypes /\ Core
  BY Types DEF Inv, Core
<1>2. Less /\ PipeTypes'
  BY UsesProc, TakeFacts DEF Skip, Hears, Awaits, Holding, serverVars
<1>3. RestTypes'
  BY <1>1, <1>2, Names DEF RestTypes, Core, Locking, Attempts, Holding, Ended, Skip, Hears, Awaits, serverVars, poolVars, callVars
<1>4. Locking'
  BY <1>1, <1>2, Names DEF RestTypes, Core, Locking, Attempts, Holding, Ended, Skip, Hears, Awaits, serverVars, poolVars, callVars
<1>5. Attempts'
  BY <1>1, <1>2, Names DEF RestTypes, Core, Locking, Attempts, Holding, Skip, Hears, Awaits, serverVars, poolVars, callVars
<1>6. LiveIsPooled'
  BY <1>1, <1>2, Names DEF RestTypes, Core, Locking, Attempts, LiveIsPooled, Holding, Skip, Hears, Awaits, serverVars, poolVars, callVars
<1>7. Traffic' /\ Clean' /\ Counted' /\ AnswersAreTrue'
  <2>1. \A p \in Procs, d \in Calls : Underway(p, d)' =>
          /\ on'[d] = on[d] /\ session'[Host(p)] = session[Host(p)]
          /\ at'[d] \in {"reading", "failed"} \union Ended
          /\ at'[d] # at[d] => p \in soiled'
    BY <1>1, <1>2, LessUnderway, Names DEF Inv, Core, RestTypes, Locking, Attempts, Traffic, Ended, Holding, Skip, Hears, Awaits, serverVars, poolVars, callVars
  <2>2. \A d \in Calls : attempt[d] \in Nat /\ runs[d] \in Nat
    BY Numbers DEF Inv
  <2>3. \A d \in Calls : attempt[d] <= attempt'[d] /\ attempt'[d] \in Nat
    BY <1>1, <2>2 DEF RestTypes, Core, Attempts, Skip, Hears, Awaits, serverVars, poolVars, callVars
  <2>4. \A d \in Calls :
          /\ at'[d] = "idle" => at[d] = "idle" /\ attempt'[d] = attempt[d]
          /\ at'[d] \in {"queued", "starting", "ready"} => runs[d] < attempt'[d]
          /\ at'[d] = "answered" => at[d] = "answered" /\ on'[d] = on[d] /\ got'[d] = got[d]
    BY <1>1, <2>2 DEF Inv, RestTypes, Core, Locking, Attempts, Counted, Ended, Holding, Skip, Hears, Awaits, serverVars, poolVars, callVars
  <2>5. runs' = runs /\ soiled \subseteq soiled'
    BY DEF Skip, Hears, Awaits, serverVars, poolVars, callVars
  <2> QED
    BY <1>2, <2>1, <2>3, <2>4, <2>5, LessStep
<1> QED
  BY <1>2, <1>3, <1>4, <1>5, <1>6, <1>7, TypesNext DEF Inv

LEMMA RefusedInv ==
  ASSUME Inv, NEW c \in Calls, Refused(c)
  PROVE  Inv'
<1>1. RestTypes /\ Core
  BY Types DEF Inv, Core
<1>2. /\ Less /\ PipeTypes' /\ deaf' \subseteq Procs
      /\ proc' \in [Procs -> {"none", "fresh", "live", "dead"}]
      /\ \A p \in Procs : proc'[p] = IF p \in {on[c]} THEN "dead" ELSE proc[p]
      /\ \A p \in Procs \intersect {on[c]}, d \in Calls : ~Underway(p, d)'
  BY KillFacts DEF Refused
<1>3. RestTypes'
  BY <1>1, <1>2, Names DEF RestTypes, Core, Locking, Attempts, Holding, Ended, Refused, Hears, Awaits, Wanted, Fail, serverVars, poolVars, callVars
<1>4. Locking'
  BY <1>1, <1>2, Names DEF RestTypes, Core, Locking, Attempts, Holding, Ended, Refused, Hears, Awaits, Wanted, Fail, serverVars, poolVars, callVars
<1>5. Attempts'
  BY <1>1, <1>2, Names DEF RestTypes, Core, Locking, Attempts, Holding, Refused, Hears, Awaits, Wanted, Fail, serverVars, poolVars, callVars
<1>6. LiveIsPooled'
  BY <1>1, <1>2, Names DEF RestTypes, Core, Locking, Attempts, LiveIsPooled, Holding, Refused, Hears, Awaits, Wanted, Fail, serverVars, poolVars, callVars
<1>7. Traffic' /\ Clean' /\ Counted' /\ AnswersAreTrue'
  <2>1. \A p \in Procs, d \in Calls : Underway(p, d)' =>
          /\ on'[d] = on[d] /\ session'[Host(p)] = session[Host(p)]
          /\ at'[d] \in {"reading", "failed"} \union Ended
          /\ at'[d] # at[d] => p \in soiled'
    BY <1>1, <1>2, LessUnderway, Names DEF Inv, Core, RestTypes, Locking, Attempts, Traffic, Ended, Holding, Refused, Hears, Awaits, Wanted, Fail, serverVars, poolVars, callVars
  <2>2. \A d \in Calls : attempt[d] \in Nat /\ runs[d] \in Nat
    BY Numbers DEF Inv
  <2>3. \A d \in Calls : attempt[d] <= attempt'[d] /\ attempt'[d] \in Nat
    BY <1>1, <2>2 DEF RestTypes, Core, Attempts, Refused, Hears, Awaits, Wanted, Fail, serverVars, poolVars, callVars
  <2>4. \A d \in Calls :
          /\ at'[d] = "idle" => at[d] = "idle" /\ attempt'[d] = attempt[d]
          /\ at'[d] \in {"queued", "starting", "ready"} => runs[d] < attempt'[d]
          /\ at'[d] = "answered" => at[d] = "answered" /\ on'[d] = on[d] /\ got'[d] = got[d]
    BY <1>1, <2>2 DEF Inv, RestTypes, Core, Locking, Attempts, Counted, Ended, Holding, Refused, Hears, Awaits, Wanted, Fail, serverVars, poolVars, callVars
  <2>5. runs' = runs /\ soiled \subseteq soiled'
    BY DEF Refused, Hears, Awaits, Wanted, Fail, serverVars, poolVars, callVars
  <2> QED
    BY <1>2, <2>1, <2>3, <2>4, <2>5, LessStep
<1> QED
  BY <1>2, <1>3, <1>4, <1>5, <1>6, <1>7, TypesNext DEF Inv

LEMMA StartFailsInv ==
  ASSUME Inv, NEW c \in Calls, StartFails(c)
  PROVE  Inv'
<1>1. RestTypes /\ Core
  BY Types DEF Inv, Core
<1>2. /\ Less /\ PipeTypes' /\ deaf' \subseteq Procs
      /\ proc' \in [Procs -> {"none", "fresh", "live", "dead"}]
      /\ \A p \in Procs : proc'[p] = IF p \in {on[c]} THEN "dead" ELSE proc[p]
      /\ \A p \in Procs \intersect {on[c]}, d \in Calls : ~Underway(p, d)'
  BY KillFacts DEF StartFails
<1>3. RestTypes'
  BY <1>1, <1>2, Names DEF RestTypes, Core, Locking, Attempts, Holding, Ended, StartFails, Fail, serverVars, poolVars, callVars
<1>4. Locking'
  BY <1>1, <1>2, Names DEF RestTypes, Core, Locking, Attempts, Holding, Ended, StartFails, Fail, serverVars, poolVars, callVars
<1>5. Attempts'
  BY <1>1, <1>2, Names DEF RestTypes, Core, Locking, Attempts, Holding, StartFails, Fail, serverVars, poolVars, callVars
<1>6. LiveIsPooled'
  BY <1>1, <1>2, Names DEF RestTypes, Core, Locking, Attempts, LiveIsPooled, Holding, StartFails, Fail, serverVars, poolVars, callVars
<1>7. Traffic' /\ Clean' /\ Counted' /\ AnswersAreTrue'
  <2>1. \A p \in Procs, d \in Calls : Underway(p, d)' =>
          /\ on'[d] = on[d] /\ session'[Host(p)] = session[Host(p)]
          /\ at'[d] \in {"reading", "failed"} \union Ended
          /\ at'[d] # at[d] => p \in soiled'
    BY <1>1, <1>2, LessUnderway, Names DEF Inv, Core, RestTypes, Locking, Attempts, Traffic, Ended, Holding, StartFails, Fail, serverVars, poolVars, callVars
  <2>2. \A d \in Calls : attempt[d] \in Nat /\ runs[d] \in Nat
    BY Numbers DEF Inv
  <2>3. \A d \in Calls : attempt[d] <= attempt'[d] /\ attempt'[d] \in Nat
    BY <1>1, <2>2 DEF RestTypes, Core, Attempts, StartFails, Fail, serverVars, poolVars, callVars
  <2>4. \A d \in Calls :
          /\ at'[d] = "idle" => at[d] = "idle" /\ attempt'[d] = attempt[d]
          /\ at'[d] \in {"queued", "starting", "ready"} => runs[d] < attempt'[d]
          /\ at'[d] = "answered" => at[d] = "answered" /\ on'[d] = on[d] /\ got'[d] = got[d]
    BY <1>1, <2>2 DEF Inv, RestTypes, Core, Locking, Attempts, Counted, Ended, Holding, StartFails, Fail, serverVars, poolVars, callVars
  <2>5. runs' = runs /\ soiled \subseteq soiled'
    BY DEF StartFails, Fail, serverVars, poolVars, callVars
  <2> QED
    BY <1>2, <2>1, <2>3, <2>4, <2>5, LessStep
<1> QED
  BY <1>2, <1>3, <1>4, <1>5, <1>6, <1>7, TypesNext DEF Inv

LEMMA ReadFailsInv ==
  ASSUME Inv, NEW c \in Calls, ReadFails(c)
  PROVE  Inv'
<1>1. RestTypes /\ Core
  BY Types DEF Inv, Core
<1>2. Less /\ PipeTypes'
  <2>1. CASE NothingComes(c) /\ UNCHANGED outbox
    BY <2>1, SameFacts DEF ReadFails
  <2>2. CASE Unreadable(c) /\ TakeUnreadable(c)
    BY <2>2, UsesProc, TakeUnreadableFacts DEF ReadFails, Unreadable, Hears, Awaits, Holding
  <2> QED
    BY <2>1, <2>2 DEF ReadFails
<1>3. RestTypes'
  BY <1>1, <1>2, Names DEF RestTypes, Core, Locking, Attempts, Holding, Ended, ReadFails, Fail, serverVars, poolVars, callVars
<1>4. Locking'
  BY <1>1, <1>2, Names DEF RestTypes, Core, Locking, Attempts, Holding, Ended, ReadFails, Fail, serverVars, poolVars, callVars
<1>5. Attempts'
  BY <1>1, <1>2, Names DEF RestTypes, Core, Locking, Attempts, Holding, ReadFails, Fail, serverVars, poolVars, callVars
<1>6. LiveIsPooled'
  BY <1>1, <1>2, Names DEF RestTypes, Core, Locking, Attempts, LiveIsPooled, Holding, ReadFails, Fail, serverVars, poolVars, callVars
<1>7. Traffic' /\ Clean' /\ Counted' /\ AnswersAreTrue'
  <2>1. \A p \in Procs, d \in Calls : Underway(p, d)' =>
          /\ on'[d] = on[d] /\ session'[Host(p)] = session[Host(p)]
          /\ at'[d] \in {"reading", "failed"} \union Ended
          /\ at'[d] # at[d] => p \in soiled'
    BY <1>1, <1>2, LessUnderway, Names DEF Inv, Core, RestTypes, Locking, Attempts, Traffic, Ended, Holding, ReadFails, Fail, serverVars, poolVars, callVars
  <2>2. \A d \in Calls : attempt[d] \in Nat /\ runs[d] \in Nat
    BY Numbers DEF Inv
  <2>3. \A d \in Calls : attempt[d] <= attempt'[d] /\ attempt'[d] \in Nat
    BY <1>1, <2>2 DEF RestTypes, Core, Attempts, ReadFails, Fail, serverVars, poolVars, callVars
  <2>4. \A d \in Calls :
          /\ at'[d] = "idle" => at[d] = "idle" /\ attempt'[d] = attempt[d]
          /\ at'[d] \in {"queued", "starting", "ready"} => runs[d] < attempt'[d]
          /\ at'[d] = "answered" => at[d] = "answered" /\ on'[d] = on[d] /\ got'[d] = got[d]
    BY <1>1, <2>2 DEF Inv, RestTypes, Core, Locking, Attempts, Counted, Ended, Holding, ReadFails, Fail, serverVars, poolVars, callVars
  <2>5. runs' = runs /\ soiled \subseteq soiled'
    BY DEF ReadFails, Fail, serverVars, poolVars, callVars
  <2> QED
    BY <1>2, <2>1, <2>3, <2>4, <2>5, LessStep
<1> QED
  BY <1>2, <1>3, <1>4, <1>5, <1>6, <1>7, TypesNext DEF Inv

LEMMA DropInv ==
  ASSUME Inv, NEW c \in Calls, Drop(c)
  PROVE  Inv'
<1>1. RestTypes /\ Core
  BY Types DEF Inv, Core
<1>2. /\ Less /\ PipeTypes' /\ deaf' \subseteq Procs
      /\ proc' \in [Procs -> {"none", "fresh", "live", "dead"}]
      /\ \A p \in Procs : proc'[p] = IF p \in ({session[ServerOf[c]]} \ {NoProc}) THEN "dead" ELSE proc[p]
      /\ \A p \in Procs \intersect ({session[ServerOf[c]]} \ {NoProc}), d \in Calls : ~Underway(p, d)'
  BY KillFacts DEF Drop
<1>3. RestTypes'
  BY <1>1, <1>2, Names DEF RestTypes, Core, Locking, Attempts, Holding, Ended, Drop, serverVars, poolVars, callVars
<1>4. Locking'
  BY <1>1, <1>2, Names DEF RestTypes, Core, Locking, Attempts, Holding, Ended, Drop, serverVars, poolVars, callVars
<1>5. Attempts'
  BY <1>1, <1>2, Names DEF RestTypes, Core, Locking, Attempts, Holding, Drop, serverVars, poolVars, callVars
<1>6. LiveIsPooled'
  BY <1>1, <1>2, Names DEF RestTypes, Core, Locking, Attempts, LiveIsPooled, Holding, Drop, serverVars, poolVars, callVars
<1>7. Traffic' /\ Clean' /\ Counted' /\ AnswersAreTrue'
  <2>1. \A p \in Procs, d \in Calls : Underway(p, d)' =>
          /\ on'[d] = on[d] /\ session'[Host(p)] = session[Host(p)]
          /\ at'[d] \in {"reading", "failed"} \union Ended
          /\ at'[d] # at[d] => p \in soiled'
    BY <1>1, <1>2, LessUnderway, Names DEF Inv, Core, RestTypes, Locking, Attempts, Traffic, Ended, Holding, Drop, serverVars, poolVars, callVars
  <2>2. \A d \in Calls : attempt[d] \in Nat /\ runs[d] \in Nat
    BY Numbers DEF Inv
  <2>3. \A d \in Calls : attempt[d] <= attempt'[d] /\ attempt'[d] \in Nat
    BY <1>1, <2>2 DEF RestTypes, Core, Attempts, Drop, serverVars, poolVars, callVars
  <2>4. \A d \in Calls :
          /\ at'[d] = "idle" => at[d] = "idle" /\ attempt'[d] = attempt[d]
          /\ at'[d] \in {"queued", "starting", "ready"} => runs[d] < attempt'[d]
          /\ at'[d] = "answered" => at[d] = "answered" /\ on'[d] = on[d] /\ got'[d] = got[d]
    BY <1>1, <2>2 DEF Inv, RestTypes, Core, Locking, Attempts, Counted, Ended, Holding, Drop, serverVars, poolVars, callVars
  <2>5. runs' = runs /\ soiled \subseteq soiled'
    BY DEF Drop, serverVars, poolVars, callVars
  <2> QED
    BY <1>2, <2>1, <2>3, <2>4, <2>5, LessStep
<1> QED
  BY <1>2, <1>3, <1>4, <1>5, <1>6, <1>7, TypesNext DEF Inv

-----------------------------------------------------------------------------
(* The server's steps *)

LEMMA GreetInv ==
  ASSUME Inv, NEW q \in Procs, Greet(q)
  PROVE  Inv'
<1>1. RestTypes /\ Core
  BY Types DEF Inv, Core
<1>2. Less /\ PipeTypes'
  BY SaysFacts DEF Greet, serverVars
<1>3. RestTypes'
  BY <1>1, <1>2, Names DEF RestTypes, Core, Locking, Attempts, Holding, Ended, Greet, serverVars, poolVars, callVars
<1>4. Locking'
  BY <1>1, <1>2, Names DEF RestTypes, Core, Locking, Attempts, Holding, Ended, Greet, serverVars, poolVars, callVars
<1>5. Attempts'
  BY <1>1, <1>2, Names DEF RestTypes, Core, Locking, Attempts, Holding, Greet, serverVars, poolVars, callVars
<1>6. LiveIsPooled'
  BY <1>1, <1>2, Names DEF RestTypes, Core, Locking, Attempts, LiveIsPooled, Holding, Greet, serverVars, poolVars, callVars
<1>7. Traffic' /\ Clean' /\ Counted' /\ AnswersAreTrue'
  <2>1. \A p \in Procs, d \in Calls : Underway(p, d)' =>
          /\ on'[d] = on[d] /\ session'[Host(p)] = session[Host(p)]
          /\ at'[d] \in {"reading", "failed"} \union Ended
          /\ at'[d] # at[d] => p \in soiled'
    BY <1>1, <1>2, LessUnderway, Names DEF Inv, Core, RestTypes, Locking, Attempts, Traffic, Ended, Holding, Greet, serverVars, poolVars, callVars
  <2>2. \A d \in Calls : attempt[d] \in Nat /\ runs[d] \in Nat
    BY Numbers DEF Inv
  <2>3. \A d \in Calls : attempt[d] <= attempt'[d] /\ attempt'[d] \in Nat
    BY <1>1, <2>2 DEF RestTypes, Core, Attempts, Greet, serverVars, poolVars, callVars
  <2>4. \A d \in Calls :
          /\ at'[d] = "idle" => at[d] = "idle" /\ attempt'[d] = attempt[d]
          /\ at'[d] \in {"queued", "starting", "ready"} => runs[d] < attempt'[d]
          /\ at'[d] = "answered" => at[d] = "answered" /\ on'[d] = on[d] /\ got'[d] = got[d]
    BY <1>1, <2>2 DEF Inv, RestTypes, Core, Locking, Attempts, Counted, Ended, Holding, Greet, serverVars, poolVars, callVars
  <2>5. runs' = runs /\ soiled \subseteq soiled'
    BY DEF Greet, serverVars, poolVars, callVars
  <2> QED
    BY <1>2, <2>1, <2>3, <2>4, <2>5, LessStep
<1> QED
  BY <1>2, <1>3, <1>4, <1>5, <1>6, <1>7, TypesNext DEF Inv

LEMMA ChatterInv ==
  ASSUME Inv, NEW q \in Procs, Chatter(q)
  PROVE  Inv'
<1>1. RestTypes /\ Core
  BY Types DEF Inv, Core
<1>2. Less /\ PipeTypes'
  BY SaysFacts DEF Chatter, serverVars
<1>3. RestTypes'
  BY <1>1, <1>2, Names DEF RestTypes, Core, Locking, Attempts, Holding, Ended, Chatter, serverVars, poolVars, callVars
<1>4. Locking'
  BY <1>1, <1>2, Names DEF RestTypes, Core, Locking, Attempts, Holding, Ended, Chatter, serverVars, poolVars, callVars
<1>5. Attempts'
  BY <1>1, <1>2, Names DEF RestTypes, Core, Locking, Attempts, Holding, Chatter, serverVars, poolVars, callVars
<1>6. LiveIsPooled'
  BY <1>1, <1>2, Names DEF RestTypes, Core, Locking, Attempts, LiveIsPooled, Holding, Chatter, serverVars, poolVars, callVars
<1>7. Traffic' /\ Clean' /\ Counted' /\ AnswersAreTrue'
  <2>1. \A p \in Procs, d \in Calls : Underway(p, d)' =>
          /\ on'[d] = on[d] /\ session'[Host(p)] = session[Host(p)]
          /\ at'[d] \in {"reading", "failed"} \union Ended
          /\ at'[d] # at[d] => p \in soiled'
    BY <1>1, <1>2, LessUnderway, Names DEF Inv, Core, RestTypes, Locking, Attempts, Traffic, Ended, Holding, Chatter, serverVars, poolVars, callVars
  <2>2. \A d \in Calls : attempt[d] \in Nat /\ runs[d] \in Nat
    BY Numbers DEF Inv
  <2>3. \A d \in Calls : attempt[d] <= attempt'[d] /\ attempt'[d] \in Nat
    BY <1>1, <2>2 DEF RestTypes, Core, Attempts, Chatter, serverVars, poolVars, callVars
  <2>4. \A d \in Calls :
          /\ at'[d] = "idle" => at[d] = "idle" /\ attempt'[d] = attempt[d]
          /\ at'[d] \in {"queued", "starting", "ready"} => runs[d] < attempt'[d]
          /\ at'[d] = "answered" => at[d] = "answered" /\ on'[d] = on[d] /\ got'[d] = got[d]
    BY <1>1, <2>2 DEF Inv, RestTypes, Core, Locking, Attempts, Counted, Ended, Holding, Chatter, serverVars, poolVars, callVars
  <2>5. runs' = runs /\ soiled \subseteq soiled'
    BY DEF Chatter, serverVars, poolVars, callVars
  <2> QED
    BY <1>2, <2>1, <2>3, <2>4, <2>5, LessStep
<1> QED
  BY <1>2, <1>3, <1>4, <1>5, <1>6, <1>7, TypesNext DEF Inv

LEMMA StopReadingInv ==
  ASSUME Inv, NEW q \in Procs, StopReading(q)
  PROVE  Inv'
<1>1. RestTypes /\ Core
  BY Types DEF Inv, Core
<1>2. Less /\ PipeTypes'
  BY SameFacts DEF StopReading, serverVars
<1>3. RestTypes'
  BY <1>1, <1>2, Names DEF RestTypes, Core, Locking, Attempts, Holding, Ended, StopReading, serverVars, poolVars, callVars
<1>4. Locking'
  BY <1>1, <1>2, Names DEF RestTypes, Core, Locking, Attempts, Holding, Ended, StopReading, serverVars, poolVars, callVars
<1>5. Attempts'
  BY <1>1, <1>2, Names DEF RestTypes, Core, Locking, Attempts, Holding, StopReading, serverVars, poolVars, callVars
<1>6. LiveIsPooled'
  BY <1>1, <1>2, Names DEF RestTypes, Core, Locking, Attempts, LiveIsPooled, Holding, StopReading, serverVars, poolVars, callVars
<1>7. Traffic' /\ Clean' /\ Counted' /\ AnswersAreTrue'
  <2>1. \A p \in Procs, d \in Calls : Underway(p, d)' =>
          /\ on'[d] = on[d] /\ session'[Host(p)] = session[Host(p)]
          /\ at'[d] \in {"reading", "failed"} \union Ended
          /\ at'[d] # at[d] => p \in soiled'
    BY <1>1, <1>2, LessUnderway, Names DEF Inv, Core, RestTypes, Locking, Attempts, Traffic, Ended, Holding, StopReading, serverVars, poolVars, callVars
  <2>2. \A d \in Calls : attempt[d] \in Nat /\ runs[d] \in Nat
    BY Numbers DEF Inv
  <2>3. \A d \in Calls : attempt[d] <= attempt'[d] /\ attempt'[d] \in Nat
    BY <1>1, <2>2 DEF RestTypes, Core, Attempts, StopReading, serverVars, poolVars, callVars
  <2>4. \A d \in Calls :
          /\ at'[d] = "idle" => at[d] = "idle" /\ attempt'[d] = attempt[d]
          /\ at'[d] \in {"queued", "starting", "ready"} => runs[d] < attempt'[d]
          /\ at'[d] = "answered" => at[d] = "answered" /\ on'[d] = on[d] /\ got'[d] = got[d]
    BY <1>1, <2>2 DEF Inv, RestTypes, Core, Locking, Attempts, Counted, Ended, Holding, StopReading, serverVars, poolVars, callVars
  <2>5. runs' = runs /\ soiled \subseteq soiled'
    BY DEF StopReading, serverVars, poolVars, callVars
  <2> QED
    BY <1>2, <2>1, <2>3, <2>4, <2>5, LessStep
<1> QED
  BY <1>2, <1>3, <1>4, <1>5, <1>6, <1>7, TypesNext DEF Inv

LEMMA DieInv ==
  ASSUME Inv, NEW q \in Procs, Die(q)
  PROVE  Inv'
<1>1. RestTypes /\ Core
  BY Types DEF Inv, Core
<1>2. Less /\ PipeTypes'
  <2>1. Traffic /\ PipeTypes
    BY DEF Inv, TypeOK, PipeTypes
  <2> QED
    BY <2>1 DEF Die, Less, PipeTypes, Traffic
<1>3. RestTypes'
  BY <1>1, <1>2, Names DEF RestTypes, Core, Locking, Attempts, Holding, Ended, Die, serverVars, poolVars, callVars
<1>4. Locking'
  BY <1>1, <1>2, Names DEF RestTypes, Core, Locking, Attempts, Holding, Ended, Die, serverVars, poolVars, callVars
<1>5. Attempts'
  BY <1>1, <1>2, Names DEF RestTypes, Core, Locking, Attempts, Holding, Die, serverVars, poolVars, callVars
<1>6. LiveIsPooled'
  BY <1>1, <1>2, Names DEF RestTypes, Core, Locking, Attempts, LiveIsPooled, Holding, Die, serverVars, poolVars, callVars
<1>7. Traffic' /\ Clean' /\ Counted' /\ AnswersAreTrue'
  <2>1. \A p \in Procs, d \in Calls : Underway(p, d)' =>
          /\ on'[d] = on[d] /\ session'[Host(p)] = session[Host(p)]
          /\ at'[d] \in {"reading", "failed"} \union Ended
          /\ at'[d] # at[d] => p \in soiled'
    BY <1>1, <1>2, LessUnderway, Names DEF Inv, Core, RestTypes, Locking, Attempts, Traffic, Ended, Holding, Die, serverVars, poolVars, callVars
  <2>2. \A d \in Calls : attempt[d] \in Nat /\ runs[d] \in Nat
    BY Numbers DEF Inv
  <2>3. \A d \in Calls : attempt[d] <= attempt'[d] /\ attempt'[d] \in Nat
    BY <1>1, <2>2 DEF RestTypes, Core, Attempts, Die, serverVars, poolVars, callVars
  <2>4. \A d \in Calls :
          /\ at'[d] = "idle" => at[d] = "idle" /\ attempt'[d] = attempt[d]
          /\ at'[d] \in {"queued", "starting", "ready"} => runs[d] < attempt'[d]
          /\ at'[d] = "answered" => at[d] = "answered" /\ on'[d] = on[d] /\ got'[d] = got[d]
    BY <1>1, <2>2 DEF Inv, RestTypes, Core, Locking, Attempts, Counted, Ended, Holding, Die, serverVars, poolVars, callVars
  <2>5. runs' = runs /\ soiled \subseteq soiled'
    BY DEF Die, serverVars, poolVars, callVars
  <2> QED
    BY <1>2, <2>1, <2>3, <2>4, <2>5, LessStep
<1> QED
  BY <1>2, <1>3, <1>4, <1>5, <1>6, <1>7, TypesNext DEF Inv

-----------------------------------------------------------------------------
(* A request on its way *)

\* The call that is ready has no request under way: it drops the session first.
LEMMA SendInv ==
  ASSUME Inv, NEW c \in Calls, Send(c)
  PROVE  Inv'
<1> DEFINE p == on[c]
<1>1. RestTypes /\ Core /\ Traffic /\ Clean /\ Counted /\ AnswersAreTrue /\ PipeTypes
  BY Types DEF Inv, Core
<1>2. /\ at[c] = "ready" /\ at' = [at EXCEPT ![c] = "reading"]
      /\ asked' = [asked EXCEPT ![p] = @ \union {c}]
      /\ UNCHANGED <<attempt, on, got, holder, session, proc, done, runs, deaf, outbox, said, soiled>>
  BY DEF Send, poolVars
<1>3. p \in Procs
  BY <1>2, UsesProc DEF Holding
<1>4. /\ session[ServerOf[c]] = p /\ Host(p) = ServerOf[c]
      /\ \A q \in Procs : ~Underway(q, c)
  BY <1>1, <1>2, <1>3, Names DEF Core, Locking, Traffic, Ended
<1> HIDE DEF p
<1>5. /\ \A d \in Calls : at'[d] = IF d = c THEN "reading" ELSE at[d]
      /\ \A q \in Procs : asked'[q] = IF q = p THEN asked[q] \union {c} ELSE asked[q]
  BY <1>1, <1>2 DEF RestTypes, PipeTypes
<1>6. \A q \in Procs, d \in Calls : Underway(q, d)' <=> Underway(q, d) \/ (q = p /\ d = c)
  BY <1>2, <1>3, <1>5, UnderwayIs, UnderwayNext
<1>7. PipeTypes' /\ RestTypes'
  BY <1>1, <1>2, <1>3 DEF RestTypes, PipeTypes, Holding, Ended
<1>8. Locking' /\ Attempts' /\ LiveIsPooled'
  <2>1. Locking'
    BY <1>1, <1>2, <1>5 DEF Core, Locking, Holding
  <2>2. Attempts'
    BY <1>1, <1>2, <1>5 DEF Core, Attempts
  <2>3. LiveIsPooled'
    BY <1>1, <1>2, <1>5, Names DEF Core, LiveIsPooled
  <2> QED
    BY <2>1, <2>2, <2>3
<1>9. Traffic'
  <2>1. \A q \in Procs, d \in Calls : Underway(q, d)' =>
          on'[d] = q /\ session'[Host(q)] = q /\ at'[d] \in {"reading", "failed"} \union Ended
    BY <1>1, <1>2, <1>4, <1>5, <1>6 DEF Traffic, p
  <2>2. \A q \in Procs, d \in Calls : d \in asked'[q] => d \notin done'[q]
    BY <1>1, <1>2, <1>4, <1>5, UnderwayIs DEF Traffic
  <2>3. \A q \in Procs, d \in Calls : d \in asked'[q] \union done'[q] => ~Has(outbox'[q], AnswerTo(d))
    BY <1>1, <1>2, <1>4, <1>5, UnderwayIs DEF Traffic
  <2>4. \A q \in Procs, d \in Calls : Once(outbox'[q], AnswerTo(d))
    BY <1>1, <1>2 DEF Traffic
  <2> QED
    BY <2>1, <2>2, <2>3, <2>4 DEF Traffic, Ended, Has, Once, AnswerTo
<1>10. Clean'
  BY <1>1, <1>2, <1>5, <1>6 DEF Clean
<1>11. Counted'
  <2>1. \A d \in Calls : runs[d] < attempt[d] \/ d # c
    BY <1>1, <1>2 DEF Counted
  <2>2. \A q \in Procs, d \in Calls : d \in asked'[q] => runs'[d] < attempt'[d]
    BY <1>1, <1>2, <1>5, <2>1 DEF Counted
  <2>3. \A q \in Procs, d \in Calls : Underway(q, d)' /\ d \notin asked'[q] => runs'[d] > 0
    BY <1>1, <1>2, <1>5, <1>6 DEF Counted
  <2> QED
    BY <1>1, <1>2, <1>5, <2>2, <2>3 DEF Counted
<1>12. AnswersAreTrue'
  BY <1>1, <1>2, <1>5, <1>6 DEF AnswersAreTrue
<1> QED
  BY <1>7, <1>8, <1>9, <1>10, <1>11, <1>12, TypesNext DEF Inv

\* On a session on which nobody gave up, the answer that is read is the reader's.
LEMMA ReadInv ==
  ASSUME Inv, NEW c \in Calls, Read(c)
  PROVE  Inv'
<1>1. RestTypes /\ Core /\ Traffic /\ Clean /\ Counted /\ AnswersAreTrue /\ PipeTypes
  BY Types DEF Inv, Core
<1>2. /\ at[c] = "reading" /\ at' = [at EXCEPT ![c] = "answered"] /\ holder' = NoCall
      /\ got' = [got EXCEPT ![c] = Head(outbox[on[c]]).of]
      /\ outbox[on[c]] # <<>> /\ Head(outbox[on[c]]).kind = "answer" /\ Take(c)
      /\ UNCHANGED <<attempt, on, session, proc, asked, done, runs, deaf, said, soiled>>
  BY DEF Read, Hears, Wanted, serverVars
<1>3. PICK p \in Procs : p = on[c]
  BY <1>2, UsesProc DEF Holding
<1>4. /\ Less /\ PipeTypes' /\ Head(outbox[p]) \in Messages
      /\ \A d \in Calls : Head(outbox[p]) = AnswerTo(d) =>
           Has(outbox[p], AnswerTo(d)) /\ ~Has(outbox'[p], AnswerTo(d))
  BY <1>2, <1>3, TakeFacts
<1>5. PICK e \in Calls : Head(outbox[p]) = AnswerTo(e) /\ e = Head(outbox[p]).of
  BY <1>2, <1>3, <1>4, MessageKinds
<1>6. Underway(p, e) /\ ~Has(outbox'[p], AnswerTo(e)) /\ e \notin asked[p] \union done[p]
  BY <1>1, <1>4, <1>5, UnderwayIs DEF Traffic
<1>7. /\ \A d \in Calls : at'[d] = IF d = c THEN "answered" ELSE at[d]
      /\ \A d \in Calls : got'[d] = IF d = c THEN e ELSE got[d]
  BY <1>1, <1>2, <1>3, <1>5 DEF RestTypes
<1>8. \A d \in Calls : at[d] = "reading" => d = c
  BY <1>1, <1>2 DEF Core, Locking, Holding
<1>9. \A q \in Procs, d \in Calls : Underway(q, d)' => Underway(q, d)
  BY <1>4, LessUnderway
<1>10. \A q \in Procs, d \in Calls : d \in asked[q] => d \in asked'[q]
  BY <1>2
<1>11. e \in Calls /\ runs[e] > 0 /\ p = on[c]
  BY <1>1, <1>3, <1>6 DEF Counted
<1>12. p \notin soiled => e = c
  BY <1>1, <1>3, <1>6, <1>8, <1>11 DEF Clean
<1>13. \A q \in Procs : ~Underway(q, e)'
  <2>1. \A q \in Procs : Underway(q, e) => q = p
    BY <1>1, <1>3, <1>6, <1>11 DEF Traffic
  <2>2. ~Underway(p, e)'
    BY <1>2, <1>6, UnderwayNext
  <2> QED
    BY <1>9, <1>11, <2>1, <2>2
<1>14. RestTypes'
  BY <1>1, <1>2, <1>3, <1>5 DEF RestTypes, Ended
<1>15. Locking' /\ Attempts' /\ LiveIsPooled'
  <2>1. Locking'
    BY <1>1, <1>2, <1>7, <1>8, Names DEF Core, Locking, Holding
  <2>2. Attempts'
    BY <1>1, <1>2, <1>7 DEF Core, Attempts
  <2>3. LiveIsPooled'
    BY <1>1, <1>2, <1>7, Names DEF Core, LiveIsPooled, Locking, Holding
  <2> QED
    BY <2>1, <2>2, <2>3
<1>16. Traffic'
  <2>1. \A q \in Procs, d \in Calls : Underway(q, d)' =>
          on'[d] = q /\ session'[Host(q)] = q /\ at'[d] \in {"reading", "failed"} \union Ended
    BY <1>1, <1>2, <1>7, <1>9 DEF Traffic, Ended
  <2>2. \A q \in Procs, d \in Calls : d \in asked'[q] => d \notin done'[q]
    BY <1>1, <1>2 DEF Traffic
  <2>3. \A q \in Procs, d \in Calls : d \in asked'[q] \union done'[q] => ~Has(outbox'[q], AnswerTo(d))
    BY <1>1, <1>4 DEF Traffic, Less
  <2>4. \A q \in Procs, d \in Calls : Once(outbox'[q], AnswerTo(d))
    BY <1>4 DEF Less
  <2> QED
    BY <2>1, <2>2, <2>3, <2>4 DEF Traffic, Ended, Has, Once, AnswerTo
<1>17. Clean'
  <2> SUFFICES ASSUME NEW q \in Procs, NEW d \in Calls, Underway(q, d)', q \notin soiled'
               PROVE  at'[d] = "reading"
    BY DEF Clean
  <2>1. Underway(q, d) /\ q \notin soiled
    BY <1>2, <1>9
  <2>2. at[d] = "reading" /\ on[d] = q
    BY <1>1, <2>1 DEF Clean, Traffic
  <2>3. d # c
    <3>1. d = c => q = p /\ e = c
      BY <1>11, <1>12, <2>1, <2>2
    <3> QED
      BY <1>13, <3>1
  <2> QED
    BY <1>8, <2>2, <2>3
<1>18. Counted'
  <2>1. \A d \in Calls : at'[d] \in {"queued", "starting", "ready", "idle"} => at[d] = at'[d]
    BY <1>7
  <2>2. \A q \in Procs, d \in Calls : d \in asked'[q] => runs'[d] < attempt'[d]
    BY <1>1, <1>2 DEF Counted
  <2>3. \A q \in Procs, d \in Calls : Underway(q, d)' /\ d \notin asked'[q] => runs'[d] > 0
    BY <1>1, <1>2, <1>9, <1>10 DEF Counted
  <2> QED
    BY <1>1, <1>2, <2>1, <2>2, <2>3 DEF Counted
<1>19. AnswersAreTrue'
  <2>1. e = c => runs'[c] \in 1..attempt'[c] /\ \A q \in Procs : ~Underway(q, c)'
    <3>1. runs[c] \in Nat /\ attempt[c] \in Nat /\ runs[c] <= attempt[c]
      BY <1>1, Numbers DEF Inv, Counted
    <3> QED
      BY <1>2, <1>11, <1>13, <3>1
  <2>2. on'[c] \notin soiled' => got'[c] = c
    BY <1>2, <1>7, <1>11, <1>12
  <2>3. got'[c] = e
    BY <1>7
  <2> QED
    BY <1>1, <1>2, <1>7, <1>9, <2>1, <2>2, <2>3 DEF AnswersAreTrue
<1> QED
  BY <1>4, <1>14, <1>15, <1>16, <1>17, <1>18, <1>19, TypesNext DEF Inv

LEMMA CarryOutInv ==
  ASSUME Inv, NEW p \in Procs, NEW c \in Calls, CarryOut(p, c)
  PROVE  Inv'
<1>1. RestTypes /\ Core /\ Traffic /\ Clean /\ Counted /\ AnswersAreTrue /\ PipeTypes
  BY Types DEF Inv, Core
<1>2. /\ c \in asked[p] /\ runs' = [runs EXCEPT ![c] = @ + 1]
      /\ asked' = [asked EXCEPT ![p] = @ \ {c}] /\ done' = [done EXCEPT ![p] = @ \union {c}]
      /\ UNCHANGED <<at, attempt, on, got, holder, session, proc, deaf, outbox, said, soiled>>
  BY DEF CarryOut, poolVars, callVars
<1>3. /\ \A q \in Procs : asked'[q] = IF q = p THEN asked[q] \ {c} ELSE asked[q]
      /\ \A q \in Procs : done'[q] = IF q = p THEN done[q] \union {c} ELSE done[q]
      /\ \A d \in Calls : runs'[d] = IF d = c THEN runs[d] + 1 ELSE runs[d]
  BY <1>1, <1>2 DEF RestTypes, PipeTypes
<1>4. \A q \in Procs, d \in Calls : Underway(q, d)' <=> Underway(q, d)
  BY <1>2, <1>3, UnderwayIs, UnderwayNext
<1>5. /\ Underway(p, c) /\ on[c] = p /\ at[c] \in {"reading", "failed"} \union Ended
      /\ \A q \in Procs : Underway(q, c) => q = p
  BY <1>1, <1>2, UnderwayIs DEF Traffic
<1>6. /\ runs[c] \in Nat /\ attempt[c] \in 0..2 /\ runs[c] < attempt[c]
      /\ \A d \in Calls : runs[d] \in Nat /\ attempt[d] \in Nat
  <2>1. runs \in [Calls -> 0..2] /\ attempt \in [Calls -> 0..2]
    BY <1>1 DEF RestTypes
  <2> QED
    BY <1>1, <1>2, <2>1 DEF Counted
<1>7. PipeTypes'
  BY <1>1, <1>2 DEF PipeTypes
<1>8. RestTypes'
  <2>1. runs[c] + 1 \in 0..2
    BY <1>6
  <2>2. runs' \in [Calls -> 0..2]
    BY <1>1, <1>2, <2>1 DEF RestTypes
  <2> QED
    BY <1>1, <1>2, <2>2 DEF RestTypes
<1>9. Locking' /\ Attempts' /\ LiveIsPooled'
  BY <1>1, <1>2 DEF Core, Locking, Attempts, LiveIsPooled
<1>10. Traffic'
  <2>1. \A q \in Procs, d \in Calls : Underway(q, d)' =>
          on'[d] = q /\ session'[Host(q)] = q /\ at'[d] \in {"reading", "failed"} \union Ended
    BY <1>1, <1>2, <1>4 DEF Traffic
  <2>2. \A q \in Procs, d \in Calls : d \in asked'[q] => d \notin done'[q]
    BY <1>1, <1>3 DEF Traffic
  <2>3. \A q \in Procs, d \in Calls : d \in asked'[q] \union done'[q] => ~Has(outbox'[q], AnswerTo(d))
    BY <1>1, <1>2, <1>3 DEF Traffic
  <2>4. \A q \in Procs, d \in Calls : Once(outbox'[q], AnswerTo(d))
    BY <1>1, <1>2 DEF Traffic
  <2> QED
    BY <2>1, <2>2, <2>3, <2>4 DEF Traffic, Ended, Has, Once, AnswerTo
<1>11. Clean'
  BY <1>1, <1>2, <1>4 DEF Clean
<1>12. Counted'
  <2>1. \A q \in Procs : c \notin asked'[q]
    BY <1>3, <1>5, UnderwayIs
  <2>2. \A q \in Procs, d \in Calls : d \in asked'[q] => d # c /\ d \in asked[q] /\ runs'[d] = runs[d]
    BY <1>3, <2>1
  <2>3. \A d \in Calls : at'[d] \in {"queued", "starting", "ready"} => d # c
    BY <1>2, <1>5 DEF Ended
  <2>4. \A q \in Procs, d \in Calls : Underway(q, d)' /\ d \notin asked'[q] => runs'[d] > 0
    <3> SUFFICES ASSUME NEW q \in Procs, NEW d \in Calls, Underway(q, d)', d \notin asked'[q]
                 PROVE  runs'[d] > 0
      OBVIOUS
    <3>1. CASE d = c
      BY <1>3, <1>6, <3>1
    <3>2. CASE d # c
      <4>1. Underway(q, d) /\ d \notin asked[q]
        BY <1>3, <1>4, <3>2
      <4> QED
        BY <1>1, <1>3, <3>2, <4>1 DEF Counted
    <3> QED
      BY <3>1, <3>2
  <2>5. \A q \in Procs, d \in Calls : d \in asked'[q] => runs'[d] < attempt'[d]
    BY <1>1, <1>2, <2>2 DEF Counted
  <2>6. \A d \in Calls : runs'[d] <= attempt'[d] /\ (at'[d] = "idle" => attempt'[d] = 0)
    BY <1>1, <1>2, <1>3, <1>6 DEF Counted
  <2>7. \A d \in Calls : at'[d] \in {"queued", "starting", "ready"} => runs'[d] < attempt'[d]
    BY <1>1, <1>2, <1>3, <2>3 DEF Counted
  <2> QED
    BY <2>4, <2>5, <2>6, <2>7 DEF Counted
<1>13. AnswersAreTrue'
  <2> SUFFICES ASSUME NEW d \in Calls, at[d] = "answered"
               PROVE  /\ on[d] \notin soiled => got[d] = d
                      /\ got[d] = d => runs'[d] \in 1..attempt[d] /\ \A q \in Procs : ~Underway(q, d)'
    BY <1>2 DEF AnswersAreTrue
  <2>1. got[d] = d => d # c /\ \A q \in Procs : ~Underway(q, d)
    BY <1>1, <1>5 DEF AnswersAreTrue
  <2>2. got[d] = d => runs[d] \in 1..attempt[d]
    BY <1>1 DEF AnswersAreTrue
  <2>3. on[d] \notin soiled => got[d] = d
    BY <1>1 DEF AnswersAreTrue
  <2> QED
    BY <1>3, <1>4, <2>1, <2>2, <2>3
<1> QED
  BY <1>7, <1>8, <1>9, <1>10, <1>11, <1>12, <1>13, TypesNext DEF Inv

LEMMA AnswerInv ==
  ASSUME Inv, NEW p \in Procs, NEW c \in Calls, Answer(p, c)
  PROVE  Inv'
<1> DEFINE m == AnswerTo(c)
<1>1. RestTypes /\ Core /\ Traffic /\ Clean /\ Counted /\ AnswersAreTrue /\ PipeTypes
  BY Types DEF Inv, Core
<1>2. /\ c \in done[p] /\ done' = [done EXCEPT ![p] = @ \ {c}]
      /\ outbox' = [outbox EXCEPT ![p] = Append(outbox[p], m)]
      /\ UNCHANGED <<at, attempt, on, got, holder, session, proc, asked, runs, deaf, said, soiled>>
  BY DEF Answer, Says, AnswerTo, poolVars, callVars
<1>3. outbox[p] \in Seq(Messages) /\ m \in Messages /\ \A d \in Calls : m = AnswerTo(d) => d = c
  BY <1>1, MessageKinds DEF PipeTypes
<1>4. ~Has(outbox[p], m) /\ c \notin asked[p]
  BY <1>1, <1>2 DEF Traffic
<1> HIDE DEF m
<1>5. /\ Append(outbox[p], m) \in Seq(Messages)
      /\ \A d : m # AnswerTo(d) =>
           /\ Has(Append(outbox[p], m), AnswerTo(d)) <=> Has(outbox[p], AnswerTo(d))
           /\ Once(outbox[p], AnswerTo(d)) => Once(Append(outbox[p], m), AnswerTo(d))
      /\ Once(Append(outbox[p], m), m)
  BY <1>3, <1>4, AppendFacts
<1>6. /\ \A q \in Procs : done'[q] = IF q = p THEN done[q] \ {c} ELSE done[q]
      /\ \A q \in Procs : outbox'[q] = IF q = p THEN Append(outbox[p], m) ELSE outbox[q]
  BY <1>1, <1>2 DEF PipeTypes
<1>7. \A q \in Procs, d \in Calls : d # c =>
        /\ Has(outbox'[q], AnswerTo(d)) <=> Has(outbox[q], AnswerTo(d))
        /\ Once(outbox'[q], AnswerTo(d))
  <2> SUFFICES ASSUME NEW q \in Procs, NEW d \in Calls, d # c
               PROVE  /\ Has(outbox'[q], AnswerTo(d)) <=> Has(outbox[q], AnswerTo(d))
                      /\ Once(outbox'[q], AnswerTo(d))
    OBVIOUS
  <2>1. Once(outbox[q], AnswerTo(d)) /\ m # AnswerTo(d)
    BY <1>1, <1>3 DEF Traffic
  <2>2. CASE q = p
    BY <1>5, <1>6, <2>1, <2>2
  <2>3. CASE q # p
    BY <1>6, <2>1, <2>3
  <2> QED
    BY <2>2, <2>3
<1>8. \A q \in Procs : Once(outbox'[q], m) /\ (q # p => outbox'[q] = outbox[q])
  <2>1. \A q \in Procs : Once(outbox[q], m)
    BY <1>1 DEF Traffic, m
  <2> QED
    BY <1>5, <1>6, <2>1
<1>9. Underway(p, c) /\ \A q \in Procs : Underway(q, c) => q = p
  BY <1>1, <1>2, UnderwayIs DEF Traffic
<1>10. \A q \in Procs, d \in Calls : Underway(q, d)' => Underway(q, d)
  <2> SUFFICES ASSUME NEW q \in Procs, NEW d \in Calls, Underway(q, d)'
               PROVE  Underway(q, d)
    OBVIOUS
  <2>1. CASE d = c /\ q = p
    BY <1>9, <2>1
  <2>2. CASE d = c /\ q # p
    BY <1>2, <1>6, <1>8, <2>2, UnderwayIs, UnderwayNext
  <2>3. CASE d # c
    BY <1>2, <1>6, <1>7, <2>3, UnderwayIs, UnderwayNext
  <2> QED
    BY <2>1, <2>2, <2>3
<1>11. PipeTypes'
  BY <1>1, <1>2, <1>5 DEF PipeTypes
<1>12. RestTypes' /\ Locking' /\ Attempts' /\ LiveIsPooled'
  BY <1>1, <1>2 DEF RestTypes, Core, Locking, Attempts, LiveIsPooled
<1>13. Traffic'
  <2>1. \A q \in Procs, d \in Calls : Underway(q, d)' =>
          on'[d] = q /\ session'[Host(q)] = q /\ at'[d] \in {"reading", "failed"} \union Ended
    BY <1>1, <1>2, <1>10 DEF Traffic
  <2>2. \A q \in Procs, d \in Calls : d \in asked'[q] => d \notin done'[q]
    BY <1>1, <1>2, <1>6 DEF Traffic
  <2>3. \A q \in Procs, d \in Calls : d \in asked'[q] \union done'[q] => ~Has(outbox'[q], AnswerTo(d))
    <3> SUFFICES ASSUME NEW q \in Procs, NEW d \in Calls, d \in asked'[q] \union done'[q]
                 PROVE  ~Has(outbox'[q], AnswerTo(d))
      OBVIOUS
    <3>1. d \in asked[q] \union done[q] /\ ~(d = c /\ q = p)
      BY <1>2, <1>4, <1>6
    <3>2. ~Has(outbox[q], AnswerTo(d))
      BY <1>1, <3>1 DEF Traffic
    <3> QED
      BY <1>7, <1>8, <3>1, <3>2
  <2>4. \A q \in Procs, d \in Calls : Once(outbox'[q], AnswerTo(d))
    BY <1>7, <1>8 DEF m
  <2> QED
    BY <2>1, <2>2, <2>3, <2>4 DEF Traffic, Ended, Has, Once, AnswerTo
<1>14. Clean'
  BY <1>1, <1>2, <1>10 DEF Clean
<1>15. Counted'
  <2>1. \A q \in Procs, d \in Calls : Underway(q, d)' /\ d \notin asked'[q] => runs'[d] > 0
    BY <1>1, <1>2, <1>10 DEF Counted
  <2> QED
    BY <1>1, <1>2, <2>1 DEF Counted
<1>16. AnswersAreTrue'
  BY <1>1, <1>2, <1>10 DEF AnswersAreTrue
<1> QED
  BY <1>11, <1>12, <1>13, <1>14, <1>15, <1>16, TypesNext DEF Inv
-----------------------------------------------------------------------------
(* The theorems *)

LEMMA InitInv ==
  ASSUME Init
  PROVE  Inv
<1>1. \A m : <<>> \in Seq(Messages) /\ ~Has(<<>>, m) /\ Once(<<>>, m)
  BY EmptyPipe
<1>2. PipeTypes /\ RestTypes
  BY <1>1 DEF Init, PipeTypes, RestTypes
<1>3. Locking /\ Attempts /\ LiveIsPooled
  BY Names DEF Init, Locking, Attempts, LiveIsPooled, Holding
<1>4. \A p \in Procs, c \in Calls : ~Underway(p, c)
  BY <1>1, UnderwayIs DEF Init
<1>5. Traffic
  BY <1>1, <1>4 DEF Init, Traffic
<1>6. Clean /\ Counted /\ AnswersAreTrue
  BY <1>4 DEF Init, Clean, Counted, AnswersAreTrue
<1> QED
  BY <1>2, <1>3, <1>5, <1>6, Types DEF Inv

LEMMA StutterInv ==
  ASSUME Inv, UNCHANGED vars
  PROVE  Inv'
BY DEF vars, callVars, poolVars, serverVars, Inv, TypeOK, Locking, Attempts, LiveIsPooled, Traffic,
       Clean, Counted, AnswersAreTrue, Underway

LEMMA NextInv ==
  ASSUME Inv, [Next]_vars
  PROVE  Inv'
<1>1. ASSUME NEW c \in Calls, Begin(c) \/ Step(c)
      PROVE  Inv'
  BY <1>1, BeginInv, FindSessionInv, SpawnInv, SpawnFailsInv, InitializedInv, RefusedInv, StartFailsInv,
     SendInv, SendFailsInv, SkipInv, ReadInv, ReadFailsInv, DropInv DEF Step
<1>2. ASSUME NEW p \in Procs, Serve(p)
      PROVE  Inv'
  BY <1>2, GreetInv, ChatterInv, StopReadingInv, DieInv, CarryOutInv, AnswerInv DEF Serve
<1> QED
  BY <1>1, <1>2, StutterInv DEF Next

LEMMA Invariance == Spec => []Inv
<1>1. Init => Inv
  BY InitInv
<1>2. Inv /\ [Next]_vars => Inv'
  BY NextInv
<1> QED
  BY <1>1, <1>2, PTL DEF Spec

\* The variables of the pool have their types: no call is carried out three times.
THEOREM Typing == Spec => []TypeOK
<1>1. Inv => TypeOK
  BY DEF Inv
<1> QED
  BY <1>1, Invariance, PTL

\* No server process is left behind, whoever restarts whose session.
THEOREM NoneLeftBehind == Spec => []LiveIsPooled
<1>1. Inv => LiveIsPooled
  BY DEF Inv
<1> QED
  BY <1>1, Invariance, PTL

\* Where no call gave up, each call returns its own answer; its request is over.
THEOREM AnswersStayTrue == Spec => []AnswersAreTrue
<1>1. Inv => AnswersAreTrue
  BY DEF Inv
<1> QED
  BY <1>1, Invariance, PTL

=============================================================================
