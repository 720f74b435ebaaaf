------------------------ MODULE ApprovalFlow_proofs ------------------------
(***************************************************************************)
(* Proofs about ApprovalFlow for every set of calls, workers, programs,    *)
(* edits and bounds: the type invariant, the inductive invariant behind    *)
(* the grants, the two properties that follow from it, and the refinement  *)
(* of ApprovalGrants.                                                      *)
(***************************************************************************)
EXTENDS ApprovalFlow, TLAPS

-----------------------------------------------------------------------------
(* Typing.                                                                 *)

\* Giving a one-time grant keeps the grants well typed.
LEMMA GrantTyping ==
  ASSUME once \in [Calls -> Nat], grants \in Seq(Calls), NEW c \in Calls, AddGrant(c)
  PROVE  once' \in [Calls -> Nat] /\ grants' \in Seq(Calls)
<1>1. CASE once[c] # NoGrant
  BY <1>1 DEF AddGrant
<1>2. CASE once[c] = NoGrant
  <2>1. grants' = Append(grants, c) /\ once' = [once EXCEPT ![c] = Len(grants) + 1]
    BY <1>2 DEF AddGrant
  <2>2. Len(grants) + 1 \in Nat
    OBVIOUS
  <2> QED BY <2>1, <2>2
<1> QED BY <1>1, <1>2

\* Every ledger operation keeps the ledger well typed.
LEMMA LedgerTyping ==
  ASSUME LedgerTypeOK, NEW c \in Calls
  PROVE  /\ \A label \in Labels : Enqueue(c, label) => LedgerTypeOK'
         /\ ApproveOnce(c) => LedgerTypeOK'
         /\ ApproveForSession(c) => LedgerTypeOK'
         /\ Deny(c) => LedgerTypeOK'
         /\ Consume(c) => LedgerTypeOK'
         /\ FindNothing(c) => LedgerTypeOK'
<1> USE DEF LedgerTypeOK, Image
<1> DEFINE Kept == /\ pending'  \in [Calls -> Labels \union {NoRequest}]
                   /\ rejected' \in SUBSET Calls
                   /\ once'     \in [Calls -> Nat]
                   /\ session'  \in SUBSET Calls
                   /\ grants'   \in Seq(Calls)
<1>1. Kept /\ Save => LedgerTypeOK'
  BY DEF Save
<1>2. ASSUME NEW label \in Labels, Enqueue(c, label) PROVE LedgerTypeOK'
  BY <1>1, <1>2 DEF Kept, Enqueue
<1>3. ASSUME ApproveOnce(c) PROVE LedgerTypeOK'
  BY <1>1, <1>3, GrantTyping DEF Kept, ApproveOnce
<1>4. ASSUME ApproveForSession(c) PROVE LedgerTypeOK'
  BY <1>1, <1>4 DEF Kept, ApproveForSession
<1>5. ASSUME Deny(c) PROVE LedgerTypeOK'
  BY <1>1, <1>5 DEF Kept, Deny
<1>6. ASSUME Consume(c) PROVE LedgerTypeOK'
  BY <1>1, <1>6 DEF Kept, Consume, NoGrant
<1>7. ASSUME FindNothing(c) PROVE LedgerTypeOK'
  BY <1>1, <1>7 DEF Kept, FindNothing
<1> QED BY <1>2, <1>3, <1>4, <1>5, <1>6, <1>7

\* So do the operations that edit a request.
LEMMA EditTyping ==
  ASSUME LedgerTypeOK, NEW c \in Calls, NEW d \in Calls
  PROVE  /\ Edit(c, d) => LedgerTypeOK'
         /\ AllowOnceEdited(c, d) => LedgerTypeOK'
         /\ AllowForSessionEdited(c, d) => LedgerTypeOK'
<1> USE DEF LedgerTypeOK, Image
<1> DEFINE Kept == /\ pending'  \in [Calls -> Labels \union {NoRequest}]
                   /\ rejected' \in SUBSET Calls
                   /\ once'     \in [Calls -> Nat]
                   /\ session'  \in SUBSET Calls
                   /\ grants'   \in Seq(Calls)
<1>1. Kept /\ Save => LedgerTypeOK'
  BY DEF Save
<1>2. Edited(c, d) \in [Calls -> Labels \union {NoRequest}]
  BY DEF Edited
<1>3. ASSUME Edit(c, d) PROVE LedgerTypeOK'
  BY <1>1, <1>2, <1>3 DEF Kept, Edit
<1>4. ASSUME AllowOnceEdited(c, d) PROVE LedgerTypeOK'
  BY <1>1, <1>2, <1>4, GrantTyping DEF Kept, AllowOnceEdited
<1>5. ASSUME AllowForSessionEdited(c, d) PROVE LedgerTypeOK'
  BY <1>1, <1>5 DEF Kept, AllowForSessionEdited
<1> QED BY <1>3, <1>4, <1>5
\* The parts of the type invariant, named for the steps below.
Programs == DefaultAllowed \union {Executable[c] : c \in DOMAIN Executable}
Out      == {"off", "idle", "done"}

ActorsOK ==
  /\ pc      \in [Actors -> Places]
  /\ call    \in [Actors -> Calls \union {NoCall}]
  /\ retried \in [Actors -> BOOLEAN]
  /\ held    \in [Actors -> SUBSET Nat]
  /\ \A a \in Actors : call[a] = NoCall <=> pc[a] \in Out
AllowOK == allowed \in [Actors -> SUBSET Programs]
TurnsOK ==
  /\ cancelled \in [Workers -> BOOLEAN]
  /\ events    \in [Workers -> SUBSET Calls]
  /\ current   \in Workers \union {NoWorker}
CtrlOK == ctrl \in [Calls -> CtrlStates]
HistOK == spent \in SUBSET Nat /\ restarts \in Nat

\* The initial state is well typed.
LEMMA InitTyped == Init => TypeOK
<1> SUFFICES ASSUME Init PROVE TypeOK
  OBVIOUS
<1>1. LedgerTypeOK
  BY DEF Init, InitLedger, LedgerTypeOK, Image, NoGrant
<1> QED
  BY <1>1, WorkersAssumption, CallsAssumption DEF Init, TypeOK, Actors, Places, CtrlStates

\* A step from a well typed state ends in one.
LEMMA TypedStep ==
  ASSUME TypeOK, [Next]_vars PROVE TypeOK'
<1> USE DEF Actors, Places, CtrlStates, ActorsOK, AllowOK, TurnsOK, CtrlOK, HistOK, Programs, Out
<1>parts. LedgerTypeOK /\ ActorsOK /\ AllowOK /\ TurnsOK /\ CtrlOK /\ HistOK
  BY DEF TypeOK
<1>goal. LedgerTypeOK' /\ ActorsOK' /\ AllowOK' /\ TurnsOK' /\ CtrlOK' /\ HistOK' => TypeOK'
  BY DEF TypeOK
<1> USE <1>parts, <1>goal
<1>ret. ASSUME NEW a \in Actors, NEW place \in Out, Return(a, place) PROVE ActorsOK'
  BY <1>ret DEF Return, Goto
<1>1. CASE UNCHANGED vars
  BY <1>1 DEF vars, ledgerVars, actorVars, turnVars, LedgerTypeOK
<1>2. ASSUME NEW w \in Workers, StartTurn(w) PROVE TypeOK'
  BY <1>2 DEF StartTurn, Goto, ledgerVars, UIFree, LedgerTypeOK
<1>3. ASSUME NEW w \in Workers, EndTurn(w) PROVE TypeOK'
  BY <1>3 DEF EndTurn, Goto, ledgerVars, turnVars, LedgerTypeOK
<1>4. ASSUME NEW w \in Workers, CancelTurn(w) PROVE TypeOK'
  BY <1>4 DEF CancelTurn, ledgerVars, actorVars, LedgerTypeOK
<1>5. ASSUME NEW w \in Workers, NEW c \in Calls, BeginCall(w, c) PROVE TypeOK'
  BY <1>5, CallsAssumption DEF BeginCall, Goto, ledgerVars, turnVars, LedgerTypeOK
<1>6. ASSUME NEW w \in Workers, Announce(w) PROVE TypeOK'
  BY <1>6 DEF Announce, Goto, ledgerVars, LedgerTypeOK, IsPending
<1>7. ASSUME NEW w \in Workers, Wait(w) PROVE TypeOK'
  BY <1>7, <1>ret DEF Wait, Goto, ledgerVars, turnVars, LedgerTypeOK
<1>8. ASSUME NEW w \in Workers, Reap(w) PROVE TypeOK'
  BY <1>8 DEF Reap, Goto, ledgerVars, LedgerTypeOK
<1>9. ASSUME NEW w \in Workers, PollStream(w) PROVE TypeOK'
  BY <1>9 DEF PollStream, Registered, ledgerVars, actorVars, LedgerTypeOK
<1>10. ASSUME NEW w \in Workers, Join(w) PROVE TypeOK'
  BY <1>10 DEF Join, Goto, Registered, ledgerVars, LedgerTypeOK
<1>11. ASSUME NEW a \in Actors, CommandGate(a) PROVE TypeOK'
  <2>1. call[a] \in Calls
    BY <1>11 DEF CommandGate
  <2>2. AllowOK' /\ TurnsOK' /\ CtrlOK' /\ HistOK'
    BY <1>11 DEF CommandGate, turnVars
  <2>3. CASE Goto(a, "riskGate") /\ UNCHANGED <<ledgerVars, held>>
    BY <2>2, <2>3, <1>11 DEF CommandGate, Goto, ledgerVars, LedgerTypeOK
  <2>4. CASE /\ Consume(call[a])
             /\ held' = [held EXCEPT ![a] = @ \union TakenBy(call[a])]
             /\ Goto(a, "riskGate")
    <3>1. LedgerTypeOK'
      BY <2>1, <2>4, LedgerTyping
    <3>2. TakenBy(call[a]) \in SUBSET Nat
      BY <2>1 DEF TakenBy, LedgerTypeOK
    <3> QED BY <2>2, <2>4, <3>1, <3>2, <1>11 DEF CommandGate, Goto
  <2>5. CASE FindNothing(call[a]) /\ Goto(a, "commandAsk") /\ UNCHANGED held
    <3>1. LedgerTypeOK'
      BY <2>1, <2>5, LedgerTyping
    <3> QED BY <2>2, <2>5, <3>1, <1>11 DEF CommandGate, Goto
  <2> QED BY <2>3, <2>4, <2>5, <1>11 DEF CommandGate
<1>12. ASSUME NEW a \in Actors, RiskGate(a) PROVE TypeOK'
  <2>1. call[a] \in Calls
    BY <1>12 DEF RiskGate
  <2>2. AllowOK' /\ TurnsOK' /\ CtrlOK' /\ UNCHANGED restarts
    BY <1>12 DEF RiskGate, turnVars
  <2>3. ASSUME NEW S \in SUBSET Nat, Proceed(a, S)
        PROVE  ActorsOK' /\ spent' \in SUBSET Nat
    BY <2>3, <1>ret, <1>12 DEF Proceed, Goto, RiskGate
  <2>4. TakenBy(call[a]) \in SUBSET Nat
    BY <2>1 DEF TakenBy, LedgerTypeOK
  <2>5. CASE Proceed(a, held[a]) /\ UNCHANGED ledgerVars
    <3>1. LedgerTypeOK'
      BY <2>5 DEF ledgerVars, LedgerTypeOK
    <3> QED BY <2>2, <2>3, <2>5, <3>1
  <2>6. CASE Consume(call[a]) /\ Proceed(a, held[a] \union TakenBy(call[a]))
    <3>1. LedgerTypeOK'
      BY <2>1, <2>6, LedgerTyping
    <3>2. held[a] \union TakenBy(call[a]) \in SUBSET Nat
      BY <2>4
    <3> QED BY <2>2, <2>3, <2>6, <3>1, <3>2
  <2>7. CASE FindNothing(call[a]) /\ Goto(a, "riskAsk") /\ UNCHANGED <<call, retried, held, spent>>
    <3>1. LedgerTypeOK'
      BY <2>1, <2>7, LedgerTyping
    <3> QED BY <2>2, <2>7, <3>1, <1>12 DEF RiskGate, Goto
  <2> QED BY <2>5, <2>6, <2>7, <1>12 DEF RiskGate
<1>13. ASSUME NEW a \in Actors, FinishRun(a) PROVE TypeOK'
  BY <1>13, <1>ret DEF FinishRun, ledgerVars, turnVars, LedgerTypeOK
<1>then. ASSUME NEW c \in Calls, UIFree, ThenExecute(c), UNCHANGED <<retried, held>>
         PROVE  ActorsOK'
  BY <1>then, CallsAssumption DEF ThenExecute, Goto, UIFree
<1>ctrl. ASSUME NEW c \in Calls, ResolveCtrl(c) PROVE CtrlOK'
  BY <1>ctrl DEF ResolveCtrl
<1>list. ASSUME NEW c \in Calls, NEW label \in Labels, ListProgram(c, label)
         PROVE  AllowOK'
  BY <1>list DEF ListProgram, IsCommand
<1>14. ASSUME NEW c \in Calls, AllowOnce(c) PROVE TypeOK'
  BY <1>14, <1>then, <1>ctrl, LedgerTyping DEF AllowOnce, turnVars
<1>15. ASSUME NEW c \in Calls, AllowForSession(c) PROVE TypeOK'
  <2>1. pending[c] \in Labels
    BY <1>15 DEF AllowForSession, ApproveForSession, IsPending, LedgerTypeOK
  <2> QED BY <2>1, <1>15, <1>then, <1>ctrl, <1>list, LedgerTyping DEF AllowForSession, turnVars
<1>16. ASSUME NEW c \in Calls, DenyCall(c) PROVE TypeOK'
  BY <1>16, <1>ctrl, LedgerTyping DEF DenyCall, actorVars, turnVars
<1>17. ASSUME NEW c \in Calls, AnswerWithoutEffect(c) PROVE TypeOK'
  <2>1. LedgerTypeOK'
    BY <1>17 DEF AnswerWithoutEffect, Save, LedgerTypeOK, Image
  <2> QED BY <2>1, <1>17, <1>ctrl DEF AnswerWithoutEffect, actorVars, turnVars
<1>18. ASSUME NEW c \in Calls, NEW d \in Calls, EditCall(c, d) PROVE TypeOK'
  BY <1>18, EditTyping DEF EditCall, actorVars, turnVars
<1>19. ASSUME NEW c \in Calls, NEW d \in Calls, AllowOnceEdited(c, d) PROVE TypeOK'
  BY <1>19, <1>then, <1>ctrl, EditTyping DEF AllowOnceEdited, turnVars
<1>20. ASSUME NEW c \in Calls, NEW d \in Calls, AllowForSessionEdited(c, d) PROVE TypeOK'
  <2>1. pending[c] \in Labels
    BY <1>20 DEF AllowForSessionEdited, IsPending, LedgerTypeOK
  <2> QED BY <2>1, <1>20, <1>then, <1>ctrl, <1>list, EditTyping
          DEF AllowForSessionEdited, turnVars
<1>21. ASSUME Restart PROVE TypeOK'
  <2>1. LedgerTypeOK'
    BY <1>21 DEF Restart, Reload, LedgerTypeOK, Image
  <2> QED BY <2>1, <1>21, WorkersAssumption, CallsAssumption DEF Restart
<1>22. ASSUME NEW a \in Actors, Ask(a) PROVE TypeOK'
  <2>1. LedgerTypeOK'
    BY <1>22, LedgerTyping DEF Ask, Label, Labels
  <2>2. ActorsOK'
    BY <1>22, <1>ret DEF Blocked, Goto, Ask
  <2> QED BY <1>22, <2>1, <2>2 DEF Ask, turnVars
<1>23. ASSUME NEW c \in Calls, UICall(c) PROVE TypeOK'
  BY <1>23, CallsAssumption DEF UICall, UIFree, Goto, ledgerVars, turnVars, LedgerTypeOK
<1> QED
  BY <1>1, <1>2, <1>3, <1>4, <1>5, <1>6, <1>7, <1>8, <1>9, <1>10, <1>11, <1>12, <1>13,
     <1>14, <1>15, <1>16, <1>17, <1>18, <1>19, <1>20, <1>21, <1>22, <1>23
  DEF Next, Execute, WorkerStep, UIPoll, Answer

\* The type invariant, for every instance.
THEOREM Typing == Safety => []TypeOK
<1> QED BY InitTyped, TypedStep, PTL DEF Safety

-----------------------------------------------------------------------------
(* The kinds of step, told apart by what they do to grants and runs.       *)

Inv == TypeOK /\ GrantInv /\ RunsAreGranted

\* An actor a keeps what it holds for the call it holds it for, or lets it go.
Keeps(a) ==
  \/ held'[a] = {}
  \/ held'[a] = held[a] /\ call'[a] = call[a]

SameRuns == \A a \in Actors : pc[a] = "running" \/ pc'[a] = "running" =>
                                pc'[a] = pc[a] /\ call'[a] = call[a] /\ held'[a] = held[a]

\* No grant is given, taken or used and nothing starts or ends.
Quiet ==
  /\ UNCHANGED <<once, grants, spent>>
  /\ disk'.once \in {disk.once, once}
  /\ session' = session \/ \E c \in Calls : session' = session \union {c}
  /\ \A a \in Actors : Keeps(a)
  /\ SameRuns

\* The command gate takes the grant.
Takes(a) ==
  /\ pc[a] = "commandGate" /\ call[a] \in Calls
  /\ Consume(call[a])
  /\ held' = [held EXCEPT ![a] = @ \union TakenBy(call[a])]
  /\ Goto(a, "riskGate")
  /\ UNCHANGED <<call, spent>>

\* The risk gate takes the grant and the runtime policy refuses the call.
Drops(a) ==
  /\ pc[a] = "riskGate" /\ call[a] \in Calls
  /\ Consume(call[a])
  /\ Return(a, "idle")
  /\ UNCHANGED spent

\* The call starts, on the grants in hand and those the risk gate takes.
Starts(a) ==
  /\ pc[a] = "riskGate" /\ call[a] \in Calls
  /\ Goto(a, "running")
  /\ UNCHANGED call
  /\ \/ /\ call[a] \notin Risky
        /\ UNCHANGED <<once, grants, session, disk>>
        /\ held' = [held EXCEPT ![a] = held[a]]
        /\ spent' = spent \union held[a]
     \/ /\ Consume(call[a])
        /\ held' = [held EXCEPT ![a] = held[a] \union TakenBy(call[a])]
        /\ spent' = spent \union (held[a] \union TakenBy(call[a]))

\* The operator gives a one-time grant for c.
Gives(c) ==
  /\ AddGrant(c) /\ Save
  /\ UNCHANGED <<session, spent>>
  /\ \A a \in Actors : Keeps(a)
  /\ SameRuns

\* An actor between calls holds no grant.
LEMMA IdleHoldsNothing ==
  ASSUME Inv, NEW a \in Actors, pc[a] \in {"off", "idle", "done"}
  PROVE  held[a] = {}
<1>1. call[a] = NoCall
  BY DEF Inv, TypeOK
<1>2. ASSUME NEW n \in held[a] PROVE FALSE
  <2>1. n \in DOMAIN grants /\ grants[n] = NoCall
    BY <1>1, <1>2 DEF Inv, GrantInv, HeldGrantsMatch, StoredFor
  <2>2. grants[n] \in Calls
    BY <2>1 DEF Inv, TypeOK, LedgerTypeOK
  <2> QED BY <2>1, <2>2, CallsAssumption
<1> QED BY <1>2

\* Writing the file leaves it with the grants of the old file or of the ledger.
LEMMA SavedGrants ==
  ASSUME Save, TypeOK PROVE disk'.once \in {disk.once, once'}
BY DEF Save

\* Every step of the system is of one of the kinds.
LEMMA StepKinds ==
  ASSUME Inv, [Next]_vars
  PROVE  \/ Quiet
         \/ \E a \in Actors : Takes(a) \/ Drops(a) \/ Starts(a) \/ FinishRun(a)
         \/ \E c \in Calls : Gives(c)
         \/ Restart
<1> USE DEF Actors
<1>typ. TypeOK
  BY DEF Inv
<1>len. /\ pc \in [Actors -> Places] /\ call \in [Actors -> Calls \union {NoCall}]
        /\ held \in [Actors -> SUBSET Nat] /\ retried \in [Actors -> BOOLEAN]
        /\ \A a \in Actors : call[a] = NoCall <=> pc[a] \in {"off", "idle", "done"}
  BY <1>typ DEF TypeOK
<1>save. Save /\ UNCHANGED once => disk'.once \in {disk.once, once}
  BY SavedGrants, <1>typ
<1>ret. ASSUME NEW a \in Actors, NEW place \in {"off", "idle", "done"}, pc[a] # "running",
               Return(a, place)
        PROVE  SameRuns /\ \A b \in Actors : Keeps(b)
  BY <1>ret, <1>len DEF Return, Goto, SameRuns, Keeps
<1>goto. ASSUME NEW a \in Actors, NEW place \in Places \ {"running"}, pc[a] # "running",
                Goto(a, place), UNCHANGED <<call, held>>
         PROVE  SameRuns /\ \A b \in Actors : Keeps(b)
  BY <1>goto, <1>len DEF Goto, SameRuns, Keeps
<1>same. UNCHANGED <<pc, call, held>> => SameRuns /\ \A b \in Actors : Keeps(b)
  BY DEF SameRuns, Keeps
<1>led. UNCHANGED ledgerVars => /\ UNCHANGED <<once, grants>> /\ session' = session
                                /\ disk'.once \in {disk.once, once}
  BY DEF ledgerVars
<1>then. ASSUME NEW c \in Calls, UIFree, ThenExecute(c), UNCHANGED <<retried, held>>
         PROVE  SameRuns /\ \A b \in Actors : Keeps(b)
  <2>1. held[UI] = {} /\ UI \in Actors /\ pc[UI] = "idle"
    BY <1>then, IdleHoldsNothing DEF UIFree
  <2> QED BY <2>1, <1>then, <1>len DEF ThenExecute, Goto, SameRuns, Keeps
<1>blocked. ASSUME NEW a \in Actors, pc[a] \in {"commandAsk", "riskAsk"}, Blocked(a)
            PROVE  SameRuns /\ \A b \in Actors : Keeps(b)
  BY <1>blocked, <1>ret, <1>len DEF Blocked, Goto, SameRuns, Keeps
<1>1. CASE UNCHANGED vars
  BY <1>1, <1>same, <1>led DEF vars, actorVars, Quiet
<1>2. ASSUME NEW w \in Workers, StartTurn(w) PROVE Quiet
  <2>1. pc[w] # "running" /\ "idle" \in Places \ {"running"}
    BY <1>2 DEF StartTurn, Places
  <2> QED BY <1>2, <2>1, <1>goto, <1>led DEF StartTurn, Quiet
<1>3. ASSUME NEW w \in Workers, NEW c \in Calls, BeginCall(w, c) PROVE Quiet
  <2>1. held[w] = {}
    BY <1>3, IdleHoldsNothing DEF BeginCall
  <2> QED BY <1>3, <2>1, <1>len, <1>led DEF BeginCall, Quiet, SameRuns, Keeps, Goto
<1>4. ASSUME NEW w \in Workers, EndTurn(w) PROVE Quiet
  <2>1. pc[w] # "running" /\ "done" \in Places \ {"running"}
    BY <1>4 DEF EndTurn, Places
  <2> QED BY <1>4, <2>1, <1>goto, <1>led DEF EndTurn, Quiet
<1>5. ASSUME NEW w \in Workers, CancelTurn(w) PROVE Quiet
  BY <1>5, <1>same, <1>led DEF CancelTurn, actorVars, Quiet
<1>6. ASSUME NEW w \in Workers, Announce(w) PROVE Quiet
  <2>1. pc[w] # "running" /\ "waiting" \in Places \ {"running"}
    BY <1>6 DEF Announce, Places
  <2> QED BY <1>6, <2>1, <1>goto, <1>led DEF Announce, Quiet
<1>7. ASSUME NEW w \in Workers, Wait(w) PROVE Quiet
  <2>1. pc[w] # "running" /\ "commandGate" \in Places \ {"running"}
    BY <1>7 DEF Wait, Places
  <2> QED BY <1>7, <2>1, <1>goto, <1>ret, <1>led DEF Wait, Quiet
<1>8. ASSUME NEW w \in Workers, Reap(w) PROVE Quiet
  <2>1. pc[w] # "running" /\ "off" \in Places \ {"running"}
    BY <1>8 DEF Reap, Places
  <2> QED BY <1>8, <2>1, <1>goto, <1>led DEF Reap, Quiet
<1>9. ASSUME NEW w \in Workers, PollStream(w) PROVE Quiet
  BY <1>9, <1>same, <1>led DEF PollStream, actorVars, Quiet
<1>10. ASSUME NEW w \in Workers, Join(w) PROVE Quiet
  <2>1. pc[w] # "running" /\ "off" \in Places \ {"running"}
    BY <1>10 DEF Join, Places
  <2> QED BY <1>10, <2>1, <1>goto, <1>led DEF Join, Quiet
<1>11. ASSUME NEW a \in Actors, CommandGate(a) PROVE Quiet \/ Takes(a)
  <2>0. pc[a] = "commandGate" /\ call[a] \in Calls /\ UNCHANGED <<call, spent>>
    BY <1>11, <1>len DEF CommandGate
  <2>1. CASE Goto(a, "riskGate") /\ UNCHANGED <<ledgerVars, held>>
    <3>1. pc[a] # "running" /\ "riskGate" \in Places \ {"running"}
      BY <2>0 DEF Places
    <3> QED BY <2>0, <2>1, <3>1, <1>goto, <1>led DEF Quiet
  <2>2. CASE /\ Consume(call[a])
             /\ held' = [held EXCEPT ![a] = @ \union TakenBy(call[a])]
             /\ Goto(a, "riskGate")
    BY <2>0, <2>2 DEF Takes
  <2>3. CASE FindNothing(call[a]) /\ Goto(a, "commandAsk") /\ UNCHANGED held
    <3>1. pc[a] # "running" /\ "commandAsk" \in Places \ {"running"}
      BY <2>0 DEF Places
    <3> QED BY <2>0, <2>3, <3>1, <1>goto, <1>save DEF FindNothing, Quiet
  <2> QED BY <1>11, <2>1, <2>2, <2>3 DEF CommandGate
<1>12. ASSUME NEW a \in Actors, RiskGate(a) PROVE Quiet \/ Drops(a) \/ Starts(a)
  <2>0. pc[a] = "riskGate" /\ call[a] \in Calls
    BY <1>12, <1>len DEF RiskGate
  <2>1. CASE call[a] \notin Risky /\ Proceed(a, held[a]) /\ UNCHANGED ledgerVars
    <3>1. CASE Return(a, "idle") /\ UNCHANGED spent
      BY <2>0, <2>1, <3>1, <1>ret, <1>led DEF Quiet
    <3>2. CASE /\ Goto(a, "running")
               /\ held'  = [held EXCEPT ![a] = held[a]]
               /\ spent' = spent \union held[a]
               /\ UNCHANGED <<call, retried>>
      BY <2>0, <2>1, <3>2 DEF Starts, ledgerVars
    <3> QED BY <2>1, <3>1, <3>2 DEF Proceed
  <2>2. CASE Consume(call[a]) /\ Proceed(a, held[a] \union TakenBy(call[a]))
    BY <2>0, <2>2 DEF Proceed, Drops, Starts
  <2>3. CASE FindNothing(call[a]) /\ Goto(a, "riskAsk") /\ UNCHANGED <<call, retried, held, spent>>
    <3>1. pc[a] # "running" /\ "riskAsk" \in Places \ {"running"}
      BY <2>0 DEF Places
    <3> QED BY <2>0, <2>3, <3>1, <1>goto, <1>save DEF FindNothing, Quiet
  <2> QED BY <1>12, <2>1, <2>2, <2>3 DEF RiskGate
<1>13. ASSUME NEW c \in Calls, AllowOnce(c) PROVE Gives(c)
  BY <1>13, <1>then DEF AllowOnce, ApproveOnce, Gives
<1>14. ASSUME NEW c \in Calls, AllowForSession(c) PROVE Quiet
  BY <1>14, <1>then, <1>save DEF AllowForSession, ApproveForSession, Quiet
<1>15. ASSUME NEW c \in Calls, DenyCall(c) PROVE Quiet
  BY <1>15, <1>same, <1>save DEF DenyCall, Deny, actorVars, Quiet
<1>16. ASSUME NEW c \in Calls, AnswerWithoutEffect(c) PROVE Quiet
  BY <1>16, <1>same, <1>save DEF AnswerWithoutEffect, actorVars, Quiet
<1>17. ASSUME NEW c \in Calls, NEW d \in Calls, EditCall(c, d) PROVE Quiet
  BY <1>17, <1>same, <1>save DEF EditCall, Edit, actorVars, Quiet
<1>18. ASSUME NEW c \in Calls, NEW d \in Calls, AllowOnceEdited(c, d) PROVE Gives(d)
  BY <1>18, <1>then DEF AllowOnceEdited, Gives
<1>19. ASSUME NEW c \in Calls, NEW d \in Calls, AllowForSessionEdited(c, d) PROVE Quiet
  BY <1>19, <1>then, <1>save DEF AllowForSessionEdited, Quiet
<1>20. ASSUME NEW a \in Actors, Ask(a) PROVE Quiet
  BY <1>20, <1>blocked, <1>save DEF Ask, Enqueue, Quiet
<1>21. ASSUME NEW c \in Calls, UICall(c) PROVE Quiet
  <2>1. held[UI] = {} /\ UI \in Actors /\ pc[UI] = "idle"
    BY <1>21, IdleHoldsNothing DEF UICall, UIFree
  <2> QED BY <1>21, <2>1, <1>len, <1>led DEF UICall, Quiet, SameRuns, Keeps, Goto
<1> QED
  BY <1>1, <1>2, <1>3, <1>4, <1>5, <1>6, <1>7, <1>8, <1>9, <1>10, <1>11, <1>12, <1>13,
     <1>14, <1>15, <1>16, <1>17, <1>18, <1>19, <1>20, <1>21
  DEF Next, Execute, WorkerStep, UIPoll, Answer

-----------------------------------------------------------------------------
(* The inductive invariant.                                                *)

\* A grant stored for a call stays a grant of that call while grants grow.
LEMMA StoredForStays ==
  ASSUME NEW c, NEW n \in Nat, grants \in Seq(Calls), NEW e \in Calls,
         grants' \in {grants, Append(grants, e)}, StoredFor(c, n)
  PROVE  StoredFor(c, n)'
BY DEF StoredFor

\* Grants are numbered from 1 and the next one has a number no one has seen.
LEMMA GiveGrant ==
  ASSUME Inv, NEW c \in Calls, AddGrant(c)
  PROVE  \/ UNCHANGED <<once, grants>>
         \/ \E n \in Nat : /\ n # NoGrant /\ n \notin DOMAIN grants
                          /\ grants' = Append(grants, c)
                          /\ n \in DOMAIN grants' /\ grants'[n] = c
                          /\ once' = [once EXCEPT ![c] = n]
<1>1. grants \in Seq(Calls)
  BY DEF Inv, TypeOK, LedgerTypeOK
<1>2. CASE grants' = Append(grants, c) /\ once' = [once EXCEPT ![c] = Len(grants) + 1]
  <2>1. /\ Len(grants) + 1 \in Nat /\ Len(grants) + 1 # NoGrant
        /\ Len(grants) + 1 \notin DOMAIN grants /\ Len(grants) + 1 \in DOMAIN grants'
        /\ grants'[Len(grants) + 1] = c
    BY <1>1, <1>2 DEF NoGrant
  <2> QED BY <1>2, <2>1
<1> QED BY <1>2 DEF AddGrant

\* What the parts of the invariant say, opened once for the steps below.
LEMMA InvParts ==
  ASSUME Inv
  PROVE  /\ grants \in Seq(Calls) /\ once \in [Calls -> Nat] /\ disk.once \in [Calls -> Nat]
         /\ session \in SUBSET Calls /\ spent \in SUBSET Nat
         /\ pc \in [Actors -> Places] /\ call \in [Actors -> Calls \union {NoCall}]
         /\ held \in [Actors -> SUBSET Nat]
         /\ \A a \in Actors : \A n \in held[a] : n # NoGrant /\ StoredFor(call[a], n)
         /\ \A c \in Calls : StoredFor(c, once[c]) /\ StoredFor(c, disk.once[c])
         /\ spent \subseteq DOMAIN grants
         /\ \A a \in Actors : pc[a] = "running" => call[a] \in Calls
         /\ ~SaveMayFail => HeldOnce /\ StoredUnused /\ HeldUnused /\ DiskIsCurrent
BY DEF Inv, TypeOK, LedgerTypeOK, Image, GrantInv, HeldGrantsMatch, StoredGrantsMatch,
       SpentGiven

\* Every step keeps the grants where they belong.
LEMMA GrantStep ==
  ASSUME Inv, TypeOK', [Next]_vars PROVE GrantInv'
<1> USE DEF Actors
<1>p. /\ grants \in Seq(Calls) /\ once \in [Calls -> Nat] /\ disk.once \in [Calls -> Nat]
      /\ pc \in [Actors -> Places] /\ call \in [Actors -> Calls \union {NoCall}]
      /\ held \in [Actors -> SUBSET Nat] /\ spent \in SUBSET Nat
      /\ \A a \in Actors : \A n \in held[a] : n # NoGrant /\ StoredFor(call[a], n)
      /\ \A c \in Calls : StoredFor(c, once[c]) /\ StoredFor(c, disk.once[c])
      /\ spent \subseteq DOMAIN grants
  BY InvParts
<1>goal. /\ HeldGrantsMatch' /\ StoredGrantsMatch' /\ SpentGiven'
         /\ ~SaveMayFail => HeldOnce' /\ StoredUnused' /\ HeldUnused' /\ DiskIsCurrent'
         => GrantInv'
  BY SaveMayFailAssumption DEF GrantInv
<1>u. ~SaveMayFail => HeldOnce /\ StoredUnused /\ HeldUnused /\ DiskIsCurrent
  BY InvParts
<1>disk. ~SaveMayFail /\ Save => DiskIsCurrent'
  BY DEF Save, DiskIsCurrent
<1>stay. ASSUME UNCHANGED grants PROVE \A c, n : StoredFor(c, n) <=> StoredFor(c, n)'
  BY <1>stay DEF StoredFor
<1>0. StoredFor(NoCall, NoGrant) /\ \A c : StoredFor(c, NoGrant)'
  BY DEF StoredFor
<1>1. CASE Quiet
  <2> USE <1>1 DEF Quiet
  <2>1. HeldGrantsMatch'
    BY <1>p, <1>stay DEF HeldGrantsMatch, Keeps
  <2>2. StoredGrantsMatch'
    BY <1>p, <1>stay DEF StoredGrantsMatch
  <2>3. SpentGiven'
    BY <1>p DEF SpentGiven
  <2>4. ASSUME ~SaveMayFail PROVE HeldOnce' /\ StoredUnused' /\ HeldUnused' /\ DiskIsCurrent'
    <3>1. HeldOnce' /\ StoredUnused'
      BY <1>u, <2>4 DEF HeldOnce, StoredUnused, Keeps
    <3>2. HeldUnused'
      BY <1>u, <2>4 DEF HeldUnused, Keeps, SameRuns
    <3>3. DiskIsCurrent'
      BY <1>u, <2>4 DEF DiskIsCurrent
    <3> QED BY <3>1, <3>2, <3>3
  <2> QED BY <1>goal, <2>1, <2>2, <2>3, <2>4
<1>consume. ASSUME NEW a \in Actors, call[a] \in Calls, Consume(call[a])
            PROVE  /\ UNCHANGED grants
                   /\ StoredGrantsMatch'
                   /\ \A n \in TakenBy(call[a]) : n # NoGrant /\ StoredFor(call[a], n)
                   /\ TakenBy(call[a]) \subseteq DOMAIN grants
                   /\ ~SaveMayFail =>
                        /\ DiskIsCurrent'
                        /\ TakenBy(call[a]) \cap spent = {}
                        /\ \A b \in Actors : TakenBy(call[a]) \cap held[b] = {}
                        /\ \A c \in Calls : once'[c] # NoGrant =>
                              once'[c] = once[c] /\ once[c] \notin TakenBy(call[a])
  <2>1. UNCHANGED grants /\ once' = [once EXCEPT ![call[a]] = NoGrant] /\ Save
    BY <1>consume DEF Consume
  <2>2. disk'.once \in {disk.once, once'}
    BY <2>1, SavedGrants DEF Inv
  <2>3. StoredGrantsMatch'
    BY <1>p, <1>0, <1>stay, <1>consume, <2>1, <2>2 DEF StoredGrantsMatch
  <2>4. /\ \A n \in TakenBy(call[a]) : n # NoGrant /\ StoredFor(call[a], n)
        /\ TakenBy(call[a]) \subseteq DOMAIN grants
    BY <1>p, <1>consume DEF TakenBy, StoredFor
  <2>5. ASSUME ~SaveMayFail
        PROVE  /\ TakenBy(call[a]) \cap spent = {}
               /\ \A b \in Actors : TakenBy(call[a]) \cap held[b] = {}
    BY <1>u, <2>5, <1>consume DEF TakenBy, StoredUnused
  <2>6. \A c \in Calls : once'[c] # NoGrant =>
           once'[c] = once[c] /\ once[c] \notin TakenBy(call[a])
    BY <1>p, <2>1, <1>consume DEF TakenBy, StoredFor
  <2> QED BY <1>disk, <2>1, <2>3, <2>4, <2>5, <2>6
<1>2. ASSUME NEW a \in Actors, Takes(a) PROVE GrantInv'
  <2>0. /\ pc[a] = "commandGate" /\ call[a] \in Calls /\ Consume(call[a])
        /\ held' = [held EXCEPT ![a] = held[a] \union TakenBy(call[a])]
        /\ pc' = [pc EXCEPT ![a] = "riskGate"] /\ UNCHANGED <<call, spent>>
    BY <1>2 DEF Takes, Goto
  <2>1. HeldGrantsMatch'
    BY <1>p, <1>stay, <1>consume, <2>0 DEF HeldGrantsMatch
  <2>2. SpentGiven'
    BY <1>p, <1>consume, <2>0 DEF SpentGiven
  <2>3. ASSUME ~SaveMayFail PROVE HeldOnce' /\ StoredUnused' /\ HeldUnused'
    <3>1. HeldOnce'
      BY <1>p, <1>u, <1>consume, <2>0, <2>3 DEF HeldOnce
    <3>2. StoredUnused'
      BY <1>p, <1>u, <1>consume, <2>0, <2>3 DEF StoredUnused
    <3>3. HeldUnused'
      BY <1>p, <1>u, <1>consume, <2>0, <2>3 DEF HeldUnused
    <3> QED BY <3>1, <3>2, <3>3
  <2> QED BY <1>goal, <1>consume, <2>0, <2>1, <2>2, <2>3
<1>3. ASSUME NEW a \in Actors, Drops(a) PROVE GrantInv'
  <2>0. /\ pc[a] = "riskGate" /\ call[a] \in Calls /\ Consume(call[a])
        /\ held' = [held EXCEPT ![a] = {}] /\ call' = [call EXCEPT ![a] = NoCall]
        /\ pc' = [pc EXCEPT ![a] = "idle"] /\ UNCHANGED spent
    BY <1>3 DEF Drops, Return, Goto
  <2>1. HeldGrantsMatch'
    BY <1>p, <1>stay, <1>consume, <2>0 DEF HeldGrantsMatch
  <2>2. SpentGiven'
    BY <1>p, <1>consume, <2>0 DEF SpentGiven
  <2>3. ASSUME ~SaveMayFail PROVE HeldOnce' /\ StoredUnused' /\ HeldUnused'
    <3>1. HeldOnce'
      BY <1>p, <1>u, <2>0, <2>3 DEF HeldOnce
    <3>2. StoredUnused'
      BY <1>p, <1>u, <1>consume, <2>0, <2>3 DEF StoredUnused
    <3>3. HeldUnused'
      BY <1>p, <1>u, <2>0, <2>3 DEF HeldUnused
    <3> QED BY <3>1, <3>2, <3>3
  <2> QED BY <1>goal, <1>consume, <2>0, <2>1, <2>2, <2>3
<1>4. ASSUME NEW a \in Actors, Starts(a) PROVE GrantInv'
  <2>0. /\ pc[a] = "riskGate" /\ call[a] \in Calls
        /\ pc' = [pc EXCEPT ![a] = "running"] /\ UNCHANGED call
    BY <1>4 DEF Starts, Goto
  <2>1. PICK S \in {{}, TakenBy(call[a])} :
       /\ held' = [held EXCEPT ![a] = held[a] \union S]
       /\ spent' = spent \union (held[a] \union S)
       /\ \/ S = {} /\ UNCHANGED <<once, grants, session, disk>>
          \/ S = TakenBy(call[a]) /\ Consume(call[a])
    <3>1. CASE /\ UNCHANGED <<once, grants, session, disk>>
               /\ held' = [held EXCEPT ![a] = held[a]]
               /\ spent' = spent \union held[a]
      <4>1. held[a] \union {} = held[a]
        OBVIOUS
      <4> QED BY <3>1, <4>1
    <3>2. CASE /\ Consume(call[a])
               /\ held' = [held EXCEPT ![a] = held[a] \union TakenBy(call[a])]
               /\ spent' = spent \union (held[a] \union TakenBy(call[a]))
      BY <3>2
    <3> QED BY <1>4, <3>1, <3>2 DEF Starts
  <2>2. /\ UNCHANGED grants /\ StoredGrantsMatch'
        /\ \A n \in S : n # NoGrant /\ StoredFor(call[a], n)
        /\ S \subseteq DOMAIN grants
        /\ ~SaveMayFail =>
              /\ DiskIsCurrent'
              /\ \A b \in Actors : S \cap held[b] = {}
              /\ \A c \in Calls : once'[c] # NoGrant => once'[c] = once[c] /\ once[c] \notin S
    <3>1. CASE S = {} /\ UNCHANGED <<once, grants, session, disk>>
      BY <3>1, <1>p, <1>u, <1>stay DEF StoredGrantsMatch, DiskIsCurrent
    <3>2. CASE S = TakenBy(call[a]) /\ Consume(call[a])
      BY <3>2, <1>consume, <2>0
    <3> QED BY <2>1, <3>1, <3>2
  <2>3. HeldGrantsMatch'
    BY <1>p, <1>stay, <2>0, <2>1, <2>2 DEF HeldGrantsMatch
  <2>4. SpentGiven'
    BY <1>p, <2>1, <2>2 DEF SpentGiven, StoredFor
  <2>5. ASSUME ~SaveMayFail PROVE HeldOnce' /\ StoredUnused' /\ HeldUnused'
    <3>1. HeldOnce'
      BY <1>p, <1>u, <2>1, <2>2, <2>5 DEF HeldOnce
    <3>2. StoredUnused'
      BY <1>p, <1>u, <2>1, <2>2, <2>5 DEF StoredUnused
    <3>3. HeldUnused'
      BY <1>p, <1>u, <2>0, <2>1, <2>2, <2>5 DEF HeldUnused, HeldOnce
    <3> QED BY <3>1, <3>2, <3>3
  <2> QED BY <1>goal, <2>2, <2>3, <2>4, <2>5
<1>5. ASSUME NEW a \in Actors, FinishRun(a) PROVE GrantInv'
  <2>0. /\ held' = [held EXCEPT ![a] = {}] /\ call' = [call EXCEPT ![a] = NoCall]
        /\ pc' = [pc EXCEPT ![a] = "idle"] /\ UNCHANGED <<once, grants, spent, disk>>
    BY <1>5 DEF FinishRun, Return, Goto, ledgerVars
  <2>1. HeldGrantsMatch' /\ StoredGrantsMatch' /\ SpentGiven'
    BY <1>p, <1>stay, <2>0 DEF HeldGrantsMatch, StoredGrantsMatch, SpentGiven
  <2>2. ASSUME ~SaveMayFail PROVE HeldOnce' /\ StoredUnused' /\ HeldUnused' /\ DiskIsCurrent'
    BY <1>p, <1>u, <2>0, <2>2 DEF HeldOnce, StoredUnused, HeldUnused, DiskIsCurrent
  <2> QED BY <1>goal, <2>1, <2>2
<1>6. ASSUME NEW c \in Calls, Gives(c) PROVE GrantInv'
  <2> USE <1>6 DEF Gives
  <2>1. disk'.once \in {disk.once, once'}
    BY SavedGrants DEF Inv
  <2>2. CASE UNCHANGED <<once, grants>>
    <3>1. HeldGrantsMatch' /\ StoredGrantsMatch' /\ SpentGiven'
      BY <1>p, <1>stay, <2>1, <2>2 DEF HeldGrantsMatch, StoredGrantsMatch, SpentGiven, Keeps
    <3>2. ASSUME ~SaveMayFail PROVE HeldOnce' /\ StoredUnused' /\ HeldUnused'
      BY <1>p, <1>u, <2>2, <3>2 DEF HeldOnce, StoredUnused, HeldUnused, Keeps, SameRuns
    <3> QED BY <1>goal, <1>disk, <3>1, <3>2
  <2>3. CASE \E n \in Nat : /\ n # NoGrant /\ n \notin DOMAIN grants
                           /\ grants' = Append(grants, c)
                           /\ n \in DOMAIN grants' /\ grants'[n] = c
                           /\ once' = [once EXCEPT ![c] = n]
    <3>1. PICK n \in Nat : /\ n # NoGrant /\ n \notin DOMAIN grants
                         /\ grants' = Append(grants, c)
                         /\ n \in DOMAIN grants' /\ grants'[n] = c
                         /\ once' = [once EXCEPT ![c] = n]
      BY <2>3
    <3>2. \A e, m : m \in Nat /\ StoredFor(e, m) => StoredFor(e, m)'
      BY <1>p, <3>1, StoredForStays
    <3>3. HeldGrantsMatch'
      BY <1>p, <3>2 DEF HeldGrantsMatch, Keeps
    <3>4. StoredFor(c, n)'
      BY <3>1 DEF StoredFor
    <3>5. StoredGrantsMatch'
      BY <1>p, <2>1, <3>1, <3>2, <3>4 DEF StoredGrantsMatch
    <3>6. DOMAIN grants \subseteq DOMAIN grants'
      BY <1>p, <3>1
    <3>7. SpentGiven'
      BY <1>p, <3>6 DEF SpentGiven
    <3>8. n \notin spent /\ \A a \in Actors : n \notin held[a]
      BY <1>p, <3>1 DEF StoredFor
    <3>9. ASSUME ~SaveMayFail PROVE HeldOnce' /\ StoredUnused' /\ HeldUnused'
      <4>1. HeldOnce' /\ HeldUnused'
        BY <1>u, <3>9 DEF HeldOnce, HeldUnused, Keeps, SameRuns
      <4>2. StoredUnused'
        BY <1>p, <1>u, <3>1, <3>8, <3>9 DEF StoredUnused, Keeps
      <4> QED BY <4>1, <4>2
    <3> QED BY <1>goal, <1>disk, <3>3, <3>5, <3>7, <3>9
  <2> QED BY <2>2, <2>3, GiveGrant
<1>7. CASE Restart
  <2>0. /\ held' = [a \in Actors |-> {}] /\ once' = disk.once
        /\ UNCHANGED <<disk, grants, spent>>
    BY <1>7 DEF Restart, Reload
  <2>1. HeldGrantsMatch' /\ StoredGrantsMatch' /\ SpentGiven'
    BY <1>p, <1>stay, <2>0 DEF HeldGrantsMatch, StoredGrantsMatch, SpentGiven
  <2>2. ASSUME ~SaveMayFail PROVE HeldOnce' /\ StoredUnused' /\ HeldUnused' /\ DiskIsCurrent'
    BY <1>p, <1>u, <2>0, <2>2 DEF HeldOnce, StoredUnused, HeldUnused, DiskIsCurrent
  <2> QED BY <1>goal, <2>1, <2>2
<1> QED BY <1>1, <1>2, <1>3, <1>4, <1>5, <1>6, <1>7, StepKinds

\* Every step keeps the running calls granted.
LEMMA RunStep ==
  ASSUME Inv, GrantInv', [Next]_vars PROVE RunsAreGranted'
<1> DEFINE Granted(a) == \/ call[a] \in session
                         \/ /\ held[a] # {}
                            /\ \A n \in held[a] : n \in DOMAIN grants /\ grants[n] = call[a]
<1>p. /\ grants \in Seq(Calls) /\ once \in [Calls -> Nat]
      /\ pc \in [Actors -> Places] /\ call \in [Actors -> Calls \union {NoCall}]
      /\ held \in [Actors -> SUBSET Nat]
      /\ \A a \in Actors : \A n \in held[a] : n # NoGrant /\ StoredFor(call[a], n)
  BY InvParts
<1>held. \A a \in Actors : \A n \in held'[a] : n \in DOMAIN grants' /\ grants'[n] = call'[a]
  BY DEF GrantInv, HeldGrantsMatch, StoredFor
<1>old. \A a \in Actors : pc[a] = "running" /\ call[a] \in Risky =>
                           call[a] \in session \/ held[a] # {}
  BY DEF Inv, RunsAreGranted
<1>goal. (\A a \in Actors : pc'[a] = "running" /\ call'[a] \in Risky =>
                             call'[a] \in session' \/ held'[a] # {})
         => RunsAreGranted'
  BY <1>held DEF RunsAreGranted
<1>1. CASE Quiet
  BY <1>1, <1>old, <1>goal DEF Quiet, SameRuns
<1>2. ASSUME NEW a \in Actors, Takes(a) PROVE RunsAreGranted'
  <2>1. /\ pc' = [pc EXCEPT ![a] = "riskGate"] /\ UNCHANGED <<call, session>>
        /\ held' = [held EXCEPT ![a] = held[a] \union TakenBy(call[a])]
    BY <1>2 DEF Takes, Goto, Consume
  <2> QED BY <2>1, <1>p, <1>old, <1>goal
<1>3. ASSUME NEW a \in Actors, Drops(a) PROVE RunsAreGranted'
  <2>1. /\ pc' = [pc EXCEPT ![a] = "idle"] /\ call' = [call EXCEPT ![a] = NoCall]
        /\ held' = [held EXCEPT ![a] = {}] /\ UNCHANGED session
    BY <1>3 DEF Drops, Return, Goto, Consume
  <2> QED BY <2>1, <1>p, <1>old, <1>goal
<1>4. ASSUME NEW a \in Actors, Starts(a) PROVE RunsAreGranted'
  <2>1. pc' = [pc EXCEPT ![a] = "running"] /\ UNCHANGED <<call, session>>
    BY <1>4 DEF Starts, Goto, Consume
  <2>2. \A b \in Actors \ {a} : held'[b] = held[b]
    BY <1>4, <1>p DEF Starts
  <2>3. call[a] \in Risky => call[a] \in session \/ held'[a] # {}
    <3>1. CASE call[a] \in Risky
      <4>1. /\ held' = [held EXCEPT ![a] = held[a] \union TakenBy(call[a])]
            /\ once[call[a]] # NoGrant \/ call[a] \in session
        BY <1>4, <3>1 DEF Starts, Consume, Consumable
      <4>2. held'[a] = held[a] \union ({once[call[a]]} \ {NoGrant})
        BY <4>1, <1>p DEF TakenBy
      <4> QED BY <4>1, <4>2
    <3> QED BY <3>1
  <2> QED BY <2>1, <2>2, <2>3, <1>p, <1>old, <1>goal
<1>5. ASSUME NEW a \in Actors, FinishRun(a) PROVE RunsAreGranted'
  <2>1. /\ pc' = [pc EXCEPT ![a] = "idle"] /\ call' = [call EXCEPT ![a] = NoCall]
        /\ held' = [held EXCEPT ![a] = {}] /\ UNCHANGED session
    BY <1>5 DEF FinishRun, Return, Goto, ledgerVars
  <2> QED BY <2>1, <1>p, <1>old, <1>goal
<1>6. ASSUME NEW c \in Calls, Gives(c) PROVE RunsAreGranted'
  BY <1>6, <1>old, <1>goal DEF Gives, SameRuns
<1>7. CASE Restart
  BY <1>7, <1>goal DEF Restart
<1> QED BY <1>1, <1>2, <1>3, <1>4, <1>5, <1>6, <1>7, StepKinds

\* No reachable state breaks the invariant.
THEOREM Invariance == Safety => []Inv
<1>1. Init => Inv
  <2> SUFFICES ASSUME Init, TypeOK PROVE GrantInv /\ RunsAreGranted
    BY InitTyped DEF Inv
  <2>1. /\ held = [a \in Actors |-> {}] /\ grants = <<>> /\ spent = {}
        /\ once = [c \in Calls |-> NoGrant] /\ disk.once = once
        /\ \A a \in Actors : pc[a] # "running"
    BY DEF Init, InitLedger
  <2> QED
    BY <2>1 DEF GrantInv, HeldGrantsMatch, StoredGrantsMatch, StoredFor, SpentGiven, HeldOnce,
                StoredUnused, HeldUnused, DiskIsCurrent, RunsAreGranted
<1>2. Inv /\ [Next]_vars => Inv'
  <2> SUFFICES ASSUME Inv, [Next]_vars PROVE Inv'
    OBVIOUS
  <2>1. TypeOK'
    BY TypedStep DEF Inv
  <2>2. GrantInv'
    BY <2>1, GrantStep
  <2>3. RunsAreGranted'
    BY <2>2, RunStep
  <2> QED BY <2>1, <2>2, <2>3 DEF Inv
<1> QED BY <1>1, <1>2, PTL DEF Safety

\* A risky call runs only on grants given for that call, or on an approval of
\* the session, with any number of workers, answers, edits and restarts.
THEOREM RunsGranted == Safety => []RunsAreGranted
<1>1. Inv => RunsAreGranted
  BY DEF Inv
<1> QED BY <1>1, Invariance, PTL

\* The grants are where GrantInv says.
THEOREM GrantsInPlace == Safety => []GrantInv
<1>1. Inv => GrantInv
  BY DEF Inv
<1> QED BY <1>1, Invariance, PTL

-----------------------------------------------------------------------------
(* One run per grant, and the refinement.                                  *)

\* A run that starts while saves succeed uses no grant an earlier run used.
LEMMA FreshStart ==
  ASSUME Inv, ~SaveMayFail, NEW a \in Actors, Starts(a)
  PROVE  held'[a] \cap spent = {}
<1>1. held[a] \cap spent = {}
  BY InvParts DEF Starts, HeldUnused
<1>2. TakenBy(call[a]) \cap spent = {}
  BY InvParts DEF Starts, TakenBy, StoredUnused
<1>3. held \in [Actors -> SUBSET Nat]
  BY InvParts
<1> QED BY <1>1, <1>2, <1>3 DEF Starts

\* Only a step of the risk gate starts a run.
LEMMA OnlyStarts ==
  ASSUME Inv, [Next]_vars, NEW a \in Actors, StartsRun(a)
  PROVE  Starts(a)
<1>1. pc \in [Actors -> Places]
  BY InvParts
<1>2. ~Quiet /\ (\A c \in Calls : ~Gives(c)) /\ ~Restart
  BY DEF StartsRun, Quiet, Gives, SameRuns, Restart
<1>3. PICK b \in Actors : Takes(b) \/ Drops(b) \/ Starts(b) \/ FinishRun(b)
  BY <1>2, StepKinds
<1>4. Starts(b) /\ b = a
  BY <1>1, <1>3 DEF StartsRun, Takes, Drops, Starts, FinishRun, Return, Goto
<1> QED BY <1>4

\* "Use approve-once for one execution", for every instance.
THEOREM OncePerGrant == Safety => OneRunPerGrant
<1>1. Inv /\ [Next]_vars =>
        [~SaveMayFail => \A a \in Actors : StartsRun(a) => held'[a] \cap spent = {}]_vars
  BY FreshStart, OnlyStarts
<1> QED BY <1>1, Invariance, PTL DEF Safety, OneRunPerGrant

\* Each step of the threads, the ledger and the UI is a step, or a stutter, of
\* the promise.
LEMMA RefinedStep ==
  ASSUME Inv, Inv', [Next]_vars, ~SaveMayFail
  PROVE  [Grants!Next]_Grants!vars
<1> USE DEF Grants!Next, Grants!vars
<1>p. /\ grants \in Seq(Calls) /\ once \in [Calls -> Nat]
      /\ pc \in [Actors -> Places] /\ call \in [Actors -> Calls \union {NoCall}]
      /\ held \in [Actors -> SUBSET Nat]
      /\ \A a \in Actors : \A n \in held[a] : n # NoGrant /\ StoredFor(call[a], n)
      /\ \A c \in Calls : StoredFor(c, once[c])
  BY InvParts
<1>q. pc' \in [Actors -> Places] /\ call' \in [Actors -> Calls \union {NoCall}]
  BY DEF Inv, TypeOK
<1>same. SameRuns => UNCHANGED Running
  BY DEF SameRuns, Running
<1>1. CASE Quiet
  <2>1. UNCHANGED <<grants, spent, Running>>
    BY <1>1, <1>same DEF Quiet
  <2>2. CASE UNCHANGED session
    BY <2>1, <2>2
  <2>3. CASE \E c \in Calls : session' = session \union {c}
    BY <2>1, <2>3 DEF Grants!GrantSession
  <2> QED BY <1>1, <2>2, <2>3 DEF Quiet
<1>2. ASSUME NEW a \in Actors, Takes(a) \/ Drops(a) PROVE UNCHANGED Grants!vars
  <2>1. UNCHANGED <<grants, spent, session>>
    BY <1>2 DEF Takes, Drops, Consume
  <2>2. UNCHANGED Running
    BY <1>2, <1>p DEF Takes, Drops, Goto, Return, Running
  <2> QED BY <2>1, <2>2
<1>3. ASSUME NEW a \in Actors, Starts(a) PROVE Grants!Next
  <2>1. call[a] \in Calls /\ UNCHANGED <<grants, session>>
    BY <1>3 DEF Starts, Consume
  <2>2. Running[a] = NoCall
    BY <1>3 DEF Starts, Running
  <2>3. Running' = [Running EXCEPT ![a] = call[a]]
    BY <1>3, <1>p DEF Starts, Goto, Running
  <2>4. spent' = spent \union held'[a]
    BY <1>3, <1>p DEF Starts
  <2>5. held'[a] \in SUBSET Grants!Unspent(call[a])
    <3>1. held'[a] \cap spent = {}
      BY <1>3, FreshStart
    <3>2. \A n \in held'[a] : n \in DOMAIN grants /\ grants[n] = call[a]
      <4>1. HeldGrantsMatch' /\ call'[a] = call[a]
        BY <1>3 DEF Inv, GrantInv, Starts
      <4> QED BY <2>1, <4>1 DEF HeldGrantsMatch, StoredFor
    <3>3. DOMAIN grants = 1..Len(grants)
      BY <1>p
    <3> QED BY <3>1, <3>2, <3>3 DEF Grants!Unspent
  <2>6. call[a] \in Risky => held'[a] # {} \/ call[a] \in session
    <3>1. pc'[a] = "running" /\ call'[a] = call[a] /\ session' = session
      BY <1>3, <1>p, <2>1 DEF Starts, Goto
    <3> QED BY <3>1 DEF Inv, RunsAreGranted
  <2>7. Grants!Run(a, call[a])
    BY <2>1, <2>2, <2>3, <2>4, <2>5, <2>6 DEF Grants!Run
  <2> QED BY <2>1, <2>7
<1>4. ASSUME NEW a \in Actors, FinishRun(a) PROVE Grants!Next
  <2>1. UNCHANGED <<grants, spent, session>>
    BY <1>4 DEF FinishRun, ledgerVars
  <2>2. Running' = [Running EXCEPT ![a] = NoCall]
    BY <1>4, <1>p DEF FinishRun, Return, Goto, Running
  <2> QED BY <2>1, <2>2 DEF Grants!Stop
<1>5. ASSUME NEW c \in Calls, Gives(c) PROVE [Grants!Next]_Grants!vars
  <2>1. UNCHANGED <<spent, session, Running>>
    BY <1>5, <1>same DEF Gives
  <2>2. grants' \in {grants, Append(grants, c)}
    BY <1>5, GiveGrant DEF Gives
  <2> QED BY <2>1, <2>2 DEF Grants!Grant
<1>6. CASE Restart
  <2>1. session' = {} /\ UNCHANGED <<grants, spent>>
    BY <1>6 DEF Restart, Reload
  <2>2. Running' = [a \in Actors |-> NoCall]
    BY <1>6 DEF Restart, Running
  <2> QED BY <2>1, <2>2 DEF Grants!NewSession
<1> QED BY <1>1, <1>2, <1>3, <1>4, <1>5, <1>6, StepKinds

\* The ledger, the gates, the threads and the restarts implement the promise,
\* for every instance in which saving the ledger succeeds.
THEOREM Refinement == ASSUME ~SaveMayFail PROVE Safety => ImplementsGrants
<1>1. Init => Grants!Init
  BY DEF Init, InitLedger, Grants!Init, Running
<1>2. Inv /\ Inv' /\ [Next]_vars => [Grants!Next]_Grants!vars
  BY RefinedStep
<1> QED BY <1>1, <1>2, Invariance, PTL DEF Safety, ImplementsGrants, Grants!Spec
=============================================================================
