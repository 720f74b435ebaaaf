---------------------------- MODULE ApprovalFlow ----------------------------
(***************************************************************************)
(* How a tool call that needs the operator's approval gets it.  Turn       *)
(* workers (threads of app/runtime.rs running the tool loop of             *)
(* provider.rs) authorise each call in two gates, queue a request in the   *)
(* shared ledger and poll it; the UI thread polls the worker's event       *)
(* stream, registers control requests, applies the operator's answers,     *)
(* cancels turns and, when no turn is in flight, executes an approved call *)
(* itself.  A process that serves the bridge applies answers with the same *)
(* functions and runs its turns on that one thread, without waiting.  The  *)
(* process may end at any step and the next one reloads the ledger's file. *)
(*                                                                         *)
(* The permission policy is the one every interactive start builds without *)
(* the dangerous bypass: require_human_approval, and risky tools not       *)
(* allowed.                                                                *)
(***************************************************************************)
EXTENDS ApprovalLedger

CONSTANTS
  Workers,         \* slots for turn worker threads, attached or detached
  UI,              \* the UI thread
  Risky,           \* calls of tools registered as risky
  Sensitive,       \* commands with a destructive, external or network form
  PolicyDenied,    \* calls the runtime policy refuses after the guardrails
  DefaultAllowed,  \* programs on the default command allow-list
  Edits,           \* pairs <<c, d>>: d is c with other arguments
  Bridged,         \* whether the process serves the bridge, not a terminal
  MaxRestarts,     \* bound on the restarts of the process
  NoCall, NoWorker

Actors == Workers \union {UI}

ASSUME WorkersAssumption == UI \notin Workers /\ NoWorker \notin Actors
ASSUME CallsAssumption ==
  /\ NoCall \notin Calls /\ Bridged \in BOOLEAN
  /\ Edits \subseteq Calls \X Calls /\ \A e \in Edits : e[1] # e[2]
  /\ MaxRestarts \in Nat
\* run_command and run_privileged_command are registered as risky.
ASSUME CommandsAreRisky ==
  \A c \in Calls : (IsCommand(c) => c \in Risky) /\ (c \in Sensitive => IsCommand(c))

VARIABLES
  pc,         \* where each actor is
  call,       \* the call an actor authorises, waits for or runs
  retried,    \* whether a worker's call is the execution after its wait
  held,       \* one-time grants an actor consumed for its call
  allowed,    \* each executor's own copy of the command allow-list
  cancelled,  \* each worker's cancel token
  events,     \* ApprovalRequired events in a worker's stream channel
  current,    \* the worker the UI holds in pending_send
  ctrl,       \* status of the control request of each call
  spent,      \* history: the grants used by a run
  restarts    \* history: the restarts so far

actorVars == <<pc, call, retried, held, allowed>>
turnVars  == <<cancelled, events, current>>
vars      == <<ledgerVars, actorVars, turnVars, ctrl, spent, restarts>>

Places == {"off", "idle", "commandGate", "commandAsk", "riskGate", "riskAsk",
           "announce", "waiting", "running", "done"}

CtrlStates == {"none", "pending", "resolved", "cancelled"}
Terminal   == {"resolved", "cancelled"}

Goto(a, place) == pc' = [pc EXCEPT ![a] = place]

\* Faulty variant: the finished call is left behind.
ReturnKeepingCall(a, place) ==
  /\ Goto(a, place)
  /\ retried' = [retried EXCEPT ![a] = FALSE]
  /\ held'    = [held EXCEPT ![a] = {}]
  /\ UNCHANGED call

\* The closure that executes the call returns: its locals are gone.
Return(a, place) ==
  /\ Goto(a, place)
  /\ call'    = [call EXCEPT ![a] = NoCall]
  /\ retried' = [retried EXCEPT ![a] = FALSE]
  /\ held'    = [held EXCEPT ![a] = {}]

\* A message sent to a worker's channel when the UI still holds the receiver.
Attached(w) == current = w

\* The UI thread serves one thing at a time.
UIFree == pc[UI] = "idle"

-----------------------------------------------------------------------------
Init ==
  /\ InitLedger
  /\ pc        = [a \in Actors |-> IF a = UI THEN "idle" ELSE "off"]
  /\ call      = [a \in Actors |-> NoCall]
  /\ retried   = [a \in Actors |-> FALSE]
  /\ held      = [a \in Actors |-> {}]
  /\ allowed   = [a \in Actors |-> DefaultAllowed]
  /\ cancelled = [w \in Workers |-> FALSE]
  /\ events    = [w \in Workers |-> {}]
  /\ current   = NoWorker
  /\ ctrl      = [c \in Calls |-> "none"]
  /\ spent     = {}
  /\ restarts  = 0

-----------------------------------------------------------------------------
(* The turn of a worker.                                                   *)

\* The UI clones its executor, policy copy included, into a new thread.
StartTurn(w) ==
  /\ ~Bridged /\ UIFree /\ current = NoWorker /\ pc[w] = "off"
  /\ Goto(w, "idle")
  /\ allowed' = [allowed EXCEPT ![w] = allowed[UI]]
  /\ current' = w
  /\ UNCHANGED <<ledgerVars, call, retried, held, cancelled, events, ctrl, spent,
                 restarts>>

\* The model asks for a call; nothing checks the cancel token here.
BeginCall(w, c) ==
  /\ pc[w] = "idle"
  /\ Goto(w, "commandGate")
  /\ call' = [call EXCEPT ![w] = c]
  /\ UNCHANGED <<ledgerVars, retried, held, allowed, turnVars, ctrl, spent, restarts>>

\* The provider answers without another call, or fails.
EndTurn(w) ==
  /\ pc[w] = "idle"
  /\ Goto(w, "done")
  /\ UNCHANGED <<ledgerVars, call, retried, held, allowed, turnVars, ctrl, spent,
                 restarts>>

-----------------------------------------------------------------------------
(* authorize_tool and the execution of the call.                           *)

Unlisted(a) == IsCommand(call[a]) /\ Executable[call[a]] \notin allowed[a]

\* The allow-list gate, then (only when it did not grant) the subcommand and
\* network gates: one consume attempt at most among the three.
CommandGated(a) == Unlisted(a) \/ call[a] \in Sensitive

\* The call is refused with an approval id.  A first attempt of a worker goes
\* on to wait for it, an attempt after the wait ends the turn, and the UI
\* reports the failure.
Blocked(a) ==
  \/ a = UI /\ Return(a, "idle")
  \/ a # UI /\ retried[a] /\ Return(a, "done")
  \/ /\ a # UI /\ ~retried[a]
     /\ Goto(a, "announce")
     /\ held' = [held EXCEPT ![a] = {}]
     /\ UNCHANGED <<call, retried>>

CommandGate(a) ==
  /\ pc[a] = "commandGate"
  /\ \/ /\ ~CommandGated(a)
        /\ Goto(a, "riskGate")
        /\ UNCHANGED <<ledgerVars, held>>
     \/ /\ CommandGated(a)
        /\ Consume(call[a])
        /\ held' = [held EXCEPT ![a] = @ \union TakenBy(call[a])]
        /\ Goto(a, "riskGate")
     \/ /\ CommandGated(a)
        /\ FindNothing(call[a])
        /\ Goto(a, "commandAsk")
        /\ UNCHANGED held
  /\ UNCHANGED <<call, retried, allowed, turnVars, ctrl, spent, restarts>>

\* A gate that found no approval queues a request.  It takes the ledger's lock
\* anew: an answer may come in between.
Label(a) == IF pc[a] = "commandAsk" /\ Unlisted(a) THEN "command-allow" ELSE "other"

Ask(a) ==
  /\ pc[a] \in {"commandAsk", "riskAsk"}
  /\ Enqueue(call[a], Label(a))
  /\ Blocked(a)
  /\ UNCHANGED <<allowed, turnVars, ctrl, spent, restarts>>

\* The gates are passed: the runtime policy has the last word, then the
\* handler starts.  A refusal is an ordinary failed observation.
Proceed(a, grantsInHand) ==
  \/ call[a] \in PolicyDenied /\ Return(a, "idle") /\ UNCHANGED spent
  \/ /\ call[a] \notin PolicyDenied
     /\ Goto(a, "running")
     /\ held'  = [held EXCEPT ![a] = grantsInHand]
     /\ spent' = spent \union grantsInHand
     /\ UNCHANGED <<call, retried>>

\* Faulty variant: a program on the allow-list needs no approval.
RiskGateTrustingList(a) ==
  LET trusted == IsCommand(call[a]) /\ ~Unlisted(a) IN
  /\ pc[a] = "riskGate"
  /\ \/ /\ trusted \/ call[a] \notin Risky
        /\ Proceed(a, held[a])
        /\ UNCHANGED ledgerVars
     \/ /\ ~trusted /\ call[a] \in Risky
        /\ Consume(call[a])
        /\ Proceed(a, held[a] \union TakenBy(call[a]))
     \/ /\ ~trusted /\ call[a] \in Risky
        /\ FindNothing(call[a])
        /\ Goto(a, "riskAsk")
        /\ UNCHANGED <<call, retried, held, spent>>
  /\ UNCHANGED <<allowed, turnVars, ctrl, restarts>>

\* require_human_approval: a second consume_approval for the same id, made
\* whether or not the command gate already consumed one.
RiskGate(a) ==
  /\ pc[a] = "riskGate"
  /\ \/ /\ call[a] \notin Risky
        /\ Proceed(a, held[a])
        /\ UNCHANGED ledgerVars
     \/ /\ call[a] \in Risky
        /\ Consume(call[a])
        /\ Proceed(a, held[a] \union TakenBy(call[a]))
     \/ /\ call[a] \in Risky
        /\ FindNothing(call[a])
        /\ Goto(a, "riskAsk")
        /\ UNCHANGED <<call, retried, held, spent>>
  /\ UNCHANGED <<allowed, turnVars, ctrl, restarts>>

FinishRun(a) ==
  /\ pc[a] = "running"
  /\ Return(a, "idle")
  /\ UNCHANGED <<ledgerVars, allowed, turnVars, ctrl, spent, restarts>>

-----------------------------------------------------------------------------
(* The worker's wait.                                                      *)

\* approval_control_request_from_pending reads the ledger again: a request
\* already answered is not announced, and a detached worker's send is lost.
Announce(w) ==
  /\ pc[w] = "announce"
  /\ Goto(w, "waiting")
  /\ events' = IF Attached(w) /\ IsPending(call[w])
                 THEN [events EXCEPT ![w] = @ \union {call[w]}]
                 ELSE events
  /\ UNCHANGED <<ledgerVars, call, retried, held, allowed, cancelled, current, ctrl,
                 spent, restarts>>

\* Faulty variant: the cancel token is not looked at.
WaitUncancelled(w) ==
  /\ pc[w] = "waiting"
  /\ \/ /\ Resolution(call[w]) \in {"Denied", "Missing"}
        /\ Return(w, "done")
     \/ /\ Resolution(call[w]) = "Approved"
        /\ Goto(w, "commandGate")
        /\ retried' = [retried EXCEPT ![w] = TRUE]
        /\ UNCHANGED <<call, held>>
  /\ UNCHANGED <<ledgerVars, allowed, turnVars, ctrl, spent, restarts>>

\* One round of wait_for_tool_approval; the cancel token is tested first.
Wait(w) ==
  /\ pc[w] = "waiting"
  /\ \/ /\ cancelled[w] \/ Resolution(call[w]) \in {"Denied", "Missing"}
        /\ Return(w, "done")
     \/ /\ ~cancelled[w] /\ Resolution(call[w]) = "Approved"
        /\ Goto(w, "commandGate")
        /\ retried' = [retried EXCEPT ![w] = TRUE]
        /\ UNCHANGED <<call, held>>
  /\ UNCHANGED <<ledgerVars, allowed, turnVars, ctrl, spent, restarts>>

\* A detached worker's thread returns and nobody joins it.
Reap(w) ==
  /\ pc[w] = "done" /\ ~Attached(w)
  /\ Goto(w, "off")
  /\ cancelled' = [cancelled EXCEPT ![w] = FALSE]
  /\ UNCHANGED <<ledgerVars, call, retried, held, allowed, events, current, ctrl,
                 spent, restarts>>

-----------------------------------------------------------------------------
(* The UI thread: polling.                                                 *)

\* register_approval_control_request ignores the error of a duplicate insert.
Registered(S) == [c \in Calls |-> IF c \in S /\ ctrl[c] = "none" THEN "pending" ELSE ctrl[c]]

\* A poll takes at most 256 events, of any kind, off the stream.
PollStream(w) ==
  /\ UIFree /\ Attached(w)
  /\ \E taken \in SUBSET events[w] \ {{}} :
       /\ ctrl'   = Registered(taken)
       /\ events' = [events EXCEPT ![w] = @ \ taken]
  /\ UNCHANGED <<ledgerVars, actorVars, cancelled, current, spent, restarts>>

\* poll_pending_send polls the stream once more, then drops it with what is left.
Join(w) ==
  /\ UIFree /\ Attached(w) /\ pc[w] = "done"
  /\ \E taken \in SUBSET events[w] : ctrl' = Registered(taken)
  /\ events'  = [events EXCEPT ![w] = {}]
  /\ current' = NoWorker
  /\ Goto(w, "off")
  /\ UNCHANGED <<ledgerVars, call, retried, held, allowed, cancelled, spent, restarts>>

\* cancel_pending_response, and turn_repair on an idle turn: the token is set,
\* the thread detached, its channel dropped; the ledger keeps the request.
CancelTurn(w) ==
  /\ UIFree /\ Attached(w)
  /\ cancelled' = [cancelled EXCEPT ![w] = TRUE]
  /\ events'    = [events EXCEPT ![w] = {}]
  /\ current'   = NoWorker
  /\ UNCHANGED <<ledgerVars, actorVars, ctrl, spent, restarts>>

-----------------------------------------------------------------------------
(* The UI thread: answers.                                                 *)

\* resolve() accepts an answer to an unknown or a pending control request; an
\* answer to a terminal one is ignored and changes nothing.
Answerable(c) == ctrl[c] \notin Terminal

ResolveCtrl(c) ==
  ctrl' = [ctrl EXCEPT ![c] = IF @ = "pending" THEN "resolved" ELSE @]

\* After an approval the terminal UI executes the call itself unless a turn is
\* in flight; the bridge's approveOnce and approveSession leave it to a later turn.
ThenExecute(c) ==
  \/ (Bridged \/ current # NoWorker) /\ UNCHANGED <<pc, call>>
  \/ /\ current = NoWorker
     /\ Goto(UI, "commandGate")
     /\ call' = [call EXCEPT ![UI] = c]

AllowOnce(c) ==
  /\ UIFree /\ Answerable(c)
  /\ ResolveCtrl(c)
  /\ ApproveOnce(c)
  /\ ThenExecute(c)
  /\ UNCHANGED <<retried, held, allowed, turnVars, spent, restarts>>

\* Approving a request the allow-list gate queued lists its program as well, in
\* the UI's policy copy only: workers in flight keep theirs.
ListProgram(c, label) ==
  allowed' = IF label = "command-allow" /\ IsCommand(c)
               THEN [allowed EXCEPT ![UI] = @ \union {Executable[c]}]
               ELSE allowed

AllowForSession(c) ==
  /\ UIFree /\ Answerable(c)
  /\ ResolveCtrl(c)
  /\ ApproveForSession(c)
  /\ ListProgram(c, pending[c])
  /\ ThenExecute(c)
  /\ UNCHANGED <<retried, held, turnVars, spent, restarts>>

DenyCall(c) ==
  /\ UIFree /\ Answerable(c)
  /\ ResolveCtrl(c)
  /\ Deny(c)
  /\ UNCHANGED <<actorVars, turnVars, spent, restarts>>

\* The bridge's answer "cancel", or an answer to a request no longer in the
\* ledger: the control request is resolved, the ledger is left as it was, and
\* the second one saves it.
AnswerWithoutEffect(c) ==
  /\ UIFree /\ Answerable(c)
  /\ ResolveCtrl(c)
  /\ UNCHANGED <<pending, rejected, once, session, grants>>
  /\ (Bridged /\ UNCHANGED disk) \/ (~IsPending(c) /\ Save)
  /\ UNCHANGED <<actorVars, turnVars, spent, restarts>>

\* The UI thread authorises a call on its own account: a command for /tasks run,
\* spawned at once, or any call of a turn of the bridge, which has no worker.
UICall(c) ==
  /\ UIFree
  /\ IsCommand(c) \/ Bridged
  /\ Goto(UI, "commandGate")
  /\ call' = [call EXCEPT ![UI] = c]
  /\ UNCHANGED <<ledgerVars, retried, held, allowed, turnVars, ctrl, spent, restarts>>

\* /approvals edit and approvals.edit: the request of c becomes one for d.
EditCall(c, d) ==
  /\ UIFree /\ <<c, d>> \in Edits
  /\ Edit(c, d)
  /\ ctrl' = [ctrl EXCEPT ![c] = IF @ = "pending" THEN "cancelled" ELSE @]
  /\ UNCHANGED <<actorVars, turnVars, spent, restarts>>

\* allow_once with edited_args (control.respond of the bridge): edit, then
\* approve the edited request.
AllowOnceEdited(c, d) ==
  /\ Bridged /\ UIFree /\ Answerable(c) /\ <<c, d>> \in Edits
  /\ ResolveCtrl(c)
  /\ IsPending(c)
  /\ pending' = Edited(c, d)
  /\ AddGrant(d)
  /\ UNCHANGED <<rejected, session>>
  /\ Save
  /\ ThenExecute(d)
  /\ UNCHANGED <<retried, held, allowed, turnVars, spent, restarts>>

\* allow_for_session with edited_args.
AllowForSessionEdited(c, d) ==
  /\ Bridged /\ UIFree /\ Answerable(c) /\ <<c, d>> \in Edits
  /\ ResolveCtrl(c)
  /\ IsPending(c)
  /\ pending' = [[pending EXCEPT ![c] = NoRequest] EXCEPT ![d] = NoRequest]
  /\ session' = session \union {d}
  /\ UNCHANGED <<rejected, once, grants>>
  /\ Save
  /\ ListProgram(d, pending[c])
  /\ ThenExecute(d)
  /\ UNCHANGED <<retried, held, turnVars, spent, restarts>>

-----------------------------------------------------------------------------
(* The process ends and another one starts on the same data root.          *)
Restart ==
  /\ restarts < MaxRestarts
  /\ restarts'  = restarts + 1
  /\ Reload
  /\ pc'        = [a \in Actors |-> IF a = UI THEN "idle" ELSE "off"]
  /\ call'      = [a \in Actors |-> NoCall]
  /\ retried'   = [a \in Actors |-> FALSE]
  /\ held'      = [a \in Actors |-> {}]
  /\ allowed'   = [a \in Actors |-> DefaultAllowed]
  /\ cancelled' = [w \in Workers |-> FALSE]
  /\ events'    = [w \in Workers |-> {}]
  /\ current'   = NoWorker
  /\ ctrl'      = [c \in Calls |-> "none"]
  /\ UNCHANGED spent

-----------------------------------------------------------------------------
Execute(a)    == CommandGate(a) \/ RiskGate(a) \/ Ask(a) \/ FinishRun(a)
WorkerStep(w) == Announce(w) \/ Wait(w) \/ Reap(w)
UIPoll(w)     == PollStream(w) \/ Join(w)

Answer(c) ==
  \/ AllowOnce(c) \/ AllowForSession(c) \/ DenyCall(c) \/ AnswerWithoutEffect(c)
  \/ \E d \in Calls : EditCall(c, d) \/ AllowOnceEdited(c, d) \/ AllowForSessionEdited(c, d)

Next ==
  \/ \E w \in Workers : \/ StartTurn(w) \/ EndTurn(w) \/ CancelTurn(w)
                        \/ WorkerStep(w) \/ UIPoll(w)
                        \/ \E c \in Calls : BeginCall(w, c)
  \/ \E a \in Actors : Execute(a)
  \/ \E c \in Calls : Answer(c) \/ UICall(c)
  \/ Restart

Safety == Init /\ [][Next]_vars

\* Threads that can step do, tool handlers return (commands run under a
\* timeout), and the UI loop polls at least every 50 ms.  Nothing is assumed
\* of the model, of the operator or of cancellation.
Fairness ==
  /\ \A a \in Actors : WF_vars(Execute(a))
  /\ \A w \in Workers : WF_vars(WorkerStep(w)) /\ WF_vars(UIPoll(w))

Spec == Safety /\ Fairness

-----------------------------------------------------------------------------
(* Invariants.                                                             *)

TypeOK ==
  /\ LedgerTypeOK
  /\ pc        \in [Actors -> Places]
  /\ call      \in [Actors -> Calls \union {NoCall}]
  /\ retried   \in [Actors -> BOOLEAN]
  /\ held      \in [Actors -> SUBSET Nat]
  /\ allowed   \in [Actors -> SUBSET (DefaultAllowed \union {Executable[c] : c \in DOMAIN Executable})]
  /\ cancelled \in [Workers -> BOOLEAN]
  /\ events    \in [Workers -> SUBSET Calls]
  /\ current   \in Workers \union {NoWorker}
  /\ ctrl      \in [Calls -> CtrlStates]
  /\ spent     \in SUBSET Nat
  /\ restarts  \in Nat
  /\ \A a \in Actors : call[a] = NoCall <=> pc[a] \in {"off", "idle", "done"}

\* A risky call is running only on grants the operator gave for that very call
\* (its arguments included), at least one of them, or on an approval of the
\* present session: authorize_tool, resolution and the reload agree on this
\* whatever the interleaving of workers, answers, edits and restarts.
RunsAreGranted ==
  \A a \in Actors :
    pc[a] = "running" /\ call[a] \in Risky =>
      \/ call[a] \in session
      \/ held[a] # {} /\ \A n \in held[a] : n \in DOMAIN grants /\ grants[n] = call[a]

\* Where the one-time grants are: a grant was given for the call it is stored
\* or held for, two executors never hold the same grant, and a grant that is
\* still stored, in memory or in the file, is held by nobody and was used by
\* no run.  The last part is what keeps a restart from giving back a grant
\* that was consumed; it needs the saves to succeed, as a failed save is only
\* reported.
StoredFor(c, n) == n = NoGrant \/ (n \in DOMAIN grants /\ grants[n] = c)

HeldGrantsMatch ==
  \A a \in Actors : \A n \in held[a] : n # NoGrant /\ StoredFor(call[a], n)

StoredGrantsMatch ==
  \A c \in Calls : StoredFor(c, once[c]) /\ StoredFor(c, disk.once[c])

HeldOnce == \A a, b \in Actors : a # b => held[a] \cap held[b] = {}

StoredUnused ==
  \A c \in Calls :
    once[c] # NoGrant => once[c] \notin spent /\ \A a \in Actors : once[c] \notin held[a]

HeldUnused == \A a \in Actors : held[a] \cap spent # {} => pc[a] = "running"

DiskIsCurrent == disk.once = once

SpentGiven == spent \subseteq DOMAIN grants

GrantInv ==
  /\ HeldGrantsMatch /\ StoredGrantsMatch /\ SpentGiven
  /\ SaveMayFail \/ (HeldOnce /\ StoredUnused /\ HeldUnused /\ DiskIsCurrent)

-----------------------------------------------------------------------------
(* Action properties.                                                      *)

\* "Use approve-once for one execution": no run starts on a grant an earlier
\* run used, be it of another worker, of the UI or of an earlier process.
StartsRun(a) == pc[a] # "running" /\ pc'[a] = "running"

OneRunPerGrant ==
  [][~SaveMayFail => \A a \in Actors : StartsRun(a) => held'[a] \cap spent = {}]_vars

-----------------------------------------------------------------------------
(* Liveness.                                                               *)

\* A worker that waits for an approval when its turn is cancelled ends its turn,
\* whatever the operator then does with the request: a late approval does not
\* send it back to the model.
CancelEndsWait ==
  \A w \in Workers :
    pc[w] = "waiting" /\ cancelled[w] ~> pc[w] \in {"done", "off"}

\* A denial and a session approval reach every worker that waits for the call.
DecisionEndsWait ==
  \A w \in Workers :
    pc[w] = "waiting" /\ call[w] \in rejected \union session ~> pc[w] # "waiting"

-----------------------------------------------------------------------------
(* The abstract specification this one implements when saves succeed.      *)

Running == [a \in Actors |-> IF pc[a] = "running" THEN call[a] ELSE NoCall]

Grants == INSTANCE ApprovalGrants WITH Guarded <- Risky, running <- Running

\* Every behaviour of the ledger, the gates and the threads is one the promise
\* allows.
ImplementsGrants == Grants!Spec
=============================================================================
