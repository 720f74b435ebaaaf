------------------------------ MODULE McpPool ------------------------------
(***************************************************************************)
(* The pool of stdio MCP sessions (vegvisir/src/mcp.rs): tool calls of the *)
(* turn workers, detached workers and the terminal share one map from      *)
(* servers to sessions and one lock, which a call holds from looking up    *)
(* its session to its answer or failure.  A call that failed drops the     *)
(* session and is tried once more.                                         *)
(*                                                                         *)
(* A process is named by the call and the attempt that started it.  Its    *)
(* pipe holds messages; one that cannot be parsed, or whose body is not    *)
(* there in time, is "junk", one that breaks off inside a line is "torn".  *)
(* What a server does with a request is external: it may be slow, die,     *)
(* stop reading or say more than asked.                                    *)
(***************************************************************************)
EXTENDS Naturals, Sequences

CONSTANTS
  Calls,    \* the tools/call requests made
  Servers,
  ServerOf, \* the server of each call
  Big,      \* the calls whose request does not fit into a pipe nobody empties
  NoCall,
  NoProc,
  MaxSaid   \* bound on the messages servers send unasked

Procs == Calls \X (1..2)

ASSUME ServersAssumption == ServerOf \in [Calls -> Servers] /\ Big \subseteq Calls
ASSUME NoneAssumption    == NoCall \notin Calls /\ NoProc \notin Procs
ASSUME SaidAssumption    == MaxSaid \in Nat

Host(p) == ServerOf[p[1]]

\* Requests have the id 2 whatever the call, initialize has 1.
Told     == [kind : {"hello", "refusal", "note", "junk", "torn"}, of : {NoCall}]
Answers  == [kind : {"answer"}, of : Calls]
Messages == Told \union Answers

VARIABLES
  holder,  \* the call that holds the lock of the pool
  at,      \* where each call is in request_pooled_stdio
  attempt, \* which of its two attempts that is
  on,      \* the process it uses or used last
  got,     \* the call whose answer it returned
  session, \* the pool: the process of each server's session
  proc,    \* the state of each process
  asked,   \* the requests in each process's stdin
  done,    \* those it carried out and has not answered
  outbox,  \* the messages in its stdout
  deaf,    \* the processes that no longer read
  said,    \* how many messages were sent unasked
  runs,    \* history: how often each call was carried out
  soiled   \* history: the processes on which a call gave up waiting for its answer

callVars   == <<at, attempt, on, got>>
poolVars   == <<holder, session>>
serverVars == <<asked, done, runs, deaf>>
vars       == <<callVars, poolVars, proc, serverVars, outbox, said, soiled>>

Holding == {"starting", "ready", "reading"}
Ended   == {"answered", "error"}

Init ==
  /\ holder = NoCall
  /\ at = [c \in Calls |-> "idle"]
  /\ attempt = [c \in Calls |-> 0]
  /\ on = [c \in Calls |-> NoProc]
  /\ got = [c \in Calls |-> NoCall]
  /\ session = [s \in Servers |-> NoProc]
  /\ proc = [p \in Procs |-> "none"]
  /\ asked = [p \in Procs |-> {}]
  /\ done = [p \in Procs |-> {}]
  /\ outbox = [p \in Procs |-> <<>>]
  /\ deaf = {}
  /\ said = 0
  /\ runs = [c \in Calls |-> 0]
  /\ soiled = {}
----------------------------------------------------------------------------
(* The caller. *)

\* A variant with a fault: the child is left running.
KillFaulty(killed) == UNCHANGED <<proc, asked, done, outbox, deaf>>

\* Nothing of the killed is read or carried out any more.
Kill(killed) ==
  /\ proc' = [p \in Procs |-> IF p \in killed THEN "dead" ELSE proc[p]]
  /\ asked' = [p \in Procs |-> IF p \in killed THEN {} ELSE asked[p]]
  /\ done' = [p \in Procs |-> IF p \in killed THEN {} ELSE done[p]]
  /\ outbox' = [p \in Procs |-> IF p \in killed THEN <<>> ELSE outbox[p]]
  /\ deaf' = deaf \ killed

\* A variant with a fault: the second attempt is not the last.
FailFaulty(c) ==
  /\ holder' = NoCall
  /\ at' = [at EXCEPT ![c] = "failed"]
  /\ UNCHANGED <<attempt, on, got, session, runs, said>>

\* The attempt fails and its lock is released; a failure of the second is returned.
Fail(c) ==
  /\ holder' = NoCall
  /\ at' = [at EXCEPT ![c] = IF attempt[c] = 1 THEN "failed" ELSE "error"]
  /\ UNCHANGED <<attempt, on, got, session, runs, said>>

Begin(c) ==
  /\ at[c] = "idle"
  /\ at' = [at EXCEPT ![c] = "queued"]
  /\ attempt' = [attempt EXCEPT ![c] = 1]
  /\ UNCHANGED <<on, got, poolVars, proc, serverVars, outbox, said, soiled>>

MayLock(c) == at[c] = "queued" /\ holder = NoCall

FindSession(c) ==
  /\ MayLock(c) /\ session[ServerOf[c]] # NoProc
  /\ holder' = c
  /\ at' = [at EXCEPT ![c] = "ready"]
  /\ on' = [on EXCEPT ![c] = session[ServerOf[c]]]
  /\ UNCHANGED <<attempt, got, session, proc, serverVars, outbox, said, soiled>>

\* The initialize request of a new process is small: it is written in any case.
Spawn(c) ==
  LET p == <<c, attempt[c]>> IN
    /\ MayLock(c) /\ session[ServerOf[c]] = NoProc
    /\ holder' = c
    /\ at' = [at EXCEPT ![c] = "starting"]
    /\ on' = [on EXCEPT ![c] = p]
    /\ proc' = [proc EXCEPT ![p] = "fresh"]
    /\ UNCHANGED <<attempt, got, session, serverVars, outbox, said, soiled>>

SpawnFails(c) ==
  /\ MayLock(c) /\ session[ServerOf[c]] = NoProc
  /\ Fail(c)
  /\ UNCHANGED <<proc, asked, done, outbox, deaf, soiled>>

\* A variant with a fault: the id of a response is not looked at.
WantedFaulty(c) ==
  IF at[c] = "starting" THEN {"hello", "refusal"} ELSE {"answer", "note"}

Wanted(c) == IF at[c] = "starting" THEN {"hello", "refusal"} ELSE {"answer"}

Awaits(c) == at[c] \in {"starting", "reading"}

\* The call waits and the next message of its process is of one of these kinds.
Hears(c, kinds) ==
  /\ Awaits(c) /\ outbox[on[c]] # <<>>
  /\ Head(outbox[on[c]]).kind \in kinds

Take(c) == outbox' = [outbox EXCEPT ![on[c]] = Tail(@)]

\* The session is kept once the notification that follows could be written.
Initialized(c) ==
  /\ Hears(c, Wanted(c) \intersect {"hello"}) /\ proc[on[c]] # "dead"
  /\ Take(c)
  /\ session' = [session EXCEPT ![ServerOf[c]] = on[c]]
  /\ at' = [at EXCEPT ![c] = "ready"]
  /\ UNCHANGED <<attempt, on, got, holder, proc, serverVars, said, soiled>>

Refused(c) ==
  /\ Hears(c, Wanted(c) \intersect {"hello", "refusal"})
  /\ Head(outbox[on[c]]).kind = "refusal" \/ proc[on[c]] = "dead"
  /\ Fail(c)
  /\ Kill({on[c]})
  /\ UNCHANGED soiled

\* Another id, or none: the message is dropped and the time starts again.
Skip(c) ==
  /\ Hears(c, {"hello", "refusal", "note", "answer"} \ Wanted(c))
  /\ Take(c)
  /\ UNCHANGED <<callVars, poolVars, proc, serverVars, said, soiled>>

\* A variant with a fault: a read ends only when the process does.
NothingComesFaulty(c) == Awaits(c) /\ outbox[on[c]] = <<>> /\ proc[on[c]] = "dead"

\* In time nothing came, or the process has closed its stdout.
NothingComes(c) == Awaits(c) /\ outbox[on[c]] = <<>>

\* A line has no timeout: its rest is waited for as long as the process lives, and
\* what comes next is taken for the rest, which leaves that torn in its turn.
Stuck(c) == Hears(c, {"torn"}) /\ Len(outbox[on[c]]) = 1 /\ proc[on[c]] # "dead"

Unreadable(c) == Hears(c, {"junk", "torn"}) /\ ~Stuck(c)

TakeUnreadable(c) ==
  LET q == outbox[on[c]]
      rest == IF Head(q).kind = "torn" /\ Len(q) > 1 THEN [Tail(q) EXCEPT ![1] = Head(q)] ELSE Tail(q)
  IN outbox' = [outbox EXCEPT ![on[c]] = rest]

\* A session that did not start is dropped.
StartFails(c) ==
  /\ at[c] = "starting"
  /\ NothingComes(c) \/ Unreadable(c)
  /\ Fail(c)
  /\ Kill({on[c]})
  /\ UNCHANGED soiled

\* One that had started stays in the pool, also after the second failure.
ReadFails(c) ==
  /\ at[c] = "reading"
  /\ \/ NothingComes(c) /\ UNCHANGED outbox
     \/ Unreadable(c) /\ TakeUnreadable(c)
  /\ Fail(c)
  /\ soiled' = soiled \union {on[c]}
  /\ UNCHANGED <<proc, asked, done, deaf>>

\* A write has no timeout: it ends when it fits, the server reads, or is gone.
Clogged(c) == at[c] = "ready" /\ on[c] \in deaf /\ c \in Big /\ proc[on[c]] # "dead"

Blocked(c) == Clogged(c) \/ Stuck(c)

Send(c) ==
  /\ at[c] = "ready" /\ ~Clogged(c) /\ proc[on[c]] # "dead"
  /\ at' = [at EXCEPT ![c] = "reading"]
  /\ asked' = [asked EXCEPT ![on[c]] = @ \union {c}]
  /\ UNCHANGED <<attempt, on, got, poolVars, proc, done, runs, deaf, outbox, said, soiled>>

SendFails(c) ==
  /\ at[c] = "ready" /\ proc[on[c]] = "dead"
  /\ Fail(c)
  /\ UNCHANGED <<proc, asked, done, outbox, deaf, soiled>>

Read(c) ==
  /\ at[c] = "reading" /\ Hears(c, Wanted(c))
  /\ got' = [got EXCEPT ![c] = Head(outbox[on[c]]).of]
  /\ Take(c)
  /\ at' = [at EXCEPT ![c] = "answered"]
  /\ holder' = NoCall
  /\ UNCHANGED <<attempt, on, session, proc, serverVars, said, soiled>>

\* Whatever session is in the pool by now is dropped, which kills its process.
Drop(c) ==
  LET s == ServerOf[c] IN
    /\ at[c] = "failed" /\ holder = NoCall
    /\ Kill({session[s]} \ {NoProc})
    /\ session' = [session EXCEPT ![s] = NoProc]
    /\ at' = [at EXCEPT ![c] = "queued"]
    /\ attempt' = [attempt EXCEPT ![c] = 2]
    /\ UNCHANGED <<on, got, holder, runs, said, soiled>>

Step(c) ==
  \/ FindSession(c) \/ Spawn(c) \/ SpawnFails(c)
  \/ Initialized(c) \/ Refused(c) \/ StartFails(c)
  \/ Send(c) \/ SendFails(c) \/ Skip(c)
  \/ Read(c) \/ ReadFails(c) \/ Drop(c)
----------------------------------------------------------------------------
(* The server. *)

Says(p, kind, c) == outbox' = [outbox EXCEPT ![p] = Append(@, [kind |-> kind, of |-> c])]

Greet(p) ==
  /\ proc[p] = "fresh"
  /\ proc' = [proc EXCEPT ![p] = "live"]
  /\ \E kind \in {"hello", "refusal"} : Says(p, kind, NoCall)
  /\ UNCHANGED <<callVars, poolVars, serverVars, said, soiled>>

CarryOut(p, c) ==
  /\ proc[p] = "live" /\ p \notin deaf /\ c \in asked[p]
  /\ asked' = [asked EXCEPT ![p] = @ \ {c}]
  /\ done' = [done EXCEPT ![p] = @ \union {c}]
  /\ runs' = [runs EXCEPT ![c] = @ + 1]
  /\ UNCHANGED <<callVars, poolVars, proc, deaf, outbox, said, soiled>>

Answer(p, c) ==
  /\ proc[p] = "live" /\ c \in done[p]
  /\ done' = [done EXCEPT ![p] = @ \ {c}]
  /\ Says(p, "answer", c)
  /\ UNCHANGED <<callVars, poolVars, proc, asked, runs, deaf, said, soiled>>

Chatter(p) ==
  /\ proc[p] \in {"fresh", "live"} /\ said < MaxSaid
  /\ said' = said + 1
  /\ \E kind \in {"note", "junk", "torn"} : Says(p, kind, NoCall)
  /\ UNCHANGED <<callVars, poolVars, proc, serverVars, soiled>>

StopReading(p) ==
  /\ proc[p] = "live" /\ p \notin deaf
  /\ deaf' = deaf \union {p}
  /\ UNCHANGED <<callVars, poolVars, proc, asked, done, runs, outbox, said, soiled>>

\* What it had written can still be read.
Die(p) ==
  /\ proc[p] \in {"fresh", "live"}
  /\ proc' = [proc EXCEPT ![p] = "dead"]
  /\ asked' = [asked EXCEPT ![p] = {}]
  /\ done' = [done EXCEPT ![p] = {}]
  /\ deaf' = deaf \ {p}
  /\ UNCHANGED <<callVars, poolVars, runs, outbox, said, soiled>>

Serve(p) ==
  \/ Greet(p) \/ Chatter(p) \/ StopReading(p) \/ Die(p)
  \/ \E c \in Calls : CarryOut(p, c) \/ Answer(p, c)
----------------------------------------------------------------------------
Next ==
  \/ \E c \in Calls : Begin(c) \/ Step(c)
  \/ \E p \in Procs : Serve(p)

\* Callers run, and a read of which nothing comes ends in time; servers owe nothing.
Fairness == \A c \in Calls : WF_vars(Step(c))

Spec == Init /\ [][Next]_vars /\ Fairness
----------------------------------------------------------------------------
TypeOK ==
  /\ holder \in Calls \union {NoCall}
  /\ at \in [Calls -> {"idle", "queued", "failed"} \union Holding \union Ended]
  /\ attempt \in [Calls -> 0..2]
  /\ on \in [Calls -> Procs \union {NoProc}]
  /\ got \in [Calls -> Calls \union {NoCall}]
  /\ session \in [Servers -> Procs \union {NoProc}]
  /\ proc \in [Procs -> {"none", "fresh", "live", "dead"}]
  /\ asked \in [Procs -> SUBSET Calls]
  /\ done \in [Procs -> SUBSET Calls]
  /\ outbox \in [Procs -> Seq(Messages)]
  /\ deaf \subseteq Procs
  /\ said \in Nat
  /\ runs \in [Calls -> 0..2]
  /\ soiled \subseteq Procs

\* No process is left behind: one that runs is that of its server's session, or is
\* being started by the call that holds the lock, whatever failed and whoever
\* restarted the session between the failure of a call and its second attempt
\* (request_pooled_stdio, mcp.rs:182-194).
LiveIsPooled ==
  \A p \in Procs : proc[p] \in {"fresh", "live"} =>
    \/ session[Host(p)] = p
    \/ holder = p[1] /\ at[p[1]] = "starting" /\ on[p[1]] = p

\* The request of the call, or the answer to it, is still on its way in the process.
Underway(p, c) ==
  \/ c \in asked[p] \union done[p]
  \/ \E i \in DOMAIN outbox[p] : outbox[p][i] = [kind |-> "answer", of |-> c]

\* A call answered on a session on which none was given up returned the answer to
\* itself although all requests have one id (mcp.rs:148); and a call that returned
\* its own answer was carried out, at most once per attempt, and will not be again.
AnswersAreTrue ==
  \A c \in Calls : at[c] = "answered" =>
    /\ on[c] \notin soiled => got[c] = c
    /\ got[c] = c => runs[c] \in 1..attempt[c] /\ \A p \in Procs : ~Underway(p, c)

\* Every call ends, in an answer or an error, if the holder of the lock is not for ever
\* in a write or in the middle of a line: each of its other waits is bounded.
CallsEnd ==
  ([]<>~\E c \in Calls : Blocked(c)) => \A c \in Calls : at[c] = "queued" ~> at[c] \in Ended

\* The guard of the pool keeps what one call broke from another
\* (docs/new-runtime-features.md:161): a call that returns an answer returns its own.
AnswersAreOwn == \A c \in Calls : at[c] = "answered" => got[c] = c
=============================================================================
