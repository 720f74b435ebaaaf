----------------------------- MODULE Vault_proofs -----------------------------
(***************************************************************************)
(* Theorems about Vault, for every set of clients, tickets, jobs, claims,  *)
(* sessions and policies and every number of writes.                       *)
(***************************************************************************)
EXTENDS Vault, SequenceTheorems, TLAPS

UseSteps == {"consume_policy", "consume_check", "consume_save", "consume_load"}
RenewSteps == {"renew_policy", "renew_check", "renew_issue", "renew_revoke"}
JobSteps == {"verify_save", "rollback_save", "promote_save", "promote_end"}

\* Tickets as they are made.
Fresh == {x \in Tickets : ~x.revoked /\ x.left = x.policy.uses}

\* What a client knows at each step of its operation.
Locals(o) ==
  /\ o.at = "put_save" => o.version \in Nat \ {0} /\ o.data \in Nat
  /\ o.at = "status_save" => o.version \in Nat \ {0} /\ o.record \in Records
  /\ o.at = "issue_policy" => o.request \in Requests /\ o.version \in Nat /\ o.data \in Nat
  /\ o.at \in {"issue_save", "renew_save", "renew_revoke"} => o.ticket \in Fresh
  /\ o.at \in UseSteps \cup RenewSteps \cup {"revoke_save"} =>
       o.id \in TicketIds /\ o.seen \in Tickets
  /\ o.at \in UseSteps => ~o.seen.revoked /\ o.seen.left > 0
  /\ o.at \in RenewSteps \ {"renew_revoke"} => o.request \in Requests
  /\ o.at = "lockdown" =>
       /\ o.list \in [TicketIds -> Tickets \cup {NoTicket}]
       /\ o.todo \subseteq {t \in TicketIds : o.list[t] # NoTicket}
  /\ o.at = "start_save" => o.job \in Jobs
  /\ o.at \in JobSteps => o.id \in JobIds /\ o.job \in Jobs

\* Tables and local variables have their types, and nobody writes past the next version.
VersionsUpTo(n) ==
  /\ \A c \in Clients :
       /\ op[c].at \in {"put_save", "status_save"} => op[c].version <= n
       /\ op[c].at \in JobSteps \cup {"start_save"} => op[c].job.version <= n
  /\ \A j \in JobIds : jobs[j] # NoJob => jobs[j].version <= n

Typed ==
  /\ TypeOK
  /\ op = [c \in Clients |-> op[c]]
  /\ \A c \in Clients : Locals(op[c])
  /\ VersionsUpTo(Latest + 1)

-------------------------------------------------------------------------------
(* Typing *)

LEMMA NewTicketType ==
  ASSUME NEW r \in Requests, NEW v \in Nat, NEW d \in Nat, NEW p \in Policies
  PROVE  NewTicket(r, v, d, p) \in Fresh
BY PolicyAssumption DEF NewTicket, Fresh, Tickets, Requests

LEMMA RevokedType ==
  ASSUME NEW x \in Tickets
  PROVE  Revoked(x) \in Tickets /\ Revoked(x).revoked
BY DEF Revoked, Tickets

LEMMA SavedRecord ==
  ASSUME versions \in Seq(Records), NEW v \in Nat \ {0}, v <= Latest + 1,
         NEW r \in Records, SaveRecord(v, r)
  PROVE  versions' \in Seq(Records) /\ Latest' >= Latest
<1>1. CASE v <= Latest
  <2>1. versions' = [versions EXCEPT ![v] = r] /\ v \in 1..Len(versions)
    BY <1>1, LenProperties DEF SaveRecord, Latest
  <2> QED
    BY <2>1, ExceptSeq, LenProperties DEF Latest
<1>2. CASE ~(v <= Latest)
  BY <1>2, AppendProperties, LenProperties DEF SaveRecord, Latest
<1> QED
  BY <1>1, <1>2

\* A step of client c that leaves the types of the tables alone and moves c to typed locals.
LEMMA TypedStep ==
  ASSUME Typed, TypeOK', NEW c \in Clients, NEW o, Goto(c, o), Locals(o),
         Latest' >= Latest,
         o.at \in {"put_save", "status_save"} => o.version <= Latest' + 1,
         o.at \in JobSteps \cup {"start_save"} => o.job.version <= Latest' + 1,
         \A j \in JobIds : jobs'[j] # NoJob => jobs'[j].version <= Latest' + 1
  PROVE  Typed'
<1>1. Latest \in Nat /\ Latest' \in Nat
  BY LenProperties DEF Typed, TypeOK, Latest
<1>2. op' = [d \in Clients |-> IF d = c THEN o ELSE op[d]]
  BY DEF Goto, Typed
<1>3. \A d \in Clients : Locals(op'[d])
  BY <1>2 DEF Typed
<1>4. \A d \in Clients :
        /\ op'[d].at \in {"put_save", "status_save"} => op'[d].version <= Latest' + 1
        /\ op'[d].at \in JobSteps \cup {"start_save"} => op'[d].job.version <= Latest' + 1
  <2> TAKE d \in Clients
  <2>1. CASE d = c
    BY <1>2, <2>1
  <2>2. CASE d # c
    <3>1. op'[d] = op[d] /\ Locals(op[d])
      BY <1>2, <2>2 DEF Typed
    <3>2. /\ op[d].at \in {"put_save", "status_save"} =>
               op[d].version \in Nat /\ op[d].version <= Latest + 1
          /\ op[d].at \in JobSteps \cup {"start_save"} =>
               op[d].job.version \in Nat /\ op[d].job.version <= Latest + 1
      BY <3>1 DEF Typed, VersionsUpTo, Locals, Jobs
    <3> QED
      BY <1>1, <3>1, <3>2
  <2> QED
    BY <2>1, <2>2
<1> QED
  BY <1>2, <1>3, <1>4 DEF Typed, VersionsUpTo

\* A client stops, or an operation returns.
LEMMA DoneStep ==
  ASSUME Typed, TypeOK', NEW c \in Clients, Done(c), Latest' >= Latest,
         \A j \in JobIds : jobs'[j] # NoJob => jobs'[j].version <= Latest' + 1
  PROVE  Typed'
<1>1. Locals(Idle) /\ Idle.at \notin {"put_save", "status_save"} \cup JobSteps \cup {"start_save"}
  BY DEF Locals, Idle, UseSteps, RenewSteps, JobSteps
<1> QED
  BY <1>1, TypedStep DEF Done

\* The tables keep their types when they do not change.
LEMMA TablesKept ==
  ASSUME Typed, UNCHANGED <<tables, expired, spent>>, writes' \in Nat
  PROVE  /\ TypeOK' /\ Latest' = Latest /\ Latest \in Nat
         /\ \A j \in JobIds : jobs'[j] # NoJob => jobs'[j].version <= Latest' + 1
<1>1. Latest \in Nat
  BY LenProperties DEF Typed, TypeOK, Latest
<1> QED
  BY <1>1 DEF Typed, TypeOK, tables, Latest, VersionsUpTo

\* Saving a ticket, and nothing else but the uses made.
LEMMA TicketSaved ==
  ASSUME Typed, NEW t \in TicketIds, NEW x \in Tickets, SaveTicket(t, x),
         UNCHANGED <<versions, policy, jobs, expired, writes>>,
         spent' \subseteq TicketIds \X Nat
  PROVE  /\ TypeOK' /\ Latest' = Latest /\ Latest \in Nat
         /\ \A j \in JobIds : jobs'[j] # NoJob => jobs'[j].version <= Latest' + 1
<1>1. Latest \in Nat
  BY LenProperties DEF Typed, TypeOK, Latest
<1> QED
  BY <1>1 DEF Typed, TypeOK, Latest, VersionsUpTo, SaveTicket

LEMMA RecordSaved ==
  ASSUME Typed, NEW v \in Nat \ {0}, v <= Latest + 1, NEW r \in Records, SaveRecord(v, r),
         UNCHANGED <<policy, tickets, jobs, expired, writes, spent>>
  PROVE  /\ TypeOK' /\ Latest' >= Latest
         /\ \A j \in JobIds : jobs'[j] # NoJob => jobs'[j].version <= Latest' + 1
<1>1. versions' \in Seq(Records) /\ Latest' >= Latest
  BY SavedRecord DEF Typed, TypeOK
<1>2. Latest \in Nat /\ Latest' \in Nat
  BY <1>1, LenProperties DEF Typed, TypeOK, Latest
<1>3. \A j \in JobIds : jobs[j] # NoJob => jobs[j].version \in Nat /\ jobs[j].version <= Latest + 1
  BY DEF Typed, TypeOK, VersionsUpTo, Jobs
<1> QED
  BY <1>1, <1>2, <1>3 DEF Typed, TypeOK

LEMMA JobSaved ==
  ASSUME Typed, NEW j \in JobIds, NEW x \in Jobs, x.version <= Latest + 1, SaveJob(j, x),
         UNCHANGED <<versions, policy, tickets, expired, writes, spent>>
  PROVE  /\ TypeOK' /\ Latest' = Latest
         /\ \A k \in JobIds : jobs'[k] # NoJob => jobs'[k].version <= Latest' + 1
<1>1. Latest \in Nat
  BY LenProperties DEF Typed, TypeOK, Latest
<1> QED
  BY <1>1 DEF Typed, TypeOK, Latest, VersionsUpTo, SaveJob

LEMMA LatestRow ==
  ASSUME Typed
  PROVE  /\ Latest \in Nat
         /\ Latest > 0 => versions[Latest] \in Records /\ versions[Latest].data \in Nat
<1>1. versions \in Seq(Records) /\ Latest = Len(versions) /\ Latest \in Nat
  BY LenProperties DEF Typed, TypeOK, Latest
<1>2. Latest > 0 => versions[Latest] \in Records
  BY <1>1, ElementOfSeq
<1> QED
  BY <1>1, <1>2 DEF Records

LEMMA InitTyped == Init => Typed
<1> SUFFICES ASSUME Init PROVE Typed
  OBVIOUS
<1>1. Locals(Idle)
  BY DEF Locals, Idle, UseSteps, RenewSteps, JobSteps
<1>2. TypeOK
  BY DEF Init, TypeOK
<1>3. VersionsUpTo(Latest + 1)
  BY DEF Init, VersionsUpTo, Idle, JobSteps
<1> QED
  BY <1>1, <1>2, <1>3 DEF Init, Typed

LEMMA SecretTyped ==
  ASSUME Typed, NEW c \in Clients, SecretStep(c)
  PROVE  Typed'
<1>row. /\ Latest \in Nat
        /\ Latest > 0 => versions[Latest] \in Records /\ versions[Latest].data \in Nat
  BY LatestRow
<1>local. Locals(op[c]) /\ writes \in Nat
  BY DEF Typed, TypeOK
<1>1. CASE PutRead(c)
  <2> DEFINE o == [at |-> "put_save", version |-> Latest + 1, data |-> writes']
  <2>1. /\ Goto(c, o) /\ Latest' >= Latest /\ TypeOK' /\ Latest' = Latest
        /\ \A j \in JobIds : jobs'[j] # NoJob => jobs'[j].version <= Latest' + 1
    BY <1>1, <1>local, <1>row, TablesKept DEF PutRead
  <2>2. Locals(o)
    BY <1>1, <1>local, <1>row DEF PutRead, Locals, UseSteps, RenewSteps, JobSteps
  <2>3. o.version <= Latest' + 1 /\ o.at \notin JobSteps \cup {"start_save"}
    BY <2>1, <1>row DEF JobSteps
  <2> QED
    BY <2>1, <2>2, <2>3, TypedStep
<1>2. CASE PutSave(c)
  <2>1. /\ op[c].version \in Nat \ {0} /\ op[c].version <= Latest + 1
        /\ [status |-> "active", data |-> op[c].data] \in Records
    BY <1>2, <1>local DEF PutSave, At, Locals, Typed, VersionsUpTo, Records
  <2> QED
    BY <1>2, <2>1, RecordSaved, DoneStep DEF PutSave
<1>3. CASE GetRead(c)
  <2> DEFINE o == [at |-> "show", by |-> <<NoTicket, Latest>>, data |-> versions[Latest].data]
  <2>1. /\ Latest' >= Latest /\ TypeOK'
        /\ \A j \in JobIds : jobs'[j] # NoJob => jobs'[j].version <= Latest' + 1
    BY <1>3, <1>local, <1>row, TablesKept DEF GetRead
  <2>2. Locals(o) /\ o.at \notin {"put_save", "status_save"} \cup JobSteps \cup {"start_save"}
    BY DEF Locals, UseSteps, RenewSteps, JobSteps
  <2>3. Goto(c, o) \/ Done(c)
    BY <1>3 DEF GetRead
  <2> QED
    BY <2>1, <2>2, <2>3, TypedStep, DoneStep
<1>4. ASSUME NEW s \in {"disabled", "destroyed"}, StatusRead(c, s) PROVE Typed'
  <2> DEFINE o == [at |-> "status_save", version |-> Latest,
                   record |-> [status |-> s, data |-> versions[Latest].data]]
  <2>1. /\ Goto(c, o) /\ Latest' >= Latest /\ TypeOK' /\ Latest' = Latest /\ Latest > 0
        /\ \A j \in JobIds : jobs'[j] # NoJob => jobs'[j].version <= Latest' + 1
    BY <1>4, <1>local, <1>row, TablesKept DEF StatusRead
  <2>2. Locals(o)
    BY <2>1, <1>row DEF Locals, UseSteps, RenewSteps, JobSteps, Records
  <2>3. o.version <= Latest' + 1 /\ o.at \notin JobSteps \cup {"start_save"}
    BY <2>1, <1>row DEF JobSteps
  <2> QED
    BY <2>1, <2>2, <2>3, TypedStep
<1>5. CASE StatusSave(c)
  <2>1. op[c].version \in Nat \ {0} /\ op[c].version <= Latest + 1 /\ op[c].record \in Records
    BY <1>5, <1>local DEF StatusSave, At, Locals, Typed, VersionsUpTo
  <2> QED
    BY <1>5, <2>1, RecordSaved, DoneStep DEF StatusSave
<1>6. ASSUME NEW p \in Policies, SavePolicy(c, p) PROVE Typed'
  <2>1. TypeOK' /\ Latest' >= Latest
    BY <1>6, <1>row DEF SavePolicy, Typed, TypeOK, Latest
  <2>2. \A j \in JobIds : jobs'[j] # NoJob => jobs'[j].version <= Latest' + 1
    BY <1>6 DEF SavePolicy, Typed, VersionsUpTo, Latest
  <2> QED
    BY <1>6, <2>1, <2>2, DoneStep DEF SavePolicy
<1> QED
  BY <1>1, <1>2, <1>3, <1>4, <1>5, <1>6 DEF SecretStep

\* A step that changes no table and moves client c on, or ends its operation.
LEMMA MoveStep ==
  ASSUME Typed, NEW c \in Clients, NEW o, Goto(c, o) \/ Done(c), Locals(o),
         UNCHANGED <<tables, expired, spent, writes>>,
         o.at \notin {"put_save", "status_save", "start_save"},
         o.at \in JobSteps => o.job.version <= Latest + 1
  PROVE  Typed'
<1>1. /\ TypeOK' /\ Latest' = Latest /\ Latest \in Nat
      /\ \A j \in JobIds : jobs'[j] # NoJob => jobs'[j].version <= Latest' + 1
  BY TablesKept DEF Typed, TypeOK
<1> QED
  BY <1>1, TypedStep, DoneStep

\* What holds of the operation a client is in and of the tables, for citing.
LEMMA Known ==
  ASSUME Typed, NEW c \in Clients
  PROVE  /\ Locals(op[c])
         /\ tickets \in [TicketIds -> Tickets \cup {NoTicket}]
         /\ policy \in Policies \cup {NoPolicy}
         /\ spent \subseteq TicketIds \X Nat
         /\ \A x \in Tickets : x.left \in Nat /\ x.version \in Nat /\ x.data \in Nat
         /\ Latest \in Nat
BY LenProperties DEF Typed, TypeOK, Latest, Tickets

LEMMA IssueTyped ==
  ASSUME Typed, NEW c \in Clients, IssueStep(c)
  PROVE  Typed'
<1>known. /\ Locals(op[c])
          /\ tickets \in [TicketIds -> Tickets \cup {NoTicket}]
          /\ policy \in Policies \cup {NoPolicy}
          /\ spent \subseteq TicketIds \X Nat
          /\ Latest \in Nat
  BY Known
<1>1. ASSUME NEW r \in Requests, IssueRead(c, r) PROVE Typed'
  <2> DEFINE o == [at |-> "issue_policy", request |-> r, version |-> Latest,
                   data |-> versions[Latest].data]
  <2>1. Goto(c, o) /\ UNCHANGED <<tables, expired, spent, writes>> /\ Latest > 0
    BY <1>1 DEF IssueRead, LatestIsActive
  <2>2. versions[Latest].data \in Nat
    BY <2>1, LatestRow
  <2>3. Locals(o) /\ o.at \notin {"put_save", "status_save", "start_save"} \cup JobSteps
    BY <1>known, <2>2 DEF Locals, UseSteps, RenewSteps, JobSteps
  <2> QED
    BY <2>1, <2>3, MoveStep
<1>2. CASE IssuePolicy(c)
  <2> DEFINE o == [at |-> "issue_save",
                   ticket |-> NewTicket(op[c].request, op[c].version, op[c].data, policy)]
  <2>1. UNCHANGED <<tables, expired, spent, writes>>
    BY <1>2 DEF IssuePolicy
  <2>2. CASE policy # NoPolicy /\ op[c].request.claim \in policy.allows
    <3>1. o.ticket \in Fresh
      BY <1>2, <2>2, <1>known, NewTicketType DEF IssuePolicy, At, Locals
    <3>2. Locals(o) /\ o.at \notin {"put_save", "status_save", "start_save"} \cup JobSteps
      BY <3>1 DEF Locals, UseSteps, RenewSteps, JobSteps
    <3>3. Goto(c, o)
      BY <1>2, <2>2 DEF IssuePolicy
    <3> QED
      BY <2>1, <3>2, <3>3, MoveStep
  <2>3. CASE ~(policy # NoPolicy /\ op[c].request.claim \in policy.allows)
    <3>1. Done(c) /\ Locals(Idle) /\ Idle.at \notin {"put_save", "status_save", "start_save"} \cup JobSteps
      BY <1>2, <2>3 DEF IssuePolicy, Locals, Idle, UseSteps, RenewSteps, JobSteps
    <3> QED
      BY <2>1, <3>1, MoveStep
  <2> QED
    BY <2>2, <2>3
<1>3. ASSUME NEW t \in TicketIds, IssueSave(c, t) PROVE Typed'
  <2>1. op[c].ticket \in Tickets
    BY <1>3, <1>known DEF IssueSave, At, Locals, Fresh
  <2> QED
    BY <1>3, <2>1, <1>known, TicketSaved, DoneStep DEF IssueSave
<1> QED
  BY <1>1, <1>2, <1>3 DEF IssueStep

LEMMA RenewTyped ==
  ASSUME Typed, NEW c \in Clients, RenewStep(c)
  PROVE  Typed'
<1>known. /\ Locals(op[c])
          /\ tickets \in [TicketIds -> Tickets \cup {NoTicket}]
          /\ policy \in Policies \cup {NoPolicy}
          /\ spent \subseteq TicketIds \X Nat
          /\ \A x \in Tickets : x.left \in Nat /\ x.version \in Nat /\ x.data \in Nat
          /\ Latest \in Nat
  BY Known
<1>1. ASSUME NEW t \in TicketIds, NEW r \in Requests, RenewRead(c, t, r) PROVE Typed'
  <2> DEFINE o == [at |-> "renew_policy", id |-> t, seen |-> tickets[t], request |-> r]
  <2>1. Goto(c, o) /\ UNCHANGED <<tables, expired, spent, writes>> /\ tickets[t] \in Tickets
    BY <1>1, <1>known DEF RenewRead, Unused
  <2>2. Locals(o) /\ o.at \notin {"put_save", "status_save", "start_save"} \cup JobSteps
    BY <2>1 DEF Locals, UseSteps, RenewSteps, JobSteps
  <2> QED
    BY <2>1, <2>2, MoveStep
<1>2. ASSUME NEW step \in {"renew_check", "renew_issue"},
             Goto(c, Renewing(c, step)) \/ Done(c), UNCHANGED <<tables, expired, spent, writes>>,
             op[c].at \in {"renew_policy", "renew_check"}
      PROVE  Typed'
  <2> DEFINE o == Renewing(c, step)
  <2>1. op[c].id \in TicketIds /\ op[c].seen \in Tickets /\ op[c].request \in Requests
    BY <1>2, <1>known DEF Locals, UseSteps, RenewSteps
  <2>2. Locals(o) /\ o.at \notin {"put_save", "status_save", "start_save"} \cup JobSteps
    BY <2>1, <1>2 DEF Renewing, Locals, UseSteps, RenewSteps, JobSteps
  <2> QED
    BY <1>2, <2>2, MoveStep
<1>3. CASE RenewPolicy(c)
  BY <1>2, <1>3 DEF RenewPolicy, At, Done
<1>4. CASE RenewCheck(c)
  BY <1>2, <1>4 DEF RenewCheck, At, Done
<1>5. CASE RenewIssue(c)
  <2> DEFINE old == op[c].seen
             r == [op[c].request EXCEPT !.session = old.session]
             o == [at |-> "renew_revoke", id |-> op[c].id, seen |-> old,
                   ticket |-> NewTicket(r, old.version, old.data, policy)]
  <2>1. op[c].id \in TicketIds /\ old \in Tickets /\ op[c].request \in Requests
    BY <1>5, <1>known DEF RenewIssue, At, Locals, UseSteps, RenewSteps
  <2>2. r \in Requests /\ old.version \in Nat /\ old.data \in Nat /\ policy \in Policies
    BY <1>5, <2>1, <1>known DEF RenewIssue, Requests, Tickets
  <2>3. NewTicket(r, old.version, old.data, policy) \in Fresh
    BY <2>2, NewTicketType
  <2>4. Locals(o) /\ o.at \notin {"put_save", "status_save", "start_save"} \cup JobSteps
    BY <2>1, <2>3 DEF Locals, UseSteps, RenewSteps, JobSteps
  <2>5. Goto(c, o) /\ UNCHANGED <<tables, expired, spent, writes>>
    BY <1>5 DEF RenewIssue
  <2> QED
    BY <2>4, <2>5, MoveStep
<1>6. CASE RenewRevoke(c)
  <2> DEFINE o == [at |-> "renew_save", ticket |-> op[c].ticket]
  <2>1. op[c].id \in TicketIds /\ Revoked(op[c].seen) \in Tickets /\ op[c].ticket \in Fresh
    BY <1>6, <1>known, RevokedType DEF RenewRevoke, At, Locals, UseSteps, RenewSteps
  <2>2. Locals(o) /\ o.at \notin {"put_save", "status_save", "start_save"} \cup JobSteps
    BY <2>1 DEF Locals, UseSteps, RenewSteps, JobSteps
  <2>3. /\ TypeOK' /\ Latest' = Latest
        /\ \A j \in JobIds : jobs'[j] # NoJob => jobs'[j].version <= Latest' + 1
    BY <1>6, <2>1, <1>known, TicketSaved DEF RenewRevoke
  <2> QED
    BY <1>6, <2>2, <2>3, <1>known, TypedStep DEF RenewRevoke
<1>7. ASSUME NEW t \in TicketIds, RenewSave(c, t) PROVE Typed'
  <2>1. op[c].ticket \in Tickets
    BY <1>7, <1>known DEF RenewSave, At, Locals, Fresh
  <2> QED
    BY <1>7, <2>1, <1>known, TicketSaved, DoneStep DEF RenewSave
<1> QED
  BY <1>1, <1>3, <1>4, <1>5, <1>6, <1>7 DEF RenewStep

LEMMA ConsumeTyped ==
  ASSUME Typed, NEW c \in Clients, ConsumeStep(c)
  PROVE  Typed'
<1>known. /\ Locals(op[c])
          /\ tickets \in [TicketIds -> Tickets \cup {NoTicket}]
          /\ spent \subseteq TicketIds \X Nat
          /\ \A x \in Tickets : x.left \in Nat /\ x.version \in Nat /\ x.data \in Nat
          /\ Latest \in Nat
  BY Known
<1>1. ASSUME NEW t \in TicketIds, NEW r \in Requests, ConsumeRead(c, t, r) PROVE Typed'
  <2> DEFINE o == [at |-> "consume_policy", id |-> t, seen |-> tickets[t]]
  <2>1. /\ Goto(c, o) /\ UNCHANGED <<tables, expired, spent, writes>> /\ tickets[t] \in Tickets
        /\ ~tickets[t].revoked /\ tickets[t].left > 0
    BY <1>1, <1>known DEF ConsumeRead, Unused, Valid
  <2>2. Locals(o) /\ o.at \notin {"put_save", "status_save", "start_save"} \cup JobSteps
    BY <2>1 DEF Locals, UseSteps, RenewSteps, JobSteps
  <2> QED
    BY <2>1, <2>2, MoveStep
<1>2. ASSUME NEW step \in UseSteps, op[c].at \in UseSteps
      PROVE  /\ Locals(Using(c, step))
             /\ Using(c, step).at \notin {"put_save", "status_save", "start_save"} \cup JobSteps
  BY <1>2, <1>known DEF Using, Locals, UseSteps, RenewSteps, JobSteps
<1>3. CASE ConsumePolicy(c)
  <2>1. op[c].at \in UseSteps /\ "consume_check" \in UseSteps
    BY <1>3 DEF ConsumePolicy, At, UseSteps
  <2>2. /\ Goto(c, Using(c, "consume_check")) \/ Done(c)
        /\ UNCHANGED <<tables, expired, spent, writes>>
    BY <1>3 DEF ConsumePolicy, Done
  <2> QED
    BY <2>1, <2>2, <1>2, MoveStep
<1>4. CASE ConsumeCheck(c)
  <2>1. op[c].at \in UseSteps /\ "consume_save" \in UseSteps
    BY <1>4 DEF ConsumeCheck, At, UseSteps
  <2>2. /\ Goto(c, Using(c, "consume_save")) \/ Done(c)
        /\ UNCHANGED <<tables, expired, spent, writes>>
    BY <1>4 DEF ConsumeCheck, Done
  <2> QED
    BY <2>1, <2>2, <1>2, MoveStep
<1>5. CASE ConsumeSave(c)
  <2> DEFINE seen == op[c].seen
  <2>1. op[c].at \in UseSteps /\ "consume_load" \in UseSteps
    BY <1>5 DEF ConsumeSave, At, UseSteps
  <2>2. op[c].id \in TicketIds /\ seen \in Tickets /\ seen.left > 0
    BY <2>1, <1>known DEF Locals, UseSteps
  <2>3. CASE tickets[op[c].id] # seen
    BY <1>5, <2>1, <2>3, <1>2, MoveStep DEF ConsumeSave, tables
  <2>4. CASE tickets[op[c].id] = seen
    <3> DEFINE x == [seen EXCEPT !.left = @ - 1]
    <3>1. x \in Tickets
      BY <2>2 DEF Tickets
    <3>2. /\ SaveTicket(op[c].id, x) /\ spent' = spent \cup {<<op[c].id, seen.left>>}
          /\ Goto(c, Using(c, "consume_load"))
          /\ UNCHANGED <<versions, policy, jobs, expired, writes>>
      BY <1>5, <2>4 DEF ConsumeSave
    <3>3. spent' \subseteq TicketIds \X Nat
      BY <3>2, <2>2, <1>known
    <3>4. /\ TypeOK' /\ Latest' = Latest
          /\ \A j \in JobIds : jobs'[j] # NoJob => jobs'[j].version <= Latest' + 1
      BY <3>1, <3>2, <3>3, <2>2, TicketSaved
    <3> QED
      BY <3>2, <3>4, <2>1, <1>2, <1>known, TypedStep
  <2> QED
    BY <2>3, <2>4
<1>6. ASSUME NEW b, NEW d, NEW step \in {"show", "return"}
      PROVE  LET o == [at |-> step, by |-> b, data |-> d] IN
             Locals(o) /\ o.at \notin {"put_save", "status_save", "start_save"} \cup JobSteps
  BY DEF Locals, UseSteps, RenewSteps, JobSteps
<1>7. CASE ConsumeLoad(c)
  <2> DEFINE o == [at |-> "show", by |-> <<op[c].id, op[c].seen.left>>,
                   data |-> versions[op[c].seen.version].data]
  <2>1. (Goto(c, o) \/ Done(c)) /\ UNCHANGED <<tables, expired, spent, writes>>
    BY <1>7 DEF ConsumeLoad
  <2> QED
    BY <2>1, <1>6, MoveStep
<1>8. CASE Show(c)
  <2> DEFINE o == [at |-> "return", by |-> op[c].by, data |-> op[c].data]
  <2>1. /\ Goto(c, o) /\ TypeOK' /\ Latest' = Latest
        /\ \A j \in JobIds : jobs'[j] # NoJob => jobs'[j].version <= Latest' + 1
    BY <1>8 DEF Show, Typed, TypeOK, Latest, VersionsUpTo
  <2>2. Locals(o) /\ o.at \notin {"put_save", "status_save", "start_save"} \cup JobSteps
    BY <1>6
  <2> QED
    BY <2>1, <2>2, <1>known, TypedStep
<1>9. CASE Return(c)
  <2>1. Done(c) /\ UNCHANGED <<tables, expired, spent, writes>>
    BY <1>9 DEF Return
  <2>2. Locals(Idle) /\ Idle.at \notin {"put_save", "status_save", "start_save"} \cup JobSteps
    BY DEF Locals, Idle, UseSteps, RenewSteps, JobSteps
  <2> QED
    BY <2>1, <2>2, MoveStep
<1> QED
  BY <1>1, <1>3, <1>4, <1>5, <1>7, <1>8, <1>9 DEF ConsumeStep

LEMMA RevokeTyped ==
  ASSUME Typed, NEW c \in Clients, RevokeStep(c)
  PROVE  Typed'
<1>known. /\ Locals(op[c])
          /\ tickets \in [TicketIds -> Tickets \cup {NoTicket}]
          /\ spent \subseteq TicketIds \X Nat
          /\ Latest \in Nat
  BY Known
<1>1. ASSUME NEW t \in TicketIds, RevokeRead(c, t) PROVE Typed'
  <2> DEFINE o == [at |-> "revoke_save", id |-> t, seen |-> tickets[t]]
  <2>1. Goto(c, o) /\ UNCHANGED <<tables, expired, spent, writes>> /\ tickets[t] \in Tickets
    BY <1>1, <1>known DEF RevokeRead, Unused
  <2>2. Locals(o) /\ o.at \notin {"put_save", "status_save", "start_save"} \cup JobSteps
    BY <2>1 DEF Locals, UseSteps, RenewSteps, JobSteps
  <2> QED
    BY <2>1, <2>2, MoveStep
<1>2. CASE RevokeSave(c)
  <2>1. op[c].id \in TicketIds /\ Revoked(op[c].seen) \in Tickets
    BY <1>2, <1>known, RevokedType DEF RevokeSave, At, Locals
  <2> QED
    BY <1>2, <2>1, <1>known, TicketSaved, DoneStep DEF RevokeSave
<1>3. CASE LockdownRead(c)
  <2> DEFINE o == [at |-> "lockdown", list |-> tickets,
                   todo |-> {t \in TicketIds : tickets[t] # NoTicket /\ ~tickets[t].revoked}]
  <2>1. Goto(c, o) /\ UNCHANGED <<tables, expired, spent, writes>>
    BY <1>3 DEF LockdownRead
  <2>2. Locals(o) /\ o.at \notin {"put_save", "status_save", "start_save"} \cup JobSteps
    BY <1>known DEF Locals, UseSteps, RenewSteps, JobSteps
  <2> QED
    BY <2>1, <2>2, MoveStep
<1>4. ASSUME NEW t \in TicketIds, LockdownSave(c, t) PROVE Typed'
  <2> DEFINE o == [at |-> "lockdown", list |-> op[c].list, todo |-> op[c].todo \ {t}]
  <2>1. op[c].list \in [TicketIds -> Tickets \cup {NoTicket}] /\ op[c].list[t] # NoTicket
        /\ op[c].todo \subseteq {u \in TicketIds : op[c].list[u] # NoTicket}
    BY <1>4, <1>known DEF LockdownSave, At, Locals
  <2>2. Revoked(op[c].list[t]) \in Tickets
    BY <2>1, RevokedType
  <2>3. Locals(o) /\ o.at \notin {"put_save", "status_save", "start_save"} \cup JobSteps
    BY <2>1 DEF Locals, UseSteps, RenewSteps, JobSteps
  <2>4. /\ TypeOK' /\ Latest' = Latest
        /\ \A j \in JobIds : jobs'[j] # NoJob => jobs'[j].version <= Latest' + 1
    BY <1>4, <2>2, <1>known, TicketSaved DEF LockdownSave
  <2> QED
    BY <1>4, <2>3, <2>4, <1>known, TypedStep DEF LockdownSave
<1>5. CASE LockdownEnd(c)
  <2>1. Done(c) /\ UNCHANGED <<tables, expired, spent, writes>>
    BY <1>5 DEF LockdownEnd
  <2>2. Locals(Idle) /\ Idle.at \notin {"put_save", "status_save", "start_save"} \cup JobSteps
    BY DEF Locals, Idle, UseSteps, RenewSteps, JobSteps
  <2> QED
    BY <2>1, <2>2, MoveStep
<1> QED
  BY <1>1, <1>2, <1>3, <1>4, <1>5 DEF RevokeStep

LEMMA RotationTyped ==
  ASSUME Typed, NEW c \in Clients, RotationStep(c)
  PROVE  Typed'
<1>known. Locals(op[c]) /\ Latest \in Nat /\ jobs \in [JobIds -> Jobs \cup {NoJob}]
  BY Known DEF Typed, TypeOK
<1>upto. /\ op[c].at \in JobSteps \cup {"start_save"} => op[c].job.version <= Latest + 1
         /\ \A j \in JobIds : jobs[j] # NoJob => jobs[j].version <= Latest + 1
  BY DEF Typed, VersionsUpTo
<1>1. CASE StartRead(c)
  <2> DEFINE o == [at |-> "start_save",
                   job |-> [version |-> Latest + 1, data |-> writes', status |-> "staged"]]
  <2>1. /\ Goto(c, o) /\ writes' \in Nat /\ TypeOK' /\ Latest' = Latest
        /\ \A j \in JobIds : jobs'[j] # NoJob => jobs'[j].version <= Latest' + 1
    BY <1>1, TablesKept DEF StartRead, Typed, TypeOK
  <2>2. o.job \in Jobs
    BY <2>1, <1>known DEF Jobs
  <2>3. Locals(o)
    BY <2>2 DEF Locals, UseSteps, RenewSteps, JobSteps
  <2>4. o.job.version <= Latest' + 1
    BY <2>1, <1>known
  <2> QED
    BY <2>1, <2>3, <2>4, <1>known, TypedStep
<1>2. ASSUME NEW j \in JobIds, StartSave(c, j) PROVE Typed'
  <2>1. op[c].job \in Jobs /\ op[c].job.version <= Latest + 1
    BY <1>2, <1>known, <1>upto DEF StartSave, At, Locals
  <2> QED
    BY <1>2, <2>1, <1>known, JobSaved, DoneStep DEF StartSave
<1>3. ASSUME NEW j \in JobIds, NEW statuses,
             NEW next \in {"verify_save", "promote_save", "rollback_save"},
             JobRead(c, j, statuses, next)
      PROVE  Typed'
  <2> DEFINE o == [at |-> next, id |-> j, job |-> jobs[j]]
  <2>1. Goto(c, o) /\ UNCHANGED <<tables, expired, spent, writes>> /\ jobs[j] # NoJob
    BY <1>3 DEF JobRead
  <2>2. Locals(o) /\ o.at \notin {"put_save", "status_save", "start_save"}
        /\ o.job.version <= Latest + 1
    BY <2>1, <1>known, <1>upto DEF Locals, UseSteps, RenewSteps, JobSteps
  <2> QED
    BY <2>1, <2>2, MoveStep
<1>4. ASSUME NEW step \in JobSteps, NEW status \in {"verified", "rolled_back", "promoted"},
             JobSave(c, step, status)
      PROVE  Typed'
  <2> DEFINE x == [op[c].job EXCEPT !.status = status]
  <2>1. op[c].id \in JobIds /\ op[c].job \in Jobs /\ op[c].job.version <= Latest + 1
    BY <1>4, <1>known, <1>upto DEF JobSave, At, Locals
  <2>2. x \in Jobs /\ x.version <= Latest + 1
    BY <2>1 DEF Jobs
  <2>3. /\ TypeOK' /\ Latest' = Latest
        /\ \A k \in JobIds : jobs'[k] # NoJob => jobs'[k].version <= Latest' + 1
    BY <1>4, <2>1, <2>2, JobSaved DEF JobSave
  <2> QED
    BY <1>4, <2>3, <1>known, DoneStep DEF JobSave
<1>5. CASE PromoteSave(c)
  <2> DEFINE o == [at |-> "promote_end", id |-> op[c].id, job |-> op[c].job]
             r == [status |-> "active", data |-> op[c].job.data]
  <2>1. /\ op[c].id \in JobIds /\ op[c].job \in Jobs /\ op[c].job.version <= Latest + 1
        /\ op[c].job.version \in Nat \ {0} /\ r \in Records
    BY <1>5, <1>known, <1>upto DEF PromoteSave, At, Locals, JobSteps, Jobs, Records
  <2>2. /\ TypeOK' /\ Latest' >= Latest
        /\ \A j \in JobIds : jobs'[j] # NoJob => jobs'[j].version <= Latest' + 1
    BY <1>5, <2>1, RecordSaved DEF PromoteSave
  <2>3. Latest' \in Nat
    BY <2>2, LenProperties DEF TypeOK, Latest
  <2>4. Goto(c, o) /\ o.job.version <= Latest' + 1
    BY <1>5, <2>1, <2>2, <2>3, <1>known DEF PromoteSave
  <2>5. Locals(o)
    BY <2>1 DEF Locals, UseSteps, RenewSteps, JobSteps
  <2> QED
    BY <2>2, <2>4, <2>5, TypedStep
<1>6. (\E j \in JobIds : VerifyRead(c, j) \/ PromoteRead(c, j) \/ RollbackRead(c, j)) => Typed'
  BY <1>3 DEF VerifyRead, PromoteRead, RollbackRead
<1>7. VerifySave(c) \/ PromoteEnd(c) \/ RollbackSave(c) => Typed'
  BY <1>4 DEF VerifySave, PromoteEnd, RollbackSave, JobSteps
<1> QED
  BY <1>1, <1>2, <1>5, <1>6, <1>7 DEF RotationStep

LEMMA NextTyped == Typed /\ [Next]_vars => Typed'
<1> SUFFICES ASSUME Typed, [Next]_vars PROVE Typed'
  OBVIOUS
<1>1. ASSUME NEW c \in Clients, Crash(c) PROVE Typed'
  <2>1. Done(c) /\ UNCHANGED <<tables, expired, spent, writes>>
    BY <1>1 DEF Crash
  <2>2. Locals(Idle) /\ Idle.at \notin {"put_save", "status_save", "start_save"} \cup JobSteps
    BY DEF Locals, Idle, UseSteps, RenewSteps, JobSteps
  <2> QED
    BY <2>1, <2>2, MoveStep
<1>2. ASSUME NEW t \in TicketIds, Expire(t) PROVE Typed'
  BY <1>2 DEF Expire, Typed, TypeOK, tables, VersionsUpTo, Latest
<1>3. CASE UNCHANGED vars
  BY <1>3 DEF vars, Typed, TypeOK, VersionsUpTo, Latest
<1> QED
  BY <1>1, <1>2, <1>3, SecretTyped, IssueTyped, RenewTyped, ConsumeTyped, RevokeTyped,
     RotationTyped DEF Next

LEMMA AlwaysTyped == Spec => []Typed
BY InitTyped, NextTyped, PTL DEF Spec

\* The tables of the vault keep their types.
THEOREM Typing == Spec => []TypeOK
<1>1. Typed => TypeOK
  BY DEF Typed
<1> QED
  BY <1>1, AlwaysTyped, PTL

-------------------------------------------------------------------------------
(* What clients point at: the tickets they have read *)

Pointing == UseSteps \cup RenewSteps \cup {"revoke_save"}

\* What a ticket says but for the uses made of it and its revocation.
SameIssue(x, y) ==
  /\ x.version = y.version /\ x.data = y.data /\ x.policy = y.policy
  /\ x.claim = y.claim /\ x.session = y.session

\* x is a copy of ticket t, perhaps an old one.
CopyOf(x, t) == ~Unused(t) /\ SameIssue(x, tickets[t])

Pointed ==
  \A c \in Clients :
    /\ op[c].at \in Pointing => CopyOf(op[c].seen, op[c].id)
    /\ op[c].at = "lockdown" =>
         \A t \in TicketIds : op[c].list[t] # NoTicket => CopyOf(op[c].list[t], t)

\* Client c keeps the copies it has, or reads the table as it is before the step.
Follows(c) ==
  /\ op'[c].at \in Pointing =>
       \/ /\ op'[c].id \in TicketIds /\ ~Unused(op'[c].id)
          /\ op'[c].seen = tickets[op'[c].id]
       \/ op[c].at \in Pointing /\ op'[c].id = op[c].id /\ op'[c].seen = op[c].seen
  /\ op'[c].at = "lockdown" =>
       op'[c].list = tickets \/ (op[c].at = "lockdown" /\ op'[c].list = op[c].list)

LEMMA Moves ==
  ASSUME Typed, NEW c \in Clients, NEW o, Goto(c, o)
  PROVE  op'[c] = o /\ \A d \in Clients \ {c} : op'[d] = op[d]
BY DEF Typed, Goto

LEMMA FollowsStay ==
  ASSUME NEW d \in Clients, op'[d] = op[d]
  PROVE  Follows(d)
<1>1. op[d].at \in Pointing => op'[d].id = op[d].id /\ op'[d].seen = op[d].seen
  OBVIOUS
<1> QED
  BY <1>1 DEF Follows

LEMMA FollowsAway ==
  ASSUME NEW c \in Clients, op'[c].at \notin Pointing \cup {"lockdown"}
  PROVE  Follows(c)
BY DEF Follows

\* Most steps leave a client with no copy of a ticket at all.
Away(o) == o.at \notin Pointing \cup {"lockdown"}

LEMMA AwayStep ==
  ASSUME Typed, NEW c \in Clients, NEW o, Goto(c, o) \/ Done(c), Away(o)
  PROVE  \A d \in Clients : Follows(d)
<1>1. Away(Idle)
  BY DEF Away, Idle, Pointing, UseSteps, RenewSteps
<1>2. \A d \in Clients \ {c} : op'[d] = op[d]
  BY Moves DEF Done
<1>3. op'[c].at \notin Pointing \cup {"lockdown"}
  BY <1>1, Moves DEF Done, Away
<1> QED
  BY <1>2, <1>3, FollowsStay, FollowsAway

LEMMA FollowsStep ==
  ASSUME Typed, NEW c \in Clients, NEW o, Goto(c, o) \/ Done(c),
         \/ /\ o.at \in Pointing /\ o.id \in TicketIds /\ ~Unused(o.id)
            /\ o.seen = tickets[o.id]
         \/ o.at \in Pointing /\ op[c].at \in Pointing /\ o.id = op[c].id /\ o.seen = op[c].seen
  PROVE  \A d \in Clients : Follows(d)
<1>1. CASE Done(c)
  <2>1. Away(Idle)
    BY DEF Away, Idle, Pointing, UseSteps, RenewSteps
  <2> QED
    BY <1>1, <2>1, AwayStep
<1>2. CASE Goto(c, o)
  <2>1. op'[c] = o /\ \A d \in Clients \ {c} : op'[d] = op[d]
    BY <1>2, Moves
  <2>2. Follows(c)
    BY <2>1 DEF Follows, Pointing, UseSteps, RenewSteps
  <2> QED
    BY <2>1, <2>2, FollowsStay
<1> QED
  BY <1>1, <1>2

LEMMA SecretFollows ==
  ASSUME Typed, NEW c \in Clients, SecretStep(c) \/ IssueStep(c) \/ RotationStep(c) \/ Crash(c)
  PROVE  \A d \in Clients : Follows(d)
<1> DEFINE Plain == {"verify_save", "promote_save", "rollback_save", "promote_end"}
<1> USE DEF Away, Pointing, UseSteps, RenewSteps
<1>1. Away(Idle)
  BY DEF Idle
<1>2. /\ \A v, d : Away([at |-> "put_save", version |-> v, data |-> d])
      /\ \A b, d : Away([at |-> "show", by |-> b, data |-> d])
      /\ \A v, r : Away([at |-> "status_save", version |-> v, record |-> r])
  OBVIOUS
<1>3. CASE SecretStep(c)
  <2>1. CASE \E v, d : Goto(c, [at |-> "put_save", version |-> v, data |-> d])
    BY <2>1, <1>2, AwayStep
  <2>2. CASE \E b, d : Goto(c, [at |-> "show", by |-> b, data |-> d])
    BY <2>2, <1>2, AwayStep
  <2>3. CASE \E v, r : Goto(c, [at |-> "status_save", version |-> v, record |-> r])
    BY <2>3, <1>2, AwayStep
  <2>4. CASE Done(c)
    BY <2>4, <1>1, AwayStep
  <2> QED
    BY <1>3, <2>1, <2>2, <2>3, <2>4
    DEF SecretStep, PutRead, PutSave, GetRead, StatusRead, StatusSave, SavePolicy
<1>4. CASE IssueStep(c)
  <2>1. CASE \E r, v, d : Goto(c, [at |-> "issue_policy", request |-> r, version |-> v, data |-> d])
    <3>1. \A r, v, d : Away([at |-> "issue_policy", request |-> r, version |-> v, data |-> d])
      OBVIOUS
    <3> QED
      BY <2>1, <3>1, AwayStep
  <2>2. CASE \E x : Goto(c, [at |-> "issue_save", ticket |-> x])
    <3>1. \A x : Away([at |-> "issue_save", ticket |-> x])
      OBVIOUS
    <3> QED
      BY <2>2, <3>1, AwayStep
  <2>3. CASE Done(c)
    BY <2>3, <1>1, AwayStep
  <2> QED
    BY <1>4, <2>1, <2>2, <2>3 DEF IssueStep, IssueRead, IssuePolicy, IssueSave
<1>5. CASE RotationStep(c)
  <2>1. CASE \E j : Goto(c, [at |-> "start_save", job |-> j])
    <3>1. \A j : Away([at |-> "start_save", job |-> j])
      OBVIOUS
    <3> QED
      BY <2>1, <3>1, AwayStep
  <2>2. CASE \E s \in Plain : \E i, j : Goto(c, [at |-> s, id |-> i, job |-> j])
    <3>1. \A s \in Plain : \A i, j : Away([at |-> s, id |-> i, job |-> j])
      OBVIOUS
    <3> QED
      BY <2>2, <3>1, AwayStep
  <2>3. CASE Done(c)
    BY <2>3, <1>1, AwayStep
  <2>4. StartRead(c) => \E j : Goto(c, [at |-> "start_save", job |-> j])
    BY DEF StartRead
  <2>5. (\E j \in JobIds : VerifyRead(c, j) \/ PromoteRead(c, j) \/ RollbackRead(c, j)) =>
          \E s \in Plain : \E i, j : Goto(c, [at |-> s, id |-> i, job |-> j])
    BY DEF VerifyRead, PromoteRead, RollbackRead, JobRead
  <2>6. PromoteSave(c) => \E s \in Plain : \E i, j : Goto(c, [at |-> s, id |-> i, job |-> j])
    BY DEF PromoteSave
  <2>7. (\E j \in JobIds : StartSave(c, j)) \/ VerifySave(c) \/ PromoteEnd(c) \/ RollbackSave(c) => Done(c)
    BY DEF StartSave, VerifySave, PromoteEnd, RollbackSave, JobSave
  <2> QED
    BY <1>5, <2>1, <2>2, <2>3, <2>4, <2>5, <2>6, <2>7 DEF RotationStep
<1>6. CASE Crash(c)
  BY <1>1, <1>6, AwayStep DEF Crash
<1> QED
  BY <1>3, <1>4, <1>5, <1>6

LEMMA RenewFollows ==
  ASSUME Typed, NEW c \in Clients, RenewStep(c)
  PROVE  \A d \in Clients : Follows(d)
<1> USE DEF Pointing, UseSteps, RenewSteps
<1>1. ASSUME NEW t \in TicketIds, NEW r \in Requests, RenewRead(c, t, r)
      PROVE  \A d \in Clients : Follows(d)
  <2> DEFINE o == [at |-> "renew_policy", id |-> t, seen |-> tickets[t], request |-> r]
  <2>1. Goto(c, o) /\ o.at \in Pointing /\ o.id \in TicketIds /\ ~Unused(o.id) /\ o.seen = tickets[o.id]
    BY <1>1 DEF RenewRead
  <2> QED
    BY <2>1, FollowsStep
<1>2. CASE RenewPolicy(c) \/ RenewCheck(c)
  <2>1. PICK s \in {"renew_check", "renew_issue"} :
          (Goto(c, Renewing(c, s)) \/ Done(c)) /\ op[c].at \in Pointing
    BY <1>2 DEF RenewPolicy, RenewCheck, At, Done
  <2>2. /\ Renewing(c, s).at \in Pointing
        /\ Renewing(c, s).id = op[c].id /\ Renewing(c, s).seen = op[c].seen
    BY DEF Renewing
  <2> QED
    BY <2>1, <2>2, FollowsStep
<1>3. CASE RenewIssue(c)
  <2>1. PICK x : Goto(c, [at |-> "renew_revoke", id |-> op[c].id, seen |-> op[c].seen, ticket |-> x])
    BY <1>3 DEF RenewIssue
  <2> DEFINE o == [at |-> "renew_revoke", id |-> op[c].id, seen |-> op[c].seen, ticket |-> x]
  <2>2. o.at \in Pointing /\ op[c].at \in Pointing /\ o.id = op[c].id /\ o.seen = op[c].seen
    BY <1>3 DEF RenewIssue, At
  <2> QED
    BY <2>1, <2>2, FollowsStep
<1>4. CASE RenewRevoke(c) \/ \E t \in TicketIds : RenewSave(c, t)
  <2>1. Goto(c, [at |-> "renew_save", ticket |-> op[c].ticket]) \/ Done(c)
    BY <1>4 DEF RenewRevoke, RenewSave
  <2>2. Away([at |-> "renew_save", ticket |-> op[c].ticket])
    BY DEF Away
  <2> QED
    BY <2>1, <2>2, AwayStep
<1> QED
  BY <1>1, <1>2, <1>3, <1>4 DEF RenewStep

LEMMA ConsumeFollows ==
  ASSUME Typed, NEW c \in Clients, ConsumeStep(c)
  PROVE  \A d \in Clients : Follows(d)
<1> USE DEF Pointing, UseSteps, RenewSteps
<1>1. ASSUME NEW t \in TicketIds, NEW r \in Requests, ConsumeRead(c, t, r)
      PROVE  \A d \in Clients : Follows(d)
  <2> DEFINE o == [at |-> "consume_policy", id |-> t, seen |-> tickets[t]]
  <2>1. Goto(c, o) /\ o.at \in Pointing /\ o.id \in TicketIds /\ ~Unused(o.id) /\ o.seen = tickets[o.id]
    BY <1>1 DEF ConsumeRead
  <2> QED
    BY <2>1, FollowsStep
<1>2. CASE ConsumePolicy(c) \/ ConsumeCheck(c) \/ ConsumeSave(c)
  <2>1. PICK s \in {"consume_check", "consume_save", "consume_load"} :
          (Goto(c, Using(c, s)) \/ Done(c)) /\ op[c].at \in Pointing
    BY <1>2 DEF ConsumePolicy, ConsumeCheck, ConsumeSave, At, Done
  <2>2. /\ Using(c, s).at \in Pointing
        /\ Using(c, s).id = op[c].id /\ Using(c, s).seen = op[c].seen
    BY DEF Using
  <2> QED
    BY <2>1, <2>2, FollowsStep
<1>3. CASE ConsumeLoad(c) \/ Show(c) \/ Return(c)
  <2>1. Done(c) \/ \E s \in {"show", "return"} : \E b, d : Goto(c, [at |-> s, by |-> b, data |-> d])
    BY <1>3 DEF ConsumeLoad, Show, Return
  <2>2. \A s \in {"show", "return"} : \A b, d : Away([at |-> s, by |-> b, data |-> d])
    BY DEF Away
  <2>3. Away(Idle)
    BY DEF Away, Idle
  <2> QED
    BY <2>1, <2>2, <2>3, AwayStep
<1> QED
  BY <1>1, <1>2, <1>3 DEF ConsumeStep

LEMMA RevokeFollows ==
  ASSUME Typed, NEW c \in Clients, RevokeStep(c)
  PROVE  \A d \in Clients : Follows(d)
<1> USE DEF Pointing, UseSteps, RenewSteps
<1>1. ASSUME NEW t \in TicketIds, RevokeRead(c, t) PROVE \A d \in Clients : Follows(d)
  <2> DEFINE o == [at |-> "revoke_save", id |-> t, seen |-> tickets[t]]
  <2>1. Goto(c, o) /\ o.at \in Pointing /\ o.id \in TicketIds /\ ~Unused(o.id) /\ o.seen = tickets[o.id]
    BY <1>1 DEF RevokeRead
  <2> QED
    BY <2>1, FollowsStep
<1>2. CASE RevokeSave(c) \/ LockdownEnd(c)
  <2>1. Done(c) /\ Away(Idle)
    BY <1>2 DEF RevokeSave, LockdownEnd, Away, Idle
  <2> QED
    BY <2>1, AwayStep
<1>3. CASE LockdownRead(c) \/ \E t \in TicketIds : LockdownSave(c, t)
  <2>1. PICK l, todo : /\ Goto(c, [at |-> "lockdown", list |-> l, todo |-> todo])
                       /\ l = tickets \/ (op[c].at = "lockdown" /\ l = op[c].list)
    BY <1>3 DEF LockdownRead, LockdownSave, At
  <2>2. /\ op'[c] = [at |-> "lockdown", list |-> l, todo |-> todo]
        /\ \A d \in Clients \ {c} : op'[d] = op[d]
    BY <2>1, Moves
  <2>3. Follows(c)
    BY <2>1, <2>2 DEF Follows
  <2> QED
    BY <2>2, <2>3, FollowsStay
<1> QED
  BY <1>1, <1>2, <1>3 DEF RevokeStep

LEMMA NextFollows ==
  ASSUME Typed, [Next]_vars
  PROVE  \A d \in Clients : Follows(d)
<1>1. CASE \E t \in TicketIds : Expire(t)
  BY <1>1, FollowsStay DEF Expire
<1>2. CASE UNCHANGED vars
  BY <1>2, FollowsStay DEF vars
<1> QED
  BY <1>1, <1>2, SecretFollows, RenewFollows, ConsumeFollows, RevokeFollows DEF Next

-------------------------------------------------------------------------------
(* What a step may do to the tickets *)

Kept == UNCHANGED <<tickets, spent>>

Issued(t) == Unused(t) /\ UNCHANGED spent /\ \E x \in Fresh : SaveTicket(t, x)

RevokedAsCopy(t) ==
  /\ UNCHANGED spent
  /\ \E x \in Tickets : CopyOf(x, t) /\ x.revoked /\ SaveTicket(t, x)

UsedOnce(t) ==
  /\ tickets[t] \in Tickets /\ ~tickets[t].revoked /\ tickets[t].left > 0
  /\ SaveTicket(t, [tickets[t] EXCEPT !.left = @ - 1])
  /\ spent' = spent \cup {<<t, tickets[t].left>>}

TicketStep == Kept \/ \E t \in TicketIds : Issued(t) \/ RevokedAsCopy(t) \/ UsedOnce(t)

LEMMA RevokedCopy ==
  ASSUME Typed, NEW t \in TicketIds, NEW x \in Tickets, CopyOf(x, t),
         SaveTicket(t, Revoked(x)), UNCHANGED spent
  PROVE  TicketStep
<1>1. Revoked(x) \in Tickets /\ Revoked(x).revoked /\ CopyOf(Revoked(x), t)
  BY RevokedType DEF Revoked, CopyOf, SameIssue, Tickets
<1> QED
  BY <1>1 DEF TicketStep, RevokedAsCopy

LEMMA NextTickets ==
  ASSUME Typed, Pointed, [Next]_vars
  PROVE  TicketStep
<1>known. \A c \in Clients : Locals(op[c])
  BY Known
<1>1. ASSUME NEW c \in Clients, SecretStep(c) \/ RotationStep(c) \/ Crash(c) PROVE Kept
  BY <1>1 DEF Kept, tables, SecretStep, PutRead, PutSave, GetRead, StatusRead, StatusSave, SavePolicy,
    RotationStep, StartRead, StartSave, VerifyRead, PromoteRead, RollbackRead, JobRead,
    VerifySave, PromoteSave, PromoteEnd, RollbackSave, JobSave, Crash
<1>2. ASSUME NEW c \in Clients, IssueStep(c) PROVE TicketStep
  <2>1. IssuePolicy(c) \/ (\E r \in Requests : IssueRead(c, r)) => Kept
    BY DEF IssuePolicy, IssueRead, Kept, tables
  <2>2. ASSUME NEW t \in TicketIds, IssueSave(c, t) PROVE Issued(t)
    BY <2>2, <1>known DEF IssueSave, At, Locals, Issued
  <2> QED
    BY <1>2, <2>1, <2>2 DEF IssueStep, TicketStep
<1>3. ASSUME NEW c \in Clients, RenewStep(c) PROVE TicketStep
  <2>1. \/ RenewPolicy(c) \/ RenewCheck(c) \/ RenewIssue(c)
        \/ \E t \in TicketIds, r \in Requests : RenewRead(c, t, r)
        => Kept
    BY DEF RenewPolicy, RenewCheck, RenewIssue, RenewRead, Kept, tables
  <2>2. ASSUME NEW t \in TicketIds, RenewSave(c, t) PROVE Issued(t)
    BY <2>2, <1>known DEF RenewSave, At, Locals, Issued
  <2>3. CASE RenewRevoke(c)
    <3>1. /\ op[c].id \in TicketIds /\ op[c].seen \in Tickets /\ CopyOf(op[c].seen, op[c].id)
          /\ SaveTicket(op[c].id, Revoked(op[c].seen)) /\ UNCHANGED spent
      BY <2>3, <1>known DEF RenewRevoke, At, Locals, Pointed, Pointing, RenewSteps
    <3> QED
      BY <3>1, RevokedCopy
  <2> QED
    BY <1>3, <2>1, <2>2, <2>3 DEF RenewStep, TicketStep
<1>4. ASSUME NEW c \in Clients, ConsumeStep(c) PROVE TicketStep
  <2>1. \/ ConsumePolicy(c) \/ ConsumeCheck(c) \/ ConsumeLoad(c) \/ Show(c) \/ Return(c)
        \/ \E t \in TicketIds, r \in Requests : ConsumeRead(c, t, r)
        => Kept
    BY DEF ConsumePolicy, ConsumeCheck, ConsumeLoad, Show, Return, ConsumeRead, Kept, tables
  <2>2. CASE ConsumeSave(c)
    <3>1. /\ op[c].id \in TicketIds /\ op[c].seen \in Tickets
          /\ ~op[c].seen.revoked /\ op[c].seen.left > 0
      BY <2>2, <1>known DEF ConsumeSave, At, Locals, UseSteps
    <3>2. Kept \/ UsedOnce(op[c].id)
      BY <2>2, <3>1 DEF ConsumeSave, Kept, UsedOnce
    <3> QED
      BY <3>1, <3>2 DEF TicketStep
  <2> QED
    BY <1>4, <2>1, <2>2 DEF ConsumeStep, TicketStep
<1>5. ASSUME NEW c \in Clients, RevokeStep(c) PROVE TicketStep
  <2>1. (\E t \in TicketIds : RevokeRead(c, t)) \/ LockdownRead(c) \/ LockdownEnd(c) => Kept
    BY DEF RevokeRead, LockdownRead, LockdownEnd, Kept, tables
  <2>2. CASE RevokeSave(c)
    <3>1. /\ op[c].id \in TicketIds /\ op[c].seen \in Tickets /\ CopyOf(op[c].seen, op[c].id)
          /\ SaveTicket(op[c].id, Revoked(op[c].seen)) /\ UNCHANGED spent
      BY <2>2, <1>known DEF RevokeSave, At, Locals, Pointed, Pointing
    <3> QED
      BY <3>1, RevokedCopy
  <2>3. ASSUME NEW t \in TicketIds, LockdownSave(c, t) PROVE TicketStep
    <3>1. op[c].list \in [TicketIds -> Tickets \cup {NoTicket}] /\ op[c].list[t] # NoTicket
      BY <2>3, <1>known DEF LockdownSave, At, Locals
    <3>2. /\ op[c].list[t] \in Tickets /\ CopyOf(op[c].list[t], t)
          /\ SaveTicket(t, Revoked(op[c].list[t])) /\ UNCHANGED spent
      BY <2>3, <3>1 DEF LockdownSave, At, Pointed
    <3> QED
      BY <3>2, RevokedCopy
  <2> QED
    BY <1>5, <2>1, <2>2, <2>3 DEF RevokeStep, TicketStep
<1>6. (\E t \in TicketIds : Expire(t)) \/ UNCHANGED vars => Kept
  BY DEF Expire, vars, Kept, tables
<1> QED
  BY <1>1, <1>2, <1>3, <1>4, <1>5, <1>6 DEF Next, TicketStep

\* A ticket stays what it is, and once revoked stays revoked.
LEMMA TicketsStay ==
  ASSUME Typed, TicketStep, NEW t \in TicketIds, ~Unused(t)
  PROVE  /\ ~Unused(t)' /\ SameIssue(tickets'[t], tickets[t])
         /\ tickets[t].revoked => tickets'[t].revoked
<1>1. tickets \in [TicketIds -> Tickets \cup {NoTicket}]
  BY DEF Typed, TypeOK
<1>2. CASE Kept
  BY <1>2 DEF Kept, Unused, SameIssue
<1>3. ASSUME NEW u \in TicketIds, Issued(u) PROVE t # u /\ tickets'[t] = tickets[t]
  BY <1>1, <1>3 DEF Issued, SaveTicket, Unused
<1>4. ASSUME NEW u \in TicketIds, RevokedAsCopy(u)
      PROVE  /\ ~Unused(t)' /\ SameIssue(tickets'[t], tickets[t])
             /\ tickets[t].revoked => tickets'[t].revoked
  <2>1. PICK x \in Tickets : CopyOf(x, u) /\ x.revoked /\ SaveTicket(u, x)
    BY <1>4 DEF RevokedAsCopy
  <2>2. x # NoTicket
    BY NoTicketAssumption
  <2> QED
    BY <1>1, <2>1, <2>2 DEF SaveTicket, CopyOf, Unused, SameIssue
<1>5. ASSUME NEW u \in TicketIds, UsedOnce(u)
      PROVE  /\ ~Unused(t)' /\ SameIssue(tickets'[t], tickets[t])
             /\ tickets[t].revoked => tickets'[t].revoked
  <2> DEFINE x == [tickets[u] EXCEPT !.left = @ - 1]
  <2>1. x \in Tickets /\ SameIssue(x, tickets[u])
    BY <1>5 DEF UsedOnce, SameIssue, Tickets
  <2>2. x # NoTicket
    BY <2>1, NoTicketAssumption
  <2> QED
    BY <1>1, <1>5, <2>1, <2>2 DEF UsedOnce, SaveTicket, SameIssue, Unused
<1> QED
  BY <1>2, <1>3, <1>4, <1>5 DEF TicketStep, SameIssue, Unused

LEMMA InitPointed == Init => Pointed
<1>1. Idle.at \notin Pointing /\ Idle.at # "lockdown"
  BY DEF Idle, Pointing, UseSteps, RenewSteps
<1> QED
  BY <1>1 DEF Init, Pointed

LEMMA NextPointed ==
  ASSUME Typed, Pointed, [Next]_vars
  PROVE  Pointed'
<1>1. /\ TicketStep /\ \A c \in Clients : Follows(c)
      /\ \A c \in Clients : Locals(op[c])
      /\ tickets \in [TicketIds -> Tickets \cup {NoTicket}]
  BY NextTickets, NextFollows DEF Typed, TypeOK
<1>2. ASSUME NEW t \in TicketIds, NEW x, CopyOf(x, t) PROVE CopyOf(x, t)'
  BY <1>1, <1>2, TicketsStay DEF CopyOf, SameIssue
<1>3. ASSUME NEW c \in Clients, op'[c].at \in Pointing PROVE CopyOf(op[c].seen, op[c].id)'
  <2>1. CASE op'[c].id \in TicketIds /\ ~Unused(op'[c].id) /\ op'[c].seen = tickets[op'[c].id]
    <3>1. CopyOf(op'[c].seen, op'[c].id)
      BY <2>1 DEF CopyOf, SameIssue
    <3>2. \A t \in TicketIds : \A x : CopyOf(x, t) => ~(tickets'[t] = NoTicket) /\ SameIssue(x, tickets'[t])
      BY <1>2 DEF CopyOf, Unused
    <3> QED
      BY <2>1, <3>1, <3>2 DEF CopyOf, Unused
  <2>2. CASE op[c].at \in Pointing /\ op'[c].id = op[c].id /\ op'[c].seen = op[c].seen
    <3>1. op[c].id \in TicketIds /\ CopyOf(op[c].seen, op[c].id)
      BY <1>1, <2>2 DEF Locals, Pointed, Pointing
    <3>2. \A t \in TicketIds : \A x : CopyOf(x, t) => ~(tickets'[t] = NoTicket) /\ SameIssue(x, tickets'[t])
      BY <1>2 DEF CopyOf, Unused
    <3> QED
      BY <2>2, <3>1, <3>2 DEF CopyOf, Unused
  <2> QED
    BY <1>1, <1>3, <2>1, <2>2 DEF Follows
<1>4. ASSUME NEW c \in Clients, op'[c].at = "lockdown",
             NEW t \in TicketIds, op'[c].list[t] # NoTicket
      PROVE  CopyOf(op[c].list[t], t)'
  <2>1. CopyOf(op'[c].list[t], t)
    BY <1>1, <1>4 DEF Follows, Pointed, CopyOf, SameIssue, Unused
  <2>2. \A x : CopyOf(x, t) => ~(tickets'[t] = NoTicket) /\ SameIssue(x, tickets'[t])
    BY <1>2 DEF CopyOf, Unused
  <2> QED
    BY <2>1, <2>2 DEF CopyOf, Unused
<1> QED
  BY <1>3, <1>4 DEF Pointed

-------------------------------------------------------------------------------
(* Uses on their way to an answer *)

Answering == {"consume_load", "show", "return"}

\* The step of client c leaves the others alone and does not bring c nearer to an answer.
Aside(c) ==
  /\ \A d \in Clients \ {c} : op'[d] = op[d]
  /\ op'[c].at \notin Answering

LEMMA Asides ==
  ASSUME Typed, NEW c \in Clients,
         \/ SecretStep(c) \/ IssueStep(c) \/ RenewStep(c) \/ ConsumeStep(c)
         \/ RevokeStep(c) \/ RotationStep(c) \/ Crash(c)
  PROVE  Aside(c) \/ GetRead(c) \/ ConsumeSave(c) \/ ConsumeLoad(c) \/ Show(c)
<1> USE DEF Aside, Typed, Goto, Done, Idle, Answering
<1>1. CASE SecretStep(c)
  BY <1>1 DEF SecretStep, PutRead, PutSave, StatusRead, StatusSave, SavePolicy
<1>2. CASE IssueStep(c)
  BY <1>2 DEF IssueStep, IssueRead, IssuePolicy, IssueSave
<1>3. CASE RenewStep(c)
  BY <1>3 DEF RenewStep, RenewRead, RenewPolicy, RenewCheck, RenewIssue, RenewRevoke, RenewSave, Renewing
<1>4. CASE ConsumeStep(c)
  BY <1>4 DEF ConsumeStep, ConsumeRead, ConsumePolicy, ConsumeCheck, Return, Using
<1>5. CASE RevokeStep(c)
  BY <1>5 DEF RevokeStep, RevokeRead, RevokeSave, LockdownRead, LockdownSave, LockdownEnd
<1>6. CASE RotationStep(c)
  BY <1>6 DEF RotationStep, StartRead, StartSave, VerifyRead, PromoteRead, RollbackRead, JobRead,
    VerifySave, PromoteSave, PromoteEnd, RollbackSave, JobSave
<1>7. CASE Crash(c)
  BY <1>7 DEF Crash
<1> QED
  BY <1>1, <1>2, <1>3, <1>4, <1>5, <1>6, <1>7

LEMMA SameHand ==
  ASSUME NEW d \in Clients, op'[d] = op[d]
  PROVE  InHand(d)' = InHand(d)
BY DEF InHand, ByTicket

LEMMA NextHands ==
  ASSUME Typed, [Next]_vars
  PROVE  \/ \A d \in Clients : InHand(d)' \subseteq InHand(d)
         \/ \E c \in Clients, t \in TicketIds :
              /\ UsedOnce(t) /\ InHand(c)' = {<<t, tickets[t].left>>}
              /\ \A d \in Clients \ {c} : InHand(d)' = InHand(d)
<1>1. ASSUME NEW c \in Clients, Aside(c) PROVE \A d \in Clients : InHand(d)' \subseteq InHand(d)
  <2>1. InHand(c)' = {}
    BY <1>1 DEF Aside, Answering, InHand, ByTicket
  <2>2. \A d \in Clients \ {c} : InHand(d)' = InHand(d)
    BY <1>1, SameHand DEF Aside
  <2> QED
    BY <2>1, <2>2
<1>2. ASSUME NEW c \in Clients, GetRead(c) \/ ConsumeLoad(c) \/ Show(c)
      PROVE  \A d \in Clients : InHand(d)' \subseteq InHand(d)
  <2>1. \A d \in Clients \ {c} : op'[d] = op[d]
    BY <1>2 DEF GetRead, ConsumeLoad, Show, Goto, Done, Typed
  <2>2. CASE GetRead(c)
    <3>1. op'[c] = Idle \/ op'[c] = [at |-> "show", by |-> <<NoTicket, Latest>>, data |-> versions[Latest].data]
      BY <2>2 DEF GetRead, Goto, Done, Typed
    <3>2. InHand(c)' = {}
      BY <3>1, SentinelAssumption DEF InHand, ByTicket, Idle
    <3> QED
      BY <2>1, <3>2, SameHand
  <2>3. CASE ConsumeLoad(c)
    <3>1. \/ op'[c] = Idle
          \/ op'[c] = [at |-> "show", by |-> <<op[c].id, op[c].seen.left>>,
                       data |-> versions[op[c].seen.version].data]
      BY <2>3 DEF ConsumeLoad, Goto, Done, Typed
    <3>2. InHand(c)' \subseteq {<<op[c].id, op[c].seen.left>>}
      BY <3>1 DEF InHand, ByTicket, Idle
    <3>3. InHand(c) = {<<op[c].id, op[c].seen.left>>}
      BY <2>3 DEF ConsumeLoad, At, InHand
    <3> QED
      BY <2>1, <3>2, <3>3, SameHand
  <2>4. CASE Show(c)
    <3>1. op'[c] = [at |-> "return", by |-> op[c].by, data |-> op[c].data] /\ op[c].at = "show"
      BY <2>4 DEF Show, At, Goto, Typed
    <3>2. InHand(c)' = InHand(c)
      BY <3>1 DEF InHand, ByTicket
    <3> QED
      BY <2>1, <3>2, SameHand
  <2> QED
    BY <1>2, <2>2, <2>3, <2>4
<1>3. ASSUME NEW c \in Clients, ConsumeSave(c)
      PROVE  \/ \A d \in Clients : InHand(d)' \subseteq InHand(d)
             \/ \E t \in TicketIds :
                  /\ UsedOnce(t) /\ InHand(c)' = {<<t, tickets[t].left>>}
                  /\ \A d \in Clients \ {c} : InHand(d)' = InHand(d)
  <2>1. \A d \in Clients \ {c} : InHand(d)' = InHand(d)
    BY <1>3, SameHand DEF ConsumeSave, Goto, Done, Typed
  <2>2. CASE Done(c)
    <3>1. InHand(c)' = {}
      BY <2>2 DEF Done, Goto, Typed, InHand, ByTicket, Idle
    <3> QED
      BY <2>1, <3>1
  <2>3. CASE ~Done(c)
    <3>1. /\ op[c].id \in TicketIds /\ op[c].seen \in Tickets
          /\ ~op[c].seen.revoked /\ op[c].seen.left > 0
      BY <1>3, Known DEF ConsumeSave, At, Locals, UseSteps
    <3>2. UsedOnce(op[c].id) /\ tickets[op[c].id] = op[c].seen
      BY <1>3, <2>3, <3>1 DEF ConsumeSave, UsedOnce
    <3>3. op'[c] = Using(c, "consume_load")
      BY <1>3, <2>3 DEF ConsumeSave, Goto, Typed
    <3>4. InHand(c)' = {<<op[c].id, op[c].seen.left>>}
      BY <3>3 DEF InHand, Using
    <3> QED
      BY <2>1, <3>1, <3>2, <3>4
  <2> QED
    BY <2>2, <2>3
<1>4. (\E t \in TicketIds : Expire(t)) \/ UNCHANGED vars => \A d \in Clients : InHand(d)' = InHand(d)
  BY SameHand DEF Expire, vars
<1> QED
  BY <1>1, <1>2, <1>3, <1>4, Asides DEF Next

\* The steps after which a client is in the middle of a lockdown.
LEMMA LockdownSteps ==
  ASSUME Typed, [Next]_vars, NEW c \in Clients, op'[c].at = "lockdown"
  PROVE  op'[c] = op[c] \/ LockdownRead(c) \/ \E t \in TicketIds : LockdownSave(c, t)
<1> USE DEF Typed, Goto, Done, Idle
<1>1. ASSUME NEW d \in Clients, SecretStep(d) \/ IssueStep(d) \/ Crash(d)
      PROVE  op'[c] = op[c] \/ op'[c].at # "lockdown"
  BY <1>1 DEF SecretStep, PutRead, PutSave, GetRead, StatusRead, StatusSave, SavePolicy,
    IssueStep, IssueRead, IssuePolicy, IssueSave, Crash
<1>2. ASSUME NEW d \in Clients, RenewStep(d) \/ ConsumeStep(d)
      PROVE  op'[c] = op[c] \/ op'[c].at # "lockdown"
  BY <1>2 DEF RenewStep, RenewRead, RenewPolicy, RenewCheck, RenewIssue, RenewRevoke, RenewSave, Renewing,
    ConsumeStep, ConsumeRead, ConsumePolicy, ConsumeCheck, ConsumeSave, ConsumeLoad, Show, Return, Using
<1>3. ASSUME NEW d \in Clients, RotationStep(d)
      PROVE  op'[c] = op[c] \/ op'[c].at # "lockdown"
  BY <1>3 DEF RotationStep, StartRead, StartSave, VerifyRead, PromoteRead, RollbackRead, JobRead,
    VerifySave, PromoteSave, PromoteEnd, RollbackSave, JobSave
<1>4. ASSUME NEW d \in Clients, RevokeStep(d)
      PROVE  op'[c] = op[c] \/ LockdownRead(c) \/ \E t \in TicketIds : LockdownSave(c, t)
  <2>1. CASE d = c
    BY <1>4, <2>1 DEF RevokeStep, RevokeRead, RevokeSave, LockdownEnd
  <2>2. CASE d # c
    BY <1>4, <2>2 DEF RevokeStep, RevokeRead, RevokeSave, LockdownEnd, LockdownRead, LockdownSave
  <2> QED
    BY <2>1, <2>2
<1>5. (\E t \in TicketIds : Expire(t)) \/ UNCHANGED vars => op'[c] = op[c]
  BY DEF Expire, vars
<1> QED
  BY <1>1, <1>2, <1>3, <1>4, <1>5 DEF Next

(* The books are kept *)

\* Every use made is above what the ticket is still good for, so the next one is new.
SpentAbove == \A u \in spent : ~Unused(u[1]) /\ Good(u[1]) < u[2]

\* What a client is about to answer for has been taken off.
HandsSpent == \A c \in Clients : InHand(c) \subseteq spent

Books == SpentAbove /\ HandsSpent /\ OneAnswerPerUse /\ LockdownSticks

LEMMA GoodType ==
  ASSUME Typed, NEW t \in TicketIds
  PROVE  Good(t) \in Nat
BY DEF Typed, TypeOK, Good, Unused, Tickets

\* What becomes of the uses a ticket is good for.
LEMMA GoodStep ==
  ASSUME Typed, TicketStep, NEW t \in TicketIds, ~Unused(t)
  PROVE  \/ Good(t)' = Good(t) \/ Good(t)' = 0
         \/ UsedOnce(t) /\ Good(t)' = Good(t) - 1 /\ Good(t) = tickets[t].left
<1>1. tickets \in [TicketIds -> Tickets \cup {NoTicket}]
  BY DEF Typed, TypeOK
<1>2. CASE tickets'[t] = tickets[t]
  BY <1>2 DEF Good, Unused
<1>3. CASE tickets'[t] # tickets[t]
  <2>1. ~Issued(t) /\ ~Kept
    BY <1>3 DEF Issued, Kept
  <2>2. \A u \in TicketIds : Issued(u) \/ RevokedAsCopy(u) \/ UsedOnce(u) => u = t
    BY <1>1, <1>3 DEF Issued, RevokedAsCopy, UsedOnce, SaveTicket
  <2>3. CASE RevokedAsCopy(t)
    BY <1>1, <2>3 DEF RevokedAsCopy, SaveTicket, Good, Unused
  <2>4. CASE UsedOnce(t)
    <3> DEFINE x == [tickets[t] EXCEPT !.left = @ - 1]
    <3>1. x \in Tickets /\ x.left = tickets[t].left - 1 /\ ~x.revoked /\ tickets'[t] = x
      BY <1>1, <2>4 DEF UsedOnce, SaveTicket, Tickets
    <3>2. x # NoTicket
      BY <3>1, NoTicketAssumption
    <3> QED
      BY <2>4, <3>1, <3>2 DEF UsedOnce, Good, Unused
  <2> QED
    BY <2>1, <2>2, <2>3, <2>4 DEF TicketStep
<1> QED
  BY <1>2, <1>3

LEMMA NextSpent ==
  ASSUME Typed, SpentAbove, TicketStep
  PROVE  SpentAbove' /\ spent \subseteq spent'
<1>1. spent \subseteq TicketIds \X Nat
  BY DEF Typed, TypeOK
<1>2. spent \subseteq spent' /\ \A u \in spent' \ spent :
        \E t \in TicketIds : UsedOnce(t) /\ u = <<t, tickets[t].left>>
  BY DEF TicketStep, Kept, Issued, RevokedAsCopy, UsedOnce
<1>3. ASSUME NEW u \in spent
      PROVE  ~(tickets'[u[1]] = NoTicket) /\ Good(u[1])' < u[2]
  <2>1. u[1] \in TicketIds /\ u[2] \in Nat /\ ~Unused(u[1]) /\ Good(u[1]) < u[2]
    BY <1>1 DEF SpentAbove
  <2>2. Good(u[1]) \in Nat
    BY <2>1, GoodType
  <2>3. ~Unused(u[1])'
    BY <2>1, TicketsStay
  <2>4. Good(u[1])' = Good(u[1]) \/ Good(u[1])' = 0 \/ Good(u[1])' = Good(u[1]) - 1
    BY <2>1, GoodStep
  <2> QED
    BY <2>1, <2>2, <2>3, <2>4 DEF Unused
<1>4. ASSUME NEW t \in TicketIds, UsedOnce(t)
      PROVE  ~(tickets'[t] = NoTicket) /\ Good(t)' < tickets[t].left
  <2>1. ~Unused(t) /\ tickets[t].left \in Nat /\ tickets[t].left > 0
    BY <1>4, NoTicketAssumption DEF UsedOnce, Unused, Tickets
  <2>2. Good(t) = tickets[t].left
    BY <1>4, <2>1 DEF UsedOnce, Good
  <2> DEFINE x == [tickets[t] EXCEPT !.left = @ - 1]
  <2> tickets \in [TicketIds -> Tickets \cup {NoTicket}]
    BY DEF Typed, TypeOK
  <2>3. x \in Tickets /\ x.left = tickets[t].left - 1 /\ ~x.revoked /\ tickets'[t] = x
    BY <1>4, <2>1 DEF UsedOnce, SaveTicket, Tickets
  <2>4. x # NoTicket
    BY <2>3, NoTicketAssumption
  <2> QED
    BY <2>1, <2>3, <2>4 DEF Good, Unused
<1> QED
  BY <1>2, <1>3, <1>4 DEF SpentAbove, Unused

LEMMA NextBooks ==
  ASSUME Typed, Pointed, Books, [Next]_vars
  PROVE  Books'
<1>1. TicketStep /\ SpentAbove' /\ spent \subseteq spent'
  BY NextTickets, NextSpent DEF Books
<1>2. \A t \in TicketIds : UsedOnce(t) => <<t, tickets[t].left>> \in spent' \ spent
  <2> SUFFICES ASSUME NEW t \in TicketIds, UsedOnce(t) PROVE <<t, tickets[t].left>> \in spent' \ spent
    OBVIOUS
  <2>1. ~Unused(t) /\ tickets[t].left \in Nat
    BY NoTicketAssumption DEF UsedOnce, Unused, Tickets
  <2>2. Good(t) = tickets[t].left
    BY <2>1 DEF UsedOnce, Good
  <2> QED
    BY <2>1, <2>2 DEF UsedOnce, Books, SpentAbove
<1>3. HandsSpent' /\ OneAnswerPerUse'
  <2>1. CASE \A d \in Clients : InHand(d)' \subseteq InHand(d)
    BY <1>1, <2>1 DEF Books, HandsSpent, OneAnswerPerUse
  <2>2. ASSUME NEW c \in Clients, NEW t \in TicketIds, UsedOnce(t),
               InHand(c)' = {<<t, tickets[t].left>>},
               \A d \in Clients \ {c} : InHand(d)' = InHand(d)
        PROVE  HandsSpent' /\ OneAnswerPerUse'
    BY <1>1, <1>2, <2>2 DEF Books, HandsSpent, OneAnswerPerUse
  <2> QED
    BY <2>1, <2>2, NextHands
<1>4. LockdownSticks'
  <2> SUFFICES ASSUME NEW c \in Clients, op'[c].at = "lockdown",
                      NEW t \in TicketIds \ op'[c].todo, op'[c].list[t] # NoTicket
               PROVE  tickets'[t].revoked
    BY DEF LockdownSticks
  <2>1. CASE op'[c] = op[c]
    <3>1. CopyOf(op[c].list[t], t) /\ tickets[t].revoked
      BY <2>1 DEF Pointed, Books, LockdownSticks
    <3> QED
      BY <1>1, <3>1, TicketsStay DEF CopyOf
  <2>2. CASE LockdownRead(c)
    <3>1. op'[c].list = tickets /\ tickets' = tickets
          /\ op'[c].todo = {u \in TicketIds : tickets[u] # NoTicket /\ ~tickets[u].revoked}
      BY <2>2 DEF LockdownRead, Goto, Typed, tables
    <3> QED
      BY <3>1
  <2>3. ASSUME NEW u \in TicketIds, LockdownSave(c, u) PROVE tickets'[t].revoked
    <3>1. /\ op'[c] = [at |-> "lockdown", list |-> op[c].list, todo |-> op[c].todo \ {u}]
          /\ op[c].at = "lockdown" /\ u \in op[c].todo
          /\ SaveTicket(u, Revoked(op[c].list[u]))
      BY <2>3 DEF LockdownSave, At, Goto, Typed
    <3>2. CASE t = u
      <4>1. op[c].list \in [TicketIds -> Tickets \cup {NoTicket}] /\ op[c].list[u] # NoTicket
        BY <3>1, Known DEF Locals
      <4>2. Revoked(op[c].list[u]).revoked
        BY <4>1, RevokedType
      <4> QED
        BY <3>1, <3>2, <4>2 DEF SaveTicket, Typed, TypeOK
    <3>3. CASE t # u
      <4>1. t \notin op[c].todo /\ op[c].list[t] # NoTicket
        BY <3>1, <3>3
      <4>2. CopyOf(op[c].list[t], t) /\ tickets[t].revoked
        BY <3>1, <4>1 DEF Pointed, Books, LockdownSticks
      <4> QED
        BY <1>1, <4>2, TicketsStay DEF CopyOf
    <3> QED
      BY <3>2, <3>3
  <2>4. op'[c] = op[c] \/ LockdownRead(c) \/ \E u \in TicketIds : LockdownSave(c, u)
    BY LockdownSteps
  <2> QED
    BY <2>1, <2>2, <2>3, <2>4
<1> QED
  BY <1>1, <1>3, <1>4 DEF Books

-------------------------------------------------------------------------------
(* The ticket store is a TicketBook *)

LEMMA InitBook == Init => Book!BookInit
BY DEF Init, Book!BookInit, Unused, Good

LEMMA NextBook ==
  ASSUME Typed, Typed', Books, TicketStep
  PROVE  [Book!BookNext]_(Book!bookVars)
<1> DEFINE issued == {t \in TicketIds : ~Unused(t)}
           good == [t \in TicketIds |-> Good(t)]
<1>1. tickets \in [TicketIds -> Tickets \cup {NoTicket}]
  BY DEF Typed, TypeOK
<1>2. \A t \in TicketIds : Good(t) \in Nat /\ Good(t)' \in Nat
  <2>1. \A t \in TicketIds : Good(t) \in Nat
    BY GoodType
  <2>2. \A t \in TicketIds : Good(t)' \in Nat
    BY DEF Typed, TypeOK, Good, Unused, Tickets
  <2> QED
    BY <2>1, <2>2
<1>others. \A t, u \in TicketIds : tickets'[u] = tickets[u] =>
             Good(u)' = Good(u) /\ (Unused(u)' <=> Unused(u))
  BY DEF Good, Unused
<1>3. CASE Kept
  BY <1>3 DEF Kept, Book!bookVars, Good, Unused
<1>4. ASSUME NEW t \in TicketIds, Issued(t) PROVE Book!BookNext
  <2>1. PICK x \in Tickets : tickets' = [tickets EXCEPT ![t] = x] /\ x # NoTicket
    BY <1>4, NoTicketAssumption DEF Issued, SaveTicket, Fresh
  <2>2. t \notin issued /\ issued' = issued \cup {t}
    BY <1>1, <1>4, <2>1 DEF Issued, Unused
  <2>3. good'[t] \in Nat /\ good' = [good EXCEPT ![t] = good'[t]]
    BY <1>1, <1>2, <1>others, <2>1
  <2>4. Book!Issue(t)
    BY <1>4, <2>2, <2>3 DEF Book!Issue, Issued
  <2> QED
    BY <2>4 DEF Book!BookNext
<1>5. ASSUME NEW t \in TicketIds, RevokedAsCopy(t) PROVE Book!BookNext
  <2>1. PICK x \in Tickets : tickets' = [tickets EXCEPT ![t] = x] /\ x # NoTicket
                              /\ x.revoked /\ ~Unused(t)
    BY <1>5, NoTicketAssumption DEF RevokedAsCopy, SaveTicket, CopyOf
  <2>2. t \in issued /\ issued' = issued
    BY <1>1, <2>1 DEF Unused
  <2>3. Good(t)' = 0
    BY <1>1, <2>1 DEF Good, Unused
  <2>4. good' = [good EXCEPT ![t] = 0]
    BY <1>1, <1>others, <2>1, <2>3
  <2>5. Book!Revoke(t)
    BY <1>5, <2>2, <2>4 DEF Book!Revoke, RevokedAsCopy
  <2> QED
    BY <2>5 DEF Book!BookNext
<1>6. ASSUME NEW t \in TicketIds, UsedOnce(t) PROVE Book!BookNext
  <2> DEFINE x == [tickets[t] EXCEPT !.left = @ - 1]
  <2>1. ~Unused(t) /\ tickets[t].left \in Nat /\ tickets[t].left > 0
    BY <1>6, NoTicketAssumption DEF UsedOnce, Unused, Tickets
  <2>2. x \in Tickets /\ x.left = tickets[t].left - 1 /\ ~x.revoked
        /\ tickets' = [tickets EXCEPT ![t] = x]
    BY <1>6, <2>1 DEF UsedOnce, SaveTicket, Tickets
  <2>3. x # NoTicket
    BY <2>2, NoTicketAssumption
  <2>4. Good(t) = tickets[t].left /\ Good(t)' = Good(t) - 1
    BY <1>1, <1>6, <2>1, <2>2, <2>3 DEF UsedOnce, Good, Unused
  <2>5. issued' = issued
    BY <1>1, <2>1, <2>2, <2>3 DEF Unused
  <2>6. good' = [good EXCEPT ![t] = @ - 1]
    BY <1>1, <1>others, <2>2, <2>4
  <2>7. spent' = spent \cup {<<t, good[t]>>} /\ good[t] > 0
    BY <1>6, <2>1, <2>4 DEF UsedOnce
  <2>8. <<t, good[t]>> \notin spent
    BY <1>2 DEF Books, SpentAbove
  <2>9. Book!Use(t)
    BY <2>5, <2>6, <2>7, <2>8 DEF Book!Use
  <2> QED
    BY <2>9 DEF Book!BookNext
<1> QED
  BY <1>3, <1>4, <1>5, <1>6 DEF TicketStep

LEMMA InitBooks == Init => Books
<1>1. Idle.at # "lockdown" /\ Idle.at \notin Answering
  BY DEF Idle, Answering
<1>2. Init => \A c \in Clients : op[c] = Idle /\ InHand(c) = {}
  BY <1>1 DEF Init, InHand, ByTicket, Answering
<1> QED
  BY <1>1, <1>2 DEF Init, Books, SpentAbove, HandsSpent, OneAnswerPerUse, LockdownSticks

LEMMA AlwaysBooks == Spec => [](Typed /\ Pointed /\ Books)
<1>1. Init => Typed /\ Pointed /\ Books
  BY InitTyped, InitPointed, InitBooks
<1>2. Typed /\ Pointed /\ Books /\ [Next]_vars => (Typed /\ Pointed /\ Books)'
  BY NextTyped, NextPointed, NextBooks
<1> QED
  BY <1>1, <1>2, PTL DEF Spec

\* Two clients never answer for the same use of a ticket, however many there are.
THEOREM UsesAnsweredOnce == Spec => []OneAnswerPerUse
<1>1. Books => OneAnswerPerUse
  BY DEF Books
<1> QED
  BY <1>1, AlwaysBooks, PTL

\* What a lockdown has revoked stays revoked.
THEOREM LockdownHolds == Spec => []LockdownSticks
<1>1. Books => LockdownSticks
  BY DEF Books
<1> QED
  BY <1>1, AlwaysBooks, PTL

\* The ticket store implements the abstract book of tickets: consume's comparison and the
\* plain saves of revoked copies never give a use back nor undo a revocation.
THEOREM BookImplemented == Spec => ImplementsBook
<1>1. Init => Book!BookInit
  BY InitBook
<1>2. Typed /\ Pointed /\ Books /\ [Next]_vars /\ Typed' => [Book!BookNext]_(Book!bookVars)
  BY NextTickets, NextBook
<1> QED
  BY <1>1, <1>2, AlwaysBooks, PTL DEF Spec, ImplementsBook, Book!BookSpec

-------------------------------------------------------------------------------
(* Answers and versions *)

\* An operation that is about to return has its event in the trail.
Audited ==
  /\ \A c \in Clients : op[c].at = "return" => op[c].by \in audit
  /\ ReleasesAreAccounted

LEMMA Tables ==
  ASSUME [Next]_vars
  PROVE  /\ audit \subseteq audit'
         /\ shown' = shown \/ \E c \in Clients : Return(c)
<1> DEFINE Grows == audit \subseteq audit' /\ (shown' = shown \/ \E c \in Clients : Return(c))
<1> USE DEF tables
<1>1. ASSUME NEW c \in Clients, SecretStep(c) \/ IssueStep(c) \/ Crash(c) PROVE Grows
  BY <1>1 DEF Crash, SecretStep, PutRead, PutSave, GetRead, StatusRead, StatusSave, SavePolicy,
    IssueStep, IssueRead, IssuePolicy, IssueSave
<1>2. ASSUME NEW c \in Clients, RenewStep(c) \/ RevokeStep(c) PROVE Grows
  BY <1>2 DEF RenewStep, RenewRead, RenewPolicy, RenewCheck, RenewIssue, RenewRevoke, RenewSave,
    RevokeStep, RevokeRead, RevokeSave, LockdownRead, LockdownSave, LockdownEnd
<1>3. ASSUME NEW c \in Clients, ConsumeStep(c) PROVE Grows
  <2>1. CASE Return(c)
    BY <2>1 DEF Return
  <2>2. CASE ~Return(c)
    BY <1>3, <2>2 DEF ConsumeStep, ConsumeRead, ConsumePolicy, ConsumeCheck, ConsumeSave, ConsumeLoad, Show
  <2> QED
    BY <2>1, <2>2
<1>4. ASSUME NEW c \in Clients, RotationStep(c) PROVE Grows
  BY <1>4 DEF RotationStep, StartRead, StartSave, VerifyRead, PromoteRead, RollbackRead, JobRead,
    VerifySave, PromoteSave, PromoteEnd, RollbackSave, JobSave
<1>5. (\E t \in TicketIds : Expire(t)) \/ UNCHANGED vars => Grows
  BY DEF Expire, vars
<1> QED
  BY <1>1, <1>2, <1>3, <1>4, <1>5 DEF Next

LEMMA ReturnSteps ==
  ASSUME Typed, [Next]_vars, NEW c \in Clients, op'[c].at = "return"
  PROVE  op'[c] = op[c] \/ Show(c)
<1>1. ASSUME NEW d \in Clients, Aside(d) PROVE op'[c] = op[c]
  BY <1>1 DEF Aside, Answering
<1>2. ASSUME NEW d \in Clients, GetRead(d) \/ ConsumeSave(d) \/ ConsumeLoad(d)
      PROVE  op'[c] = op[c]
  BY <1>2 DEF GetRead, ConsumeSave, ConsumeLoad, Using, Typed, Goto, Done, Idle
<1>3. ASSUME NEW d \in Clients \ {c}, Show(d) PROVE op'[c] = op[c]
  BY <1>3 DEF Show, Typed, Goto
<1>4. (\E t \in TicketIds : Expire(t)) \/ UNCHANGED vars => op'[c] = op[c]
  BY DEF Expire, vars
<1> QED
  BY <1>1, <1>2, <1>3, <1>4, Asides DEF Next

LEMMA NextAudited ==
  ASSUME Typed, Pointed, Books, Audited, [Next]_vars
  PROVE  Audited'
<1>1. audit \subseteq audit' /\ spent \subseteq spent'
  BY Tables, NextTickets, NextSpent DEF Books
<1>2. \A c \in Clients : op'[c].at = "return" => op'[c].by \in audit'
  <2> SUFFICES ASSUME NEW c \in Clients, op'[c].at = "return" PROVE op'[c].by \in audit'
    OBVIOUS
  <2>1. CASE op'[c] = op[c]
    BY <1>1, <2>1 DEF Audited
  <2>2. CASE Show(c)
    BY <2>2 DEF Show, Goto, Typed
  <2> QED
    BY <2>1, <2>2, ReturnSteps
<1>3. ReleasesAreAccounted'
  <2>1. CASE shown' = shown
    BY <1>1, <2>1 DEF Audited, ReleasesAreAccounted
  <2>2. ASSUME NEW c \in Clients, Return(c) PROVE ReleasesAreAccounted'
    <3>1. /\ op[c].at = "return" /\ op[c].by \in audit
          /\ shown' = shown \cup {[by |-> op[c].by, data |-> op[c].data]}
      BY <2>2 DEF Return, At, Audited
    <3>2. op[c].by[1] \in TicketIds => op[c].by \in spent
      BY <3>1 DEF Books, HandsSpent, InHand, ByTicket
    <3> QED
      BY <1>1, <3>1, <3>2 DEF Audited, ReleasesAreAccounted
  <2> QED
    BY <2>1, <2>2, Tables
<1> QED
  BY <1>2, <1>3 DEF Audited

LEMMA InitAudited == Init => Audited
BY DEF Init, Audited, ReleasesAreAccounted, Idle

\* Every plaintext that was returned has its event and, if a ticket was presented, its use.
THEOREM ReleasesAccounted == Spec => []ReleasesAreAccounted
<1>1. Typed /\ Pointed /\ Books /\ Audited /\ [Next]_vars => Audited'
  BY NextAudited
<1>2. Audited => ReleasesAreAccounted
  BY DEF Audited
<1> QED
  BY <1>1, <1>2, InitAudited, AlwaysBooks, PTL DEF Spec

\* The steps after which a client has found the secret of a ticket current.
LEMMA CheckSteps ==
  ASSUME Typed, [Next]_vars, NEW c \in Clients, op'[c].at = "consume_save"
  PROVE  op'[c] = op[c] \/ (ConsumeCheck(c) /\ op'[c] = Using(c, "consume_save"))
<1> USE DEF Typed, Goto, Done, Idle
<1>1. ASSUME NEW d \in Clients, SecretStep(d) \/ IssueStep(d) \/ Crash(d)
      PROVE  op'[c] = op[c] \/ op'[c].at # "consume_save"
  BY <1>1 DEF SecretStep, PutRead, PutSave, GetRead, StatusRead, StatusSave, SavePolicy,
    IssueStep, IssueRead, IssuePolicy, IssueSave, Crash
<1>2. ASSUME NEW d \in Clients, RenewStep(d) \/ RevokeStep(d)
      PROVE  op'[c] = op[c] \/ op'[c].at # "consume_save"
  BY <1>2 DEF RenewStep, RenewRead, RenewPolicy, RenewCheck, RenewIssue, RenewRevoke, RenewSave, Renewing,
    RevokeStep, RevokeRead, RevokeSave, LockdownRead, LockdownSave, LockdownEnd
<1>3. ASSUME NEW d \in Clients, RotationStep(d)
      PROVE  op'[c] = op[c] \/ op'[c].at # "consume_save"
  BY <1>3 DEF RotationStep, StartRead, StartSave, VerifyRead, PromoteRead, RollbackRead, JobRead,
    VerifySave, PromoteSave, PromoteEnd, RollbackSave, JobSave
<1>4. ASSUME NEW d \in Clients, ConsumeStep(d)
      PROVE  op'[c] = op[c] \/ (ConsumeCheck(c) /\ op'[c] = Using(c, "consume_save"))
  <2>1. CASE d = c
    BY <1>4, <2>1 DEF ConsumeStep, ConsumeRead, ConsumePolicy, ConsumeCheck, ConsumeSave, ConsumeLoad,
      Show, Return, Using
  <2>2. CASE d # c
    BY <1>4, <2>2 DEF ConsumeStep, ConsumeRead, ConsumePolicy, ConsumeCheck, ConsumeSave, ConsumeLoad,
      Show, Return, Using
  <2> QED
    BY <2>1, <2>2
<1>5. (\E t \in TicketIds : Expire(t)) \/ UNCHANGED vars => op'[c] = op[c]
  BY DEF Expire, vars
<1> QED
  BY <1>1, <1>2, <1>3, <1>4, <1>5 DEF Next

\* The steps after which a client has found the policy unchanged.
LEMMA PassSteps ==
  ASSUME Typed, [Next]_vars, NEW c \in Clients, op'[c].at \in PassedSteps
  PROVE  \/ op[c].at \in PassedSteps /\ op'[c].id = op[c].id
         \/ /\ op[c].at \in {"consume_policy", "renew_policy"} /\ op'[c].id = op[c].id
            /\ PolicyUnchanged(op[c].seen)
<1> DEFINE Goal == \/ op[c].at \in PassedSteps /\ op'[c].id = op[c].id
                   \/ /\ op[c].at \in {"consume_policy", "renew_policy"} /\ op'[c].id = op[c].id
                      /\ PolicyUnchanged(op[c].seen)
<1> USE DEF Typed, Goto, Done, Idle, PassedSteps, At
<1>a. op'[c] = op[c] => Goal
  OBVIOUS
<1>1. ASSUME NEW d \in Clients, SecretStep(d) \/ IssueStep(d) \/ Crash(d) PROVE op'[c] = op[c]
  BY <1>1 DEF SecretStep, PutRead, PutSave, GetRead, StatusRead, StatusSave, SavePolicy,
    IssueStep, IssueRead, IssuePolicy, IssueSave, Crash
<1>2. ASSUME NEW d \in Clients, RevokeStep(d) PROVE op'[c] = op[c]
  BY <1>2 DEF RevokeStep, RevokeRead, RevokeSave, LockdownRead, LockdownSave, LockdownEnd
<1>3. ASSUME NEW d \in Clients, RotationStep(d) PROVE op'[c] = op[c]
  BY <1>3 DEF RotationStep, StartRead, StartSave, VerifyRead, PromoteRead, RollbackRead, JobRead,
    VerifySave, PromoteSave, PromoteEnd, RollbackSave, JobSave
<1>4. ASSUME NEW d \in Clients, RenewStep(d) \/ ConsumeStep(d) PROVE Goal
  <2>1. CASE d # c
    <3>1. op'[c] = op[c]
      BY <1>4, <2>1
      DEF RenewStep, RenewRead, RenewPolicy, RenewCheck, RenewIssue, RenewRevoke, RenewSave,
        ConsumeStep, ConsumeRead, ConsumePolicy, ConsumeCheck, ConsumeSave, ConsumeLoad, Show, Return
    <3> QED
      BY <1>a, <3>1
  <2>2. CASE RenewStep(c)
    BY <2>2 DEF RenewStep, RenewRead, RenewPolicy, RenewCheck, RenewIssue, RenewRevoke, RenewSave, Renewing
  <2>3. CASE ConsumeStep(c)
    BY <2>3 DEF ConsumeStep, ConsumeRead, ConsumePolicy, ConsumeCheck, ConsumeSave, ConsumeLoad,
      Show, Return, Using
  <2> QED
    BY <1>4, <2>1, <2>2, <2>3
<1>5. (\E t \in TicketIds : Expire(t)) \/ UNCHANGED vars => op'[c] = op[c]
  BY DEF Expire, vars
<1> QED
  BY <1>a, <1>1, <1>2, <1>3, <1>4, <1>5 DEF Next

\* Once a newer version is stored, or while the policy is another one, nobody new gets past
\* the check of that with an old ticket, to use it or to renew it (active_policy_for_ticket,
\* ensure_ticket_secret_is_current).
THEOREM StaleRefused == Spec => StaleAdmitsNobody
<1>1. ASSUME Typed, Pointed, [Next]_vars, NEW t \in TicketIds, ~Unused(t), tickets[t].version < Latest,
             NEW c \in Clients, op'[c].at = "consume_save", op'[c].id = t
      PROVE  op[c].at = "consume_save" /\ op[c].id = t
  <2>1. CASE op'[c] = op[c]
    BY <1>1, <2>1
  <2>2. CASE ConsumeCheck(c) /\ op'[c] = Using(c, "consume_save")
    <3>1. /\ op[c].at = "consume_check" /\ op[c].id = t
          /\ op[c].seen.version = Latest
      BY <1>1, <2>2 DEF ConsumeCheck, At, Using, SecretIsCurrent, Goto, Typed, Idle
    <3>2. op[c].seen.version = tickets[t].version
      BY <1>1, <3>1 DEF Pointed, Pointing, UseSteps, CopyOf, SameIssue
    <3>3. Latest \in Nat
      BY <1>1, LenProperties DEF Typed, TypeOK, Latest
    <3> QED
      BY <1>1, <3>1, <3>2, <3>3
  <2> QED
    BY <1>1, <2>1, <2>2, CheckSteps
<1>2. ASSUME Typed, Pointed, [Next]_vars, NEW t \in TicketIds, ~Unused(t), ~PolicyUnchanged(tickets[t]),
             NEW c \in Clients, op'[c].at \in PassedSteps, op'[c].id = t
      PROVE  op[c].at \in PassedSteps /\ op[c].id = t
  <2>1. ASSUME op[c].at \in {"consume_policy", "renew_policy"}, op[c].id = t,
               PolicyUnchanged(op[c].seen)
        PROVE  FALSE
    <3>1. SameIssue(op[c].seen, tickets[t])
      BY <1>2, <2>1 DEF Pointed, Pointing, UseSteps, RenewSteps, CopyOf
    <3> QED
      BY <1>2, <2>1, <3>1 DEF SameIssue, PolicyUnchanged
  <2> QED
    BY <1>2, <2>1, PassSteps
<1>3. Typed /\ Pointed /\ [Next]_vars =>
        [\A t \in TicketIds : ~Unused(t) =>
           /\ tickets[t].version < Latest => Admitted(t)' \subseteq Admitted(t)
           /\ ~PolicyUnchanged(tickets[t]) => PolicyPassed(t)' \subseteq PolicyPassed(t)]_vars
  BY <1>1, <1>2 DEF Admitted, PolicyPassed
<1> QED
  BY <1>3, AlwaysBooks, PTL DEF Spec, StaleAdmitsNobody

-------------------------------------------------------------------------------
(* Rotation: a plaintext that was not verified is in no row *)

\* The plaintext an operation is about to write to a row, a promotion's left out.
Fetched(o) ==
  IF o.at = "put_save" THEN {o.data} ELSE IF o.at = "status_save" THEN {o.record.data} ELSE {}

\* No row has plaintext d, and no operation under way brings it into one.
Unserved(d) ==
  /\ \A v \in 1..Latest : versions[v].data # d
  /\ \A c \in Clients : d \notin Fetched(op[c])

\* A plaintext handed in next is a new one.
Counted ==
  /\ \A v \in 1..Latest : versions[v].data <= writes
  /\ \A c \in Clients : \A d \in Fetched(op[c]) : d <= writes
  /\ \A c \in Clients : op[c].at = "start_save" => op[c].job.data <= writes
  /\ \A j \in JobIds : jobs[j] # NoJob => jobs[j].data <= writes

\* The plaintext of a job that is not stored yet is known to its client alone.
NewJobs ==
  \A c \in Clients : op[c].at = "start_save" =>
    /\ Unserved(op[c].job.data)
    /\ \A j \in JobIds : jobs[j] # NoJob => jobs[j].data # op[c].job.data
    /\ \A d \in Clients \ {c} : op[d].at = "start_save" => op[d].job.data # op[c].job.data

\* A client works on a copy of a stored job, and promotes it only if it was verified.
JobCopies ==
  \A c \in Clients : op[c].at \in JobSteps =>
    /\ jobs[op[c].id] # NoJob /\ jobs[op[c].id].data = op[c].job.data
    /\ op[c].at \in {"promote_save", "promote_end"} => jobs[op[c].id].status # "staged"

OwnData ==
  \A j, k \in JobIds :
    j # k /\ jobs[j] # NoJob /\ jobs[k] # NoJob => jobs[j].data # jobs[k].data

StagedUnserved ==
  \A j \in JobIds : jobs[j] # NoJob /\ jobs[j].status = "staged" => Unserved(jobs[j].data)

Rotation == Counted /\ NewJobs /\ JobCopies /\ OwnData /\ StagedUnserved

\* What a row can be after a save.
LEMMA SavedRows ==
  ASSUME versions \in Seq(Records), NEW v \in Nat \ {0}, NEW r, SaveRecord(v, r)
  PROVE  \A u \in 1..Latest' : versions'[u] = r \/ (u \in 1..Latest /\ versions'[u] = versions[u])
<1>1. Latest \in Nat /\ DOMAIN versions = 1..Latest
  BY LenProperties DEF Latest
<1>2. CASE v <= Latest
  BY <1>1, <1>2, ExceptSeq, LenProperties DEF SaveRecord, Latest
<1>3. CASE ~(v <= Latest)
  BY <1>1, <1>3, AppendProperties DEF SaveRecord, Latest
<1> QED
  BY <1>2, <1>3

\* Client c moves to o and no job changes.  The rows keep their plaintexts, or take in d;
\* what c is now about to write is d, or was in a row.  If d is new it was handed in now,
\* otherwise c knew it already.
LEMMA RowStep ==
  ASSUME Typed, Rotation, NEW c \in Clients, NEW o, Goto(c, o), jobs' = jobs,
         writes \in Nat, writes' \in Nat, writes <= writes', o.at # "start_save",
         o.at \in JobSteps =>
           /\ jobs[o.id] # NoJob /\ jobs[o.id].data = o.job.data
           /\ o.at \in {"promote_save", "promote_end"} => jobs[o.id].status # "staged",
         NEW d \in Nat, d <= writes',
         \A u \in 1..Latest' : versions'[u].data = d
                               \/ (u \in 1..Latest /\ versions'[u].data = versions[u].data),
         \A e \in Fetched(o) : e = d \/ \E u \in 1..Latest : versions[u].data = e,
         \A k \in Clients : op[k].at = "start_save" => op[k].job.data # d,
         \A j \in JobIds : jobs[j] # NoJob /\ jobs[j].status = "staged" => jobs[j].data # d
  PROVE  Rotation'
<1>1. \A k \in Clients : op'[k] = IF k = c THEN o ELSE op[k]
  BY DEF Goto, Typed
<1>typed. /\ versions \in Seq(Records) /\ Latest \in Nat
          /\ \A u \in 1..Latest : versions[u].data \in Nat
          /\ \A j \in JobIds : jobs[j] # NoJob => jobs[j].data \in Nat
          /\ \A k \in Clients : op[k].at = "start_save" => op[k].job.data \in Nat
          /\ \A k \in Clients : \A e \in Fetched(op[k]) : e \in Nat
  <2>1. versions \in Seq(Records) /\ Latest \in Nat
    BY LenProperties DEF Typed, TypeOK, Latest
  <2>2. \A u \in 1..Latest : versions[u] \in Records
    BY <2>1, ElementOfSeq DEF Latest
  <2> QED
    BY <2>1, <2>2 DEF Typed, TypeOK, Locals, Records, Jobs, Fetched
<1>2. Counted'
  <2>1. \A u \in 1..Latest' : versions'[u].data <= writes'
    BY <1>typed DEF Rotation, Counted
  <2>2. ASSUME NEW k \in Clients, NEW e \in Fetched(op'[k]) PROVE e <= writes'
    <3>1. CASE k # c
      <4>1. e \in Fetched(op[k])
        BY <1>1, <2>2, <3>1
      <4>2. e <= writes /\ e \in Nat
        BY <1>typed, <4>1 DEF Rotation, Counted
      <4> QED
        BY <4>2
    <3>2. CASE k = c /\ e = d
      BY <3>2
    <3>3. CASE k = c /\ e # d
      <4>1. PICK u \in 1..Latest : versions[u].data = e
        BY <1>1, <2>2, <3>3
      <4>2. e <= writes /\ e \in Nat
        BY <1>typed, <4>1 DEF Rotation, Counted
      <4> QED
        BY <4>2
    <3> QED
      BY <3>1, <3>2, <3>3
  <2>3. \A k \in Clients : op'[k].at = "start_save" => op'[k].job.data <= writes'
    BY <1>1, <1>typed DEF Rotation, Counted
  <2>4. \A j \in JobIds : jobs'[j] # NoJob => jobs'[j].data <= writes'
    BY <1>typed DEF Rotation, Counted
  <2> QED
    BY <2>1, <2>2, <2>3, <2>4 DEF Counted, Fetched
<1>3. ASSUME NEW e, Unserved(e), e # d PROVE Unserved(e)'
  <2>1. \A u \in 1..Latest' : versions'[u].data # e
    BY <1>3 DEF Unserved
  <2>2. \A k \in Clients : e \notin Fetched(op'[k])
    BY <1>1, <1>3 DEF Unserved
  <2> QED
    BY <2>1, <2>2 DEF Unserved, Fetched
<1>4. NewJobs'
  BY <1>1, <1>3 DEF Rotation, NewJobs
<1>5. JobCopies'
  BY <1>1 DEF Rotation, JobCopies
<1>6. OwnData'
  BY DEF Rotation, OwnData
<1>7. StagedUnserved'
  BY <1>3 DEF Rotation, StagedUnserved
<1> QED
  BY <1>2, <1>4, <1>5, <1>6, <1>7 DEF Rotation

\* Client c ends its operation by saving job x under j: a new job, or one that was there
\* with the same plaintext and is not staged from now on.
LEMMA JobStep ==
  ASSUME Typed, Rotation, NEW c \in Clients, Done(c), NEW j \in JobIds, NEW x \in Jobs,
         SaveJob(j, x), UNCHANGED <<versions, writes>>,
         x.data <= writes,
         \A k \in JobIds \ {j} : jobs[k] # NoJob => jobs[k].data # x.data,
         \A k \in Clients \ {c} : op[k].at = "start_save" => op[k].job.data # x.data,
         x.status = "staged" => Unserved(x.data),
         jobs[j] # NoJob => x.data = jobs[j].data /\ x.status # "staged"
  PROVE  Rotation'
<1>1. /\ \A k \in Clients : op'[k] = IF k = c THEN Idle ELSE op[k]
      /\ Latest' = Latest
  BY DEF Done, Goto, Typed, Latest
<1>2. x # NoJob /\ \A k \in JobIds : jobs'[k] = IF k = j THEN x ELSE jobs[k]
  BY NoJobAssumption DEF SaveJob, Typed, TypeOK
<1>3. Idle.at \notin JobSteps \cup {"start_save"} /\ Fetched(Idle) = {}
  BY DEF Idle, JobSteps, Fetched
<1>4. ASSUME NEW e, Unserved(e) PROVE Unserved(e)'
  <2>1. \A k \in Clients : e \notin Fetched(op'[k])
    BY <1>1, <1>3, <1>4 DEF Unserved
  <2> QED
    BY <1>1, <1>4, <2>1 DEF Unserved, Fetched
<1>5. Counted'
  <2>1. \A k \in Clients : \A e \in Fetched(op'[k]) : e <= writes'
    BY <1>1, <1>3 DEF Rotation, Counted
  <2>2. \A k \in Clients : op'[k].at = "start_save" => op'[k].job.data <= writes'
    BY <1>1, <1>3 DEF Rotation, Counted
  <2>3. \A k \in JobIds : jobs'[k] # NoJob => jobs'[k].data <= writes'
    BY <1>2 DEF Rotation, Counted
  <2>4. \A v \in 1..Latest' : versions'[v].data <= writes'
    BY <1>1 DEF Rotation, Counted
  <2> QED
    BY <2>1, <2>2, <2>3, <2>4 DEF Counted, Fetched
<1>6. NewJobs'
  BY <1>1, <1>2, <1>3, <1>4 DEF Rotation, NewJobs
<1>7. JobCopies'
  <2> SUFFICES ASSUME NEW k \in Clients, op'[k].at \in JobSteps
               PROVE  /\ jobs'[op'[k].id] # NoJob /\ jobs'[op'[k].id].data = op'[k].job.data
                      /\ op'[k].at \in {"promote_save", "promote_end"} =>
                           jobs'[op'[k].id].status # "staged"
    BY DEF JobCopies, JobSteps
  <2>1. op'[k] = op[k] /\ op[k].at \in JobSteps /\ op[k].id \in JobIds
    BY <1>1, <1>3 DEF Typed, Locals
  <2> QED
    BY <1>2, <2>1 DEF Rotation, JobCopies
<1>8. OwnData'
  BY <1>2 DEF Rotation, OwnData
<1>9. StagedUnserved'
  BY <1>2, <1>4 DEF Rotation, StagedUnserved
<1> QED
  BY <1>5, <1>6, <1>7, <1>8, <1>9 DEF Rotation

\* A step of client c that writes no row and no job, and after which it is about to write no
\* row, or has a copy of a stored job.
LEMMA ElsewhereStep ==
  ASSUME Typed, Rotation, NEW c \in Clients, NEW o, Goto(c, o),
         UNCHANGED <<versions, jobs, writes>>,
         o.at \notin {"put_save", "status_save", "start_save"},
         o.at \in JobSteps =>
           /\ jobs[o.id] # NoJob /\ jobs[o.id].data = o.job.data
           /\ o.at \in {"promote_save", "promote_end"} => jobs[o.id].status # "staged"
  PROVE  Rotation'
<1>1. Fetched(o) = {}
  BY DEF Fetched
<1>2. \A k \in Clients : op'[k] = IF k = c THEN o ELSE op[k]
  BY DEF Goto, Typed
<1>3. Latest' = Latest
  BY DEF Latest
<1>4. ASSUME NEW e, Unserved(e) PROVE Unserved(e)'
  <2>1. \A k \in Clients : e \notin Fetched(op'[k])
    BY <1>1, <1>2, <1>4 DEF Unserved
  <2> QED
    BY <1>3, <1>4, <2>1 DEF Unserved, Fetched
<1>5. Counted'
  <2>1. \A k \in Clients : \A e \in Fetched(op'[k]) : e <= writes'
    BY <1>1, <1>2 DEF Rotation, Counted
  <2>2. \A k \in Clients : op'[k].at = "start_save" => op'[k].job.data <= writes'
    BY <1>2 DEF Rotation, Counted
  <2> QED
    BY <1>3, <2>1, <2>2 DEF Rotation, Counted, Fetched
<1>6. NewJobs' /\ StagedUnserved'
  BY <1>2, <1>4 DEF Rotation, NewJobs, StagedUnserved
<1>7. JobCopies' /\ OwnData'
  BY <1>2 DEF Rotation, JobCopies, OwnData
<1> QED
  BY <1>5, <1>6, <1>7 DEF Rotation

\* The operations that write no row and no job.
LEMMA Elsewhere ==
  ASSUME NEW c \in Clients,
         IssueStep(c) \/ RenewStep(c) \/ ConsumeStep(c) \/ RevokeStep(c) \/ Crash(c) \/ GetRead(c)
           \/ \E p \in Policies : SavePolicy(c, p)
  PROVE  /\ UNCHANGED <<versions, jobs, writes>>
         /\ \E o : Goto(c, o) /\ o.at \notin {"put_save", "status_save", "start_save"} \cup JobSteps
<1> DEFINE Goal == /\ UNCHANGED <<versions, jobs, writes>>
                   /\ \E o : /\ Goto(c, o)
                             /\ o.at \notin {"put_save", "status_save", "start_save"} \cup JobSteps
<1>a. UNCHANGED <<versions, jobs, writes>> /\ Done(c) => Goal
  BY DEF Done, Idle, JobSteps
<1>1. CASE IssueStep(c)
  <2>1. ASSUME NEW r \in Requests, IssueRead(c, r) PROVE Goal
    BY <2>1 DEF IssueRead, tables, JobSteps
  <2>2. CASE IssuePolicy(c)
    BY <2>2, <1>a DEF IssuePolicy, tables, JobSteps
  <2>3. ASSUME NEW t \in TicketIds, IssueSave(c, t) PROVE Goal
    BY <2>3, <1>a DEF IssueSave
  <2> QED
    BY <1>1, <2>1, <2>2, <2>3 DEF IssueStep
<1>2. CASE RenewStep(c)
  <2>1. ASSUME NEW t \in TicketIds, NEW r \in Requests, RenewRead(c, t, r) PROVE Goal
    BY <2>1 DEF RenewRead, tables, JobSteps
  <2>2. CASE RenewPolicy(c) \/ RenewCheck(c)
    BY <2>2, <1>a DEF RenewPolicy, RenewCheck, Renewing, Done, tables, JobSteps
  <2>3. CASE RenewIssue(c) \/ RenewRevoke(c)
    BY <2>3 DEF RenewIssue, RenewRevoke, tables, JobSteps
  <2>4. ASSUME NEW t \in TicketIds, RenewSave(c, t) PROVE Goal
    BY <2>4, <1>a DEF RenewSave
  <2> QED
    BY <1>2, <2>1, <2>2, <2>3, <2>4 DEF RenewStep
<1>3. CASE ConsumeStep(c)
  <2>1. ASSUME NEW t \in TicketIds, NEW r \in Requests, ConsumeRead(c, t, r) PROVE Goal
    BY <2>1 DEF ConsumeRead, tables, JobSteps
  <2>2. CASE ConsumePolicy(c) \/ ConsumeCheck(c)
    BY <2>2, <1>a DEF ConsumePolicy, ConsumeCheck, Using, Done, tables, JobSteps
  <2>3. CASE ConsumeSave(c) \/ ConsumeLoad(c)
    BY <2>3, <1>a DEF ConsumeSave, ConsumeLoad, Using, tables, JobSteps
  <2>4. CASE Show(c) \/ Return(c)
    BY <2>4, <1>a DEF Show, Return, tables, JobSteps
  <2> QED
    BY <1>3, <2>1, <2>2, <2>3, <2>4 DEF ConsumeStep
<1>4. CASE RevokeStep(c)
  <2>1. ASSUME NEW t \in TicketIds, RevokeRead(c, t) \/ LockdownSave(c, t) PROVE Goal
    BY <2>1 DEF RevokeRead, LockdownSave, tables, JobSteps
  <2>2. CASE RevokeSave(c) \/ LockdownEnd(c)
    BY <2>2, <1>a DEF RevokeSave, LockdownEnd, tables
  <2>3. CASE LockdownRead(c)
    BY <2>3 DEF LockdownRead, tables, JobSteps
  <2> QED
    BY <1>4, <2>1, <2>2, <2>3 DEF RevokeStep
<1>5. CASE Crash(c) \/ \E p \in Policies : SavePolicy(c, p)
  BY <1>5, <1>a DEF Crash, SavePolicy, tables
<1>6. CASE GetRead(c)
  BY <1>6, <1>a DEF GetRead, tables, JobSteps
<1> QED
  BY <1>1, <1>2, <1>3, <1>4, <1>5, <1>6

LEMMA InitRotation == Init => Rotation
<1> SUFFICES ASSUME Init PROVE Rotation
  OBVIOUS
<1>1. Latest = 0 /\ Idle.at \notin JobSteps \cup {"start_save"} /\ Fetched(Idle) = {}
  BY DEF Init, Latest, Idle, JobSteps, Fetched
<1>2. \A c \in Clients : op[c] = Idle
  BY DEF Init
<1>3. \A j \in JobIds : jobs[j] = NoJob
  BY DEF Init
<1> QED
  BY <1>1, <1>2, <1>3 DEF Rotation, Counted, NewJobs, JobCopies, OwnData, StagedUnserved

\* put, disable and destroy write plaintexts that are no job's.
LEMMA SecretRotation ==
  ASSUME Typed, Rotation, NEW c \in Clients, SecretStep(c)
  PROVE  Rotation'
<1>a. /\ Locals(op[c]) /\ writes \in Nat /\ versions \in Seq(Records) /\ Latest \in Nat
      /\ Latest > 0 => versions[Latest].data \in Nat
  BY LatestRow DEF Typed, TypeOK
<1>b. \A j \in JobIds : jobs[j] # NoJob => jobs[j].data \in Nat /\ jobs[j].data <= writes
  BY DEF Typed, TypeOK, Jobs, Rotation, Counted
<1>c. \A k \in Clients : op[k].at = "start_save" =>
        op[k].job.data \in Nat /\ op[k].job.data <= writes /\ Unserved(op[k].job.data)
  BY DEF Typed, Locals, Jobs, Rotation, Counted, NewJobs
<1>1. CASE PutRead(c)
  <2> DEFINE o == [at |-> "put_save", version |-> Latest + 1, data |-> writes + 1]
  <2>1. /\ Goto(c, o) /\ writes' = writes + 1 /\ versions' = versions /\ jobs' = jobs
        /\ Latest' = Latest
    BY <1>1 DEF PutRead, tables, Latest
  <2>2. o.at \notin JobSteps \cup {"start_save"} /\ Fetched(o) = {writes + 1}
    BY DEF JobSteps, Fetched
  <2>3. writes + 1 \in Nat /\ writes' \in Nat /\ writes <= writes' /\ writes + 1 <= writes'
    BY <1>a, <2>1
  <2>4. \A k \in Clients : op[k].at = "start_save" => op[k].job.data # writes + 1
    BY <1>a, <1>c
  <2>5. \A j \in JobIds : jobs[j] # NoJob => jobs[j].data # writes + 1
    BY <1>a, <1>b
  <2> HIDE DEF o
  <2> QED
    BY <1>a, <2>1, <2>2, <2>3, <2>4, <2>5, RowStep
<1>2. CASE PutSave(c) \/ StatusSave(c)
  <2> DEFINE r == IF op[c].at = "put_save" THEN [status |-> "active", data |-> op[c].data]
                  ELSE op[c].record
             d == r.data
  <2>1. /\ op[c].at \in {"put_save", "status_save"} /\ SaveRecord(op[c].version, r)
        /\ Goto(c, Idle) /\ UNCHANGED <<jobs, writes>>
        /\ op[c].version \in Nat \ {0} /\ r \in Records
    BY <1>2, <1>a DEF PutSave, StatusSave, At, Locals, Records, Done
  <2>2. d \in Nat /\ d \in Fetched(op[c])
    BY <2>1 DEF Records, Fetched
  <2>3. \A u \in 1..Latest' : versions'[u].data = d
                              \/ (u \in 1..Latest /\ versions'[u].data = versions[u].data)
    BY <1>a, <2>1, SavedRows
  <2> HIDE DEF r, d
  <2>4. d <= writes
    BY <2>2 DEF Rotation, Counted
  <2>5. \A k \in Clients : op[k].at = "start_save" => op[k].job.data # d
    BY <1>c, <2>2 DEF Unserved
  <2>6. \A j \in JobIds : jobs[j] # NoJob /\ jobs[j].status = "staged" => jobs[j].data # d
    BY <2>2 DEF Rotation, StagedUnserved, Unserved
  <2>7. Idle.at \notin JobSteps \cup {"start_save"} /\ Fetched(Idle) = {}
    BY DEF Idle, JobSteps, Fetched
  <2>8. writes' \in Nat /\ writes <= writes' /\ d <= writes' /\ jobs' = jobs
    BY <1>a, <2>1, <2>4
  <2> QED
    BY <1>a, <2>1, <2>2, <2>3, <2>5, <2>6, <2>7, <2>8, RowStep
<1>3. ASSUME NEW s \in {"disabled", "destroyed"}, StatusRead(c, s) PROVE Rotation'
  <2> DEFINE d == versions[Latest].data
             o == [at |-> "status_save", version |-> Latest, record |-> [status |-> s, data |-> d]]
  <2>1. /\ Goto(c, o) /\ UNCHANGED <<versions, jobs, writes>> /\ Latest' = Latest
        /\ Latest \in 1..Latest
    BY <1>3, <1>a DEF StatusRead, tables, Latest
  <2>2. o.at \notin JobSteps \cup {"start_save"} /\ Fetched(o) = {d}
    BY DEF JobSteps, Fetched
  <2>3. d \in Nat /\ d <= writes
    BY <1>a, <2>1 DEF Rotation, Counted
  <2>4. \A k \in Clients : op[k].at = "start_save" => op[k].job.data # d
    BY <1>c, <2>1 DEF Unserved
  <2>5. \A j \in JobIds : jobs[j] # NoJob /\ jobs[j].status = "staged" => jobs[j].data # d
    BY <2>1 DEF Rotation, StagedUnserved, Unserved
  <2> HIDE DEF d, o
  <2> QED
    BY <1>a, <2>1, <2>2, <2>3, <2>4, <2>5, RowStep
<1>4. CASE GetRead(c) \/ \E p \in Policies : SavePolicy(c, p)
  BY <1>4, Elsewhere, ElsewhereStep
<1> QED
  BY <1>1, <1>2, <1>3, <1>4 DEF SecretStep

LEMMA RotationRotation ==
  ASSUME Typed, Rotation, NEW c \in Clients, RotationStep(c)
  PROVE  Rotation'
<1>a. Locals(op[c]) /\ writes \in Nat /\ versions \in Seq(Records) /\ Latest \in Nat
  BY LatestRow DEF Typed, TypeOK
<1>b. \A j \in JobIds : jobs[j] # NoJob =>
        jobs[j] \in Jobs /\ jobs[j].data \in Nat /\ jobs[j].data <= writes
  BY DEF Typed, TypeOK, Jobs, Rotation, Counted
<1>c. \A k \in Clients : op[k].at = "start_save" =>
        op[k].job.data \in Nat /\ op[k].job.data <= writes /\ Unserved(op[k].job.data)
  BY DEF Typed, Locals, Jobs, Rotation, Counted, NewJobs
<1>1. CASE StartRead(c)
  <2>1. PICK d \in Nat : d = writes + 1
    BY <1>a
  <2> DEFINE o == [at |-> "start_save",
                   job |-> [version |-> Latest + 1, data |-> d, status |-> "staged"]]
  <2>2. /\ writes' = d /\ UNCHANGED <<versions, jobs>> /\ Latest' = Latest
        /\ \A k \in Clients : op'[k] = IF k = c THEN o ELSE op[k]
    BY <1>1, <2>1 DEF StartRead, tables, Latest, Goto, Typed
  <2>3. o.at = "start_save" /\ o.job.data = d /\ o.at \notin JobSteps /\ Fetched(o) = {}
    BY DEF JobSteps, Fetched
  <2> HIDE DEF o
  <2>4. ASSUME NEW e, Unserved(e) PROVE Unserved(e)'
    <3>1. \A k \in Clients : e \notin Fetched(op'[k])
      BY <2>2, <2>3, <2>4 DEF Unserved
    <3> QED
      BY <2>2, <2>4, <3>1 DEF Unserved, Fetched
  <2>5. /\ \A v \in 1..Latest : versions[v].data \in Nat
        /\ \A k \in Clients : \A e \in Fetched(op[k]) : e \in Nat
    <3>1. \A v \in 1..Latest : versions[v] \in Records
      BY <1>a, ElementOfSeq DEF Latest
    <3> QED
      BY <3>1 DEF Typed, Locals, Records, Fetched
  <2>6. Unserved(d)
    <3>1. /\ \A v \in 1..Latest : versions[v].data <= writes
          /\ \A k \in Clients : \A e \in Fetched(op[k]) : e <= writes
      BY DEF Rotation, Counted
    <3>2. \A e \in Nat : e <= writes => e # d
      BY <1>a, <2>1
    <3> QED
      BY <2>5, <3>1, <3>2 DEF Unserved
  <2>7. Counted'
    <3>1. \A v \in 1..Latest' : versions'[v].data <= writes'
      BY <1>a, <2>1, <2>2, <2>5 DEF Rotation, Counted
    <3>2. ASSUME NEW k \in Clients, NEW e \in Fetched(op'[k]) PROVE e <= writes'
      <4>1. e \in Fetched(op[k])
        BY <2>2, <2>3, <3>2
      <4>2. e <= writes /\ e \in Nat
        BY <2>5, <4>1 DEF Rotation, Counted
      <4> QED
        BY <1>a, <2>1, <2>2, <4>2
    <3>3. \A k \in Clients : op'[k].at = "start_save" => op'[k].job.data <= writes'
      BY <1>a, <1>c, <2>1, <2>2, <2>3
    <3>4. \A j \in JobIds : jobs'[j] # NoJob => jobs'[j].data <= writes'
      BY <1>a, <1>b, <2>1, <2>2
    <3> QED
      BY <3>1, <3>2, <3>3, <3>4 DEF Counted, Fetched
  <2>8. NewJobs'
    <3>1. /\ \A j \in JobIds : jobs[j] # NoJob => jobs[j].data # d
          /\ \A k \in Clients : op[k].at = "start_save" => op[k].job.data # d
      BY <1>a, <1>b, <1>c, <2>1
    <3> QED
      BY <2>2, <2>3, <2>4, <2>6, <3>1 DEF Rotation, NewJobs
  <2>9. JobCopies' /\ OwnData'
    BY <2>2, <2>3 DEF Rotation, JobCopies, OwnData
  <2>10. StagedUnserved'
    BY <2>2, <2>4 DEF Rotation, StagedUnserved
  <2> QED
    BY <2>7, <2>8, <2>9, <2>10 DEF Rotation
<1>2. ASSUME NEW j \in JobIds, StartSave(c, j) PROVE Rotation'
  <2>1. /\ op[c].at = "start_save" /\ jobs[j] = NoJob /\ op[c].job \in Jobs
        /\ SaveJob(j, op[c].job) /\ Done(c) /\ UNCHANGED <<versions, writes>>
    BY <1>2, <1>a DEF StartSave, At, Locals
  <2>2. /\ op[c].job.data <= writes /\ Unserved(op[c].job.data)
        /\ \A k \in JobIds : jobs[k] # NoJob => jobs[k].data # op[c].job.data
        /\ \A k \in Clients \ {c} : op[k].at = "start_save" => op[k].job.data # op[c].job.data
    BY <1>c, <2>1 DEF Rotation, NewJobs
  <2> QED
    BY <2>1, <2>2, JobStep
<1>3. ASSUME NEW j \in JobIds, NEW statuses, NEW step \in JobSteps, JobRead(c, j, statuses, step),
             step \in {"promote_save", "promote_end"} => "staged" \notin statuses
      PROVE  Rotation'
  <2> DEFINE o == [at |-> step, id |-> j, job |-> jobs[j]]
  <2>1. /\ Goto(c, o) /\ UNCHANGED <<versions, jobs, writes>> /\ Latest' = Latest
        /\ jobs[o.id] # NoJob /\ jobs[o.id].data = o.job.data
        /\ o.at \in {"promote_save", "promote_end"} => jobs[o.id].status # "staged"
    BY <1>3 DEF JobRead, tables, Latest
  <2>2. o.at \notin {"put_save", "status_save", "start_save"}
    BY DEF JobSteps
  <2> HIDE DEF o
  <2> QED
    BY <2>1, <2>2, ElsewhereStep
<1>4. ASSUME NEW j \in JobIds, VerifyRead(c, j) \/ PromoteRead(c, j) \/ RollbackRead(c, j) PROVE Rotation'
  BY <1>3, <1>4 DEF VerifyRead, PromoteRead, RollbackRead, JobSteps
<1>5. ASSUME NEW step \in JobSteps, NEW status \in {"verified", "promoted", "rolled_back"},
             JobSave(c, step, status)
      PROVE  Rotation'
  <2> DEFINE x == [op[c].job EXCEPT !.status = status]
             j == op[c].id
  <2>1. /\ op[c].at \in JobSteps /\ op[c].job \in Jobs /\ j \in JobIds /\ op[c].at # "start_save"
        /\ SaveJob(j, x) /\ Done(c) /\ UNCHANGED <<versions, writes>>
    BY <1>5, <1>a DEF JobSave, At, Locals, JobSteps
  <2>2. x \in Jobs /\ x.data = op[c].job.data /\ x.status # "staged"
    BY <2>1 DEF Jobs
  <2>3. jobs[j] # NoJob /\ jobs[j].data = op[c].job.data
    BY <2>1 DEF Rotation, JobCopies
  <2> HIDE DEF x, j
  <2>4. \A k \in JobIds \ {j} : jobs[k] # NoJob => jobs[k].data # x.data
    BY <2>1, <2>2, <2>3 DEF Rotation, OwnData
  <2>5. \A k \in Clients \ {c} : op[k].at = "start_save" => op[k].job.data # x.data
    BY <2>1, <2>2, <2>3 DEF Rotation, NewJobs
  <2>6. x.data <= writes
    BY <1>b, <2>1, <2>2, <2>3
  <2> QED
    BY <2>1, <2>2, <2>3, <2>4, <2>5, <2>6, JobStep
<1>6. CASE VerifySave(c) \/ PromoteEnd(c) \/ RollbackSave(c)
  BY <1>5, <1>6 DEF VerifySave, PromoteEnd, RollbackSave, JobSteps
<1>7. CASE PromoteSave(c)
  <2> DEFINE d == op[c].job.data
             o == [at |-> "promote_end", id |-> op[c].id, job |-> op[c].job]
             r == [status |-> "active", data |-> d]
             j == op[c].id
  <2>1. /\ op[c].at = "promote_save" /\ op[c].job \in Jobs /\ j \in JobIds
        /\ SaveRecord(op[c].job.version, r) /\ Goto(c, o) /\ UNCHANGED <<jobs, writes>>
    BY <1>7, <1>a DEF PromoteSave, At, Locals, JobSteps
  <2>2. jobs[j] # NoJob /\ jobs[j].data = d /\ jobs[j].status # "staged"
    BY <2>1 DEF Rotation, JobCopies, JobSteps
  <2>3. d \in Nat /\ op[c].job.version \in Nat \ {0}
    BY <2>1 DEF Jobs
  <2>4. \A u \in 1..Latest' : versions'[u] = r \/ (u \in 1..Latest /\ versions'[u] = versions[u])
    BY <1>a, <2>1, <2>3, SavedRows
  <2>5. \A u \in 1..Latest' : versions'[u].data = d
                              \/ (u \in 1..Latest /\ versions'[u].data = versions[u].data)
    BY <2>4
  <2>6. o.at \in JobSteps /\ o.at # "start_save" /\ o.id = j /\ o.job.data = d /\ Fetched(o) = {}
    BY DEF JobSteps, Fetched
  <2> HIDE DEF d, o, r, j
  <2>7. d <= writes
    BY <1>b, <2>1, <2>2
  <2>8. \A k \in Clients : op[k].at = "start_save" => op[k].job.data # d
    BY <2>1, <2>2 DEF Rotation, NewJobs
  <2>9. \A k \in JobIds : jobs[k] # NoJob /\ jobs[k].status = "staged" => jobs[k].data # d
    BY <2>1, <2>2 DEF Rotation, OwnData
  <2> QED
    BY <1>a, <2>1, <2>2, <2>3, <2>5, <2>6, <2>7, <2>8, <2>9, RowStep
<1> QED
  BY <1>1, <1>2, <1>4, <1>6, <1>7 DEF RotationStep

LEMMA NextRotation == Typed /\ Rotation /\ [Next]_vars => Rotation'
<1> SUFFICES ASSUME Typed, Rotation, [Next]_vars PROVE Rotation'
  OBVIOUS
<1>1. ASSUME NEW c \in Clients, IssueStep(c) \/ RenewStep(c) \/ ConsumeStep(c) \/ RevokeStep(c) \/ Crash(c)
      PROVE  Rotation'
  BY <1>1, Elsewhere, ElsewhereStep
<1>2. CASE (\E t \in TicketIds : Expire(t)) \/ UNCHANGED vars
  <2>1. UNCHANGED <<versions, jobs, writes, op>>
    BY <1>2 DEF Expire, tables, vars
  <2> QED
    BY <2>1 DEF Rotation, Counted, NewJobs, JobCopies, OwnData, StagedUnserved, Unserved, Fetched, Latest
<1> QED
  BY <1>1, <1>2, SecretRotation, RotationRotation DEF Next

\* The plaintext of a rotation gets into a row only after its job was verified, whatever is
\* put, disabled, rolled back or cut off meanwhile (start_rotation to rollback_rotation).
THEOREM PromotionsVerified == Spec => []PromotedWasVerified
<1>1. Rotation => PromotedWasVerified
  BY DEF Rotation, StagedUnserved, Unserved, PromotedWasVerified
<1> QED
  BY <1>1, InitRotation, NextRotation, AlwaysTyped, PTL DEF Spec

-------------------------------------------------------------------------------
(* The secret of a ticket *)

\* No save of a version replaces the plaintext it holds.
RowsStay == \A v \in 1..Latest : versions'[v].data = versions[v].data

\* x, a ticket or what one is being made of, has the plaintext its version holds.
HoldsIn(rows, x) == x.version \in 1..Len(rows) /\ rows[x.version].data = x.data

Stored == \A t \in TicketIds : ~Unused(t) => HoldsIn(versions, tickets[t])

InTheMaking == {"issue_save", "renew_revoke", "renew_save"}

Promised ==
  \A c \in Clients :
    /\ op[c].at = "issue_policy" => HoldsIn(versions, op[c])
    /\ op[c].at \in InTheMaking => HoldsIn(versions, op[c].ticket)
    /\ op[c].at \in Pointing => HoldsIn(versions, op[c].seen)
    /\ op[c].at = "lockdown" =>
         \A t \in TicketIds : op[c].list[t] # NoTicket => HoldsIn(versions, op[c].list[t])

\* What is returned for a ticket is the plaintext it was issued for.
IsOf(answer, t) == ~Unused(t) /\ answer.data = tickets[t].data

Released ==
  /\ \A c \in Clients :
       op[c].at \in {"show", "return"} /\ op[c].by[1] \in TicketIds => IsOf(op[c], op[c].by[1])
  /\ \A s \in shown : s.by[1] \in TicketIds => IsOf(s, s.by[1])

Secrets == Stored /\ Promised /\ Released

LEMMA InitSecrets == Init => Secrets
<1>1. Idle.at \notin Pointing \cup InTheMaking \cup {"issue_policy", "lockdown", "show", "return"}
  BY DEF Idle, Pointing, UseSteps, RenewSteps, InTheMaking
<1> QED
  BY <1>1 DEF Init, Secrets, Stored, Promised, Released, Unused

LEMMA RowsGrow ==
  ASSUME Typed, [Next]_vars
  PROVE  Latest <= Latest'
<1>a. versions \in Seq(Records) /\ Latest \in Nat /\ VersionsUpTo(Latest + 1)
  BY LenProperties DEF Typed, TypeOK, Latest
<1>b. versions' = versions => Latest <= Latest'
  BY <1>a DEF Latest
<1>1. ASSUME NEW c \in Clients, PutSave(c) \/ StatusSave(c) \/ PromoteSave(c) PROVE Latest <= Latest'
  <2>1. \E v \in Nat \ {0}, r \in Records : v <= Latest + 1 /\ SaveRecord(v, r)
    <3>1. Locals(op[c])
      BY DEF Typed
    <3>2. CASE PutSave(c)
      BY <1>a, <3>1, <3>2 DEF PutSave, At, Locals, VersionsUpTo, Records
    <3>3. CASE StatusSave(c)
      BY <1>a, <3>1, <3>3 DEF StatusSave, At, Locals, VersionsUpTo
    <3>4. CASE PromoteSave(c)
      BY <1>a, <3>1, <3>4 DEF PromoteSave, At, Locals, VersionsUpTo, Records, Jobs, JobSteps
    <3> QED
      BY <1>1, <3>2, <3>3, <3>4
  <2> QED
    BY <1>a, <2>1, SavedRecord
<1>2. ASSUME NEW c \in Clients, SecretStep(c), ~PutSave(c), ~StatusSave(c) PROVE versions' = versions
  BY <1>2 DEF SecretStep, PutRead, GetRead, StatusRead, SavePolicy, tables
<1>3. ASSUME NEW c \in Clients, RotationStep(c), ~PromoteSave(c) PROVE versions' = versions
  BY <1>3 DEF RotationStep, StartRead, StartSave, VerifyRead, PromoteRead, RollbackRead, JobRead,
    VerifySave, PromoteEnd, RollbackSave, JobSave, tables
<1>4. (\E t \in TicketIds : Expire(t)) \/ UNCHANGED vars => versions' = versions
  BY DEF Expire, tables, vars
<1> QED
  BY <1>b, <1>1, <1>2, <1>3, <1>4, Elsewhere DEF Next

LEMMA HoldsOn ==
  ASSUME Typed, RowsStay, Latest <= Latest', NEW x, HoldsIn(versions, x)
  PROVE  HoldsIn(versions', x)
<1>1. Latest \in Nat /\ Latest' = Len(versions')
  BY LenProperties DEF Typed, TypeOK, Latest
<1>2. x.version \in 1..Len(versions')
  BY <1>1 DEF HoldsIn, Latest
<1> QED
  BY <1>2 DEF RowsStay, HoldsIn, Latest

\* Where a row of the table of tickets comes from.
LEMMA SavedTickets ==
  ASSUME Typed, [Next]_vars
  PROVE  \/ tickets' = tickets
         \/ \E c \in Clients, t \in TicketIds :
              \/ op[c].at \in InTheMaking /\ SaveTicket(t, op[c].ticket)
              \/ op[c].at \in Pointing /\ SaveTicket(t, Revoked(op[c].seen))
              \/ op[c].at \in Pointing /\ SaveTicket(t, [op[c].seen EXCEPT !.left = @ - 1])
              \/ /\ op[c].at = "lockdown" /\ op[c].list[t] # NoTicket
                 /\ SaveTicket(t, Revoked(op[c].list[t]))
<1> DEFINE Saved(c) == \E t \in TicketIds :
              \/ op[c].at \in InTheMaking /\ SaveTicket(t, op[c].ticket)
              \/ op[c].at \in Pointing /\ SaveTicket(t, Revoked(op[c].seen))
              \/ op[c].at \in Pointing /\ SaveTicket(t, [op[c].seen EXCEPT !.left = @ - 1])
              \/ /\ op[c].at = "lockdown" /\ op[c].list[t] # NoTicket
                 /\ SaveTicket(t, Revoked(op[c].list[t]))
<1> USE DEF InTheMaking, Pointing, UseSteps, RenewSteps, At, Command
<1>known. \A c \in Clients : Locals(op[c])
  BY DEF Typed
<1>1. ASSUME NEW c \in Clients, SecretStep(c) \/ RotationStep(c) \/ Crash(c) PROVE tickets' = tickets
  BY <1>1 DEF tables, SecretStep, PutRead, PutSave, GetRead, StatusRead, StatusSave, SavePolicy,
    RotationStep, StartRead, StartSave, VerifyRead, PromoteRead, RollbackRead, JobRead,
    VerifySave, PromoteSave, PromoteEnd, RollbackSave, JobSave, Crash
<1>2. ASSUME NEW c \in Clients, IssueStep(c) PROVE tickets' = tickets \/ Saved(c)
  BY <1>2 DEF IssueStep, IssuePolicy, IssueRead, IssueSave, tables
<1>3. ASSUME NEW c \in Clients, RenewStep(c) PROVE tickets' = tickets \/ Saved(c)
  <2>1. CASE RenewRevoke(c)
    BY <1>known, <2>1 DEF RenewRevoke, Locals
  <2>2. CASE ~RenewRevoke(c)
    BY <1>3, <2>2 DEF RenewStep, RenewPolicy, RenewCheck, RenewIssue, RenewRead, RenewSave, tables
  <2> QED
    BY <2>1, <2>2
<1>4. ASSUME NEW c \in Clients, ConsumeStep(c) PROVE tickets' = tickets \/ Saved(c)
  <2>1. CASE ConsumeSave(c)
    BY <1>known, <2>1 DEF ConsumeSave, Locals
  <2>2. CASE ~ConsumeSave(c)
    BY <1>4, <2>2 DEF ConsumeStep, ConsumePolicy, ConsumeCheck, ConsumeLoad, Show, Return, ConsumeRead, tables
  <2> QED
    BY <2>1, <2>2
<1>5. ASSUME NEW c \in Clients, RevokeStep(c) PROVE tickets' = tickets \/ Saved(c)
  <2>1. (\E t \in TicketIds : RevokeRead(c, t)) \/ LockdownRead(c) \/ LockdownEnd(c) => tickets' = tickets
    BY DEF RevokeRead, LockdownRead, LockdownEnd, tables
  <2>2. CASE RevokeSave(c)
    BY <1>known, <2>2 DEF RevokeSave, Locals
  <2>3. ASSUME NEW t \in TicketIds, LockdownSave(c, t) PROVE Saved(c)
    BY <1>known, <2>3 DEF LockdownSave, Locals
  <2> QED
    BY <1>5, <2>1, <2>2, <2>3 DEF RevokeStep
<1>6. (\E t \in TicketIds : Expire(t)) \/ UNCHANGED vars => tickets' = tickets
  BY DEF Expire, vars, tables
<1> QED
  BY <1>1, <1>2, <1>3, <1>4, <1>5, <1>6 DEF Next

LEMMA NextStored ==
  ASSUME Typed, Secrets, RowsStay, [Next]_vars
  PROVE  Stored'
<1>a. /\ tickets \in [TicketIds -> Tickets \cup {NoTicket}]
      /\ Latest <= Latest' /\ \A c \in Clients : Locals(op[c])
  BY RowsGrow DEF Typed, TypeOK
<1>b. \A x \in Tickets : HoldsIn(versions, x) =>
        HoldsIn(versions, Revoked(x)) /\ HoldsIn(versions, [x EXCEPT !.left = @ - 1])
  BY DEF Tickets, Revoked, HoldsIn
<1>1. \/ tickets' = tickets
      \/ \E t \in TicketIds : \E x : HoldsIn(versions, x) /\ SaveTicket(t, x)
  <2>1. ASSUME NEW c \in Clients, op[c].at \in InTheMaking PROVE HoldsIn(versions, op[c].ticket)
    BY <2>1 DEF Secrets, Promised
  <2>2. ASSUME NEW c \in Clients, op[c].at \in Pointing
        PROVE  /\ HoldsIn(versions, Revoked(op[c].seen))
               /\ HoldsIn(versions, [op[c].seen EXCEPT !.left = @ - 1])
    BY <1>a, <1>b, <2>2 DEF Secrets, Promised, Locals, Pointing
  <2>3. ASSUME NEW c \in Clients, op[c].at = "lockdown",
               NEW t \in TicketIds, op[c].list[t] # NoTicket
        PROVE  HoldsIn(versions, Revoked(op[c].list[t]))
    <3>1. op[c].list[t] \in Tickets
      BY <1>a, <2>3 DEF Locals
    <3> QED
      BY <1>b, <2>3, <3>1 DEF Secrets, Promised
  <2> QED
    BY <2>1, <2>2, <2>3, SavedTickets
<1>2. ASSUME NEW t \in TicketIds, ~Unused(t)' PROVE HoldsIn(versions, tickets'[t])
  BY <1>a, <1>1, <1>2 DEF Secrets, Stored, SaveTicket, Unused
<1>3. ASSUME NEW t \in TicketIds, ~Unused(t)' PROVE HoldsIn(versions', tickets'[t])
  BY <1>a, <1>2, <1>3, HoldsOn
<1> QED
  BY <1>3 DEF Stored, HoldsIn

\* Where a plaintext on its way into a ticket or an answer comes from.
Taking == InTheMaking \cup {"issue_policy", "show", "return"}

Takes(c) ==
  \/ \E r \in Requests : IssueRead(c, r)
  \/ IssuePolicy(c) \/ RenewIssue(c) \/ RenewRevoke(c)
  \/ GetRead(c) \/ ConsumeLoad(c) \/ Show(c)

LEMMA TakingSteps ==
  ASSUME Typed, [Next]_vars, NEW c \in Clients, op'[c].at \in Taking
  PROVE  op'[c] = op[c] \/ Takes(c)
<1> USE DEF Typed, Goto, Done, Idle, Taking, InTheMaking
<1>1. ASSUME NEW d \in Clients, SecretStep(d) PROVE op'[c] = op[c] \/ Takes(c)
  BY <1>1 DEF SecretStep, PutRead, PutSave, GetRead, StatusRead, StatusSave, SavePolicy, Takes
<1>2. ASSUME NEW d \in Clients, IssueStep(d) PROVE op'[c] = op[c] \/ Takes(c)
  <2>1. CASE d # c
    BY <1>2, <2>1 DEF IssueStep, IssueRead, IssuePolicy, IssueSave
  <2>2. ASSUME NEW t \in TicketIds, d = c PROVE ~IssueSave(c, t)
    BY <2>2 DEF IssueSave
  <2> QED
    BY <1>2, <2>1, <2>2 DEF IssueStep, Takes
<1>3. ASSUME NEW d \in Clients, RenewStep(d) PROVE op'[c] = op[c] \/ Takes(c)
  <2>1. CASE d # c
    BY <1>3, <2>1 DEF RenewStep, RenewRead, RenewPolicy, RenewCheck, RenewIssue, RenewRevoke, RenewSave
  <2>2. CASE d = c
    <3>1. /\ \A t \in TicketIds, r \in Requests : ~RenewRead(c, t, r)
          /\ \A t \in TicketIds : ~RenewSave(c, t)
      BY DEF RenewRead, RenewSave
    <3>2. ~RenewPolicy(c) /\ ~RenewCheck(c)
      BY DEF RenewPolicy, RenewCheck, Renewing
    <3>3. RenewStep(c)
      BY <1>3, <2>2
    <3>4. RenewIssue(c) \/ RenewRevoke(c)
      <4> HIDE DEF Typed, Goto, Done, Idle, Taking, InTheMaking
      <4> QED
        BY <3>1, <3>2, <3>3 DEF RenewStep
    <3> QED
      BY <3>4 DEF Takes
  <2> QED
    BY <2>1, <2>2
<1>4. ASSUME NEW d \in Clients, ConsumeStep(d) PROVE op'[c] = op[c] \/ Takes(c)
  <2>1. CASE d # c
    BY <1>4, <2>1 DEF ConsumeStep, ConsumeRead, ConsumePolicy, ConsumeCheck, ConsumeSave,
      ConsumeLoad, Show, Return
  <2>2. CASE d = c
    <3>1. \A t \in TicketIds, r \in Requests : ~ConsumeRead(c, t, r)
      BY DEF ConsumeRead
    <3>2. ~ConsumePolicy(c) /\ ~ConsumeCheck(c) /\ ~ConsumeSave(c) /\ ~Return(c)
      BY DEF ConsumePolicy, ConsumeCheck, ConsumeSave, Return, Using
    <3> QED
      BY <1>4, <2>2, <3>1, <3>2 DEF ConsumeStep, Takes
  <2> QED
    BY <2>1, <2>2
<1>5. ASSUME NEW d \in Clients, RevokeStep(d) \/ Crash(d) PROVE op'[c] = op[c]
  BY <1>5 DEF RevokeStep, RevokeRead, RevokeSave, LockdownRead, LockdownSave, LockdownEnd, Crash
<1>6. ASSUME NEW d \in Clients, RotationStep(d) PROVE op'[c] = op[c]
  BY <1>6 DEF RotationStep, StartRead, StartSave, VerifyRead, PromoteRead, RollbackRead, JobRead,
    VerifySave, PromoteSave, PromoteEnd, RollbackSave, JobSave
<1>7. (\E t \in TicketIds : Expire(t)) \/ UNCHANGED vars => op'[c] = op[c]
  BY DEF Expire, vars
<1> QED
  BY <1>1, <1>2, <1>3, <1>4, <1>5, <1>6, <1>7 DEF Next

LEMMA NextPromised ==
  ASSUME Typed, Pointed, Secrets, RowsStay, [Next]_vars
  PROVE  Promised'
<1>a. /\ Latest <= Latest' /\ Latest \in Nat /\ Latest = Len(versions)
      /\ \A c \in Clients : Locals(op[c]) /\ Follows(c)
  BY RowsGrow, NextFollows, LenProperties DEF Typed, TypeOK, Latest
<1>b. \A x : HoldsIn(versions, x) => HoldsIn(versions', x)
  BY <1>a, HoldsOn
<1>1. ASSUME NEW c \in Clients, op'[c].at \in Pointing PROVE HoldsIn(versions', op'[c].seen)
  <2>1. HoldsIn(versions, op'[c].seen)
    BY <1>a, <1>1 DEF Follows, Secrets, Stored, Promised
  <2> QED
    BY <1>b, <2>1
<1>2. ASSUME NEW c \in Clients, op'[c].at = "lockdown", NEW t \in TicketIds, op'[c].list[t] # NoTicket
      PROVE  HoldsIn(versions', op'[c].list[t])
  <2>1. HoldsIn(versions, op'[c].list[t])
    BY <1>a, <1>2 DEF Follows, Secrets, Stored, Promised, Unused
  <2> QED
    BY <1>b, <2>1
<1>3. ASSUME NEW c \in Clients, op'[c].at = "issue_policy" PROVE HoldsIn(versions', op'[c])
  <2>1. CASE op'[c] = op[c]
    BY <1>b, <1>3, <2>1 DEF Secrets, Promised
  <2>2. ASSUME NEW r \in Requests, IssueRead(c, r) PROVE HoldsIn(versions, op'[c])
    BY <1>a, <2>2 DEF IssueRead, LatestIsActive, HoldsIn, Typed, Goto
  <2>3. Takes(c) => \E r \in Requests : IssueRead(c, r)
    BY <1>3 DEF Takes, IssuePolicy, RenewIssue, RenewRevoke, GetRead, ConsumeLoad, Show,
      Typed, Goto, Done, Idle
  <2> QED
    BY <1>3, <1>b, <2>1, <2>2, <2>3, TakingSteps DEF Taking
<1>4. ASSUME NEW c \in Clients, op'[c].at \in InTheMaking PROVE HoldsIn(versions', op'[c].ticket)
  <2>1. CASE op'[c] = op[c]
    BY <1>b, <1>4, <2>1 DEF Secrets, Promised
  <2>2. CASE IssuePolicy(c)
    <3>1. HoldsIn(versions, op[c])
      BY <2>2 DEF Secrets, Promised, IssuePolicy, At
    <3>2. op'[c].ticket.version = op[c].version /\ op'[c].ticket.data = op[c].data
      BY <1>4, <2>2 DEF IssuePolicy, NewTicket, InTheMaking, Typed, Goto, Done, Idle
    <3> QED
      BY <1>b, <3>1, <3>2 DEF HoldsIn
  <2>3. CASE RenewIssue(c)
    <3>1. HoldsIn(versions, op[c].seen)
      BY <2>3 DEF Secrets, Promised, RenewIssue, At, Pointing, RenewSteps
    <3>2. op'[c].ticket.version = op[c].seen.version /\ op'[c].ticket.data = op[c].seen.data
      BY <2>3 DEF RenewIssue, NewTicket, Typed, Goto
    <3> QED
      BY <1>b, <3>1, <3>2 DEF HoldsIn
  <2>4. CASE RenewRevoke(c)
    <3>1. HoldsIn(versions, op[c].ticket) /\ op'[c].ticket = op[c].ticket
      BY <2>4 DEF Secrets, Promised, RenewRevoke, At, InTheMaking, Typed, Goto
    <3> QED
      BY <1>b, <3>1
  <2>5. Takes(c) => IssuePolicy(c) \/ RenewIssue(c) \/ RenewRevoke(c)
    BY <1>4 DEF Takes, IssueRead, GetRead, ConsumeLoad, Show, Typed, Goto, Done, Idle, InTheMaking
  <2> QED
    BY <1>4, <2>1, <2>2, <2>3, <2>4, <2>5, TakingSteps DEF Taking
<1> QED
  BY <1>1, <1>2, <1>3, <1>4 DEF Promised, HoldsIn, Pointing, InTheMaking

LEMMA NextReleased ==
  ASSUME Typed, Pointed, Secrets, [Next]_vars
  PROVE  Released'
<1>a. TicketStep /\ \A c \in Clients : Locals(op[c])
  BY NextTickets DEF Typed
<1>1. ASSUME NEW t \in TicketIds, ~Unused(t)
      PROVE  ~Unused(t)' /\ tickets'[t].data = tickets[t].data
  BY <1>a, <1>1, TicketsStay DEF SameIssue
<1>2. ASSUME NEW s, NEW t \in TicketIds, IsOf(s, t) PROVE ~(tickets'[t] = NoTicket) /\ s.data = tickets'[t].data
  BY <1>1, <1>2 DEF IsOf, Unused
<1>3. ASSUME NEW c \in Clients, op'[c].at \in {"show", "return"}, op'[c].by[1] \in TicketIds
      PROVE  IsOf(op'[c], op'[c].by[1])
  <2>1. CASE op'[c] = op[c]
    BY <1>3, <2>1 DEF Secrets, Released
  <2>2. CASE Show(c)
    BY <1>3, <2>2 DEF Secrets, Released, Show, At, Typed, Goto, IsOf
  <2>3. CASE ConsumeLoad(c)
    <3>1. /\ op'[c].by[1] = op[c].id /\ op'[c].data = versions[op[c].seen.version].data
          /\ op[c].at \in Pointing /\ op[c].id \in TicketIds
      BY <1>a, <1>3, <2>3
      DEF ConsumeLoad, At, Pointing, UseSteps, Locals, Typed, Goto, Done, Idle
    <3>2. CopyOf(op[c].seen, op[c].id)
      BY <3>1 DEF Pointed
    <3>3. HoldsIn(versions, tickets[op[c].id])
      BY <3>1, <3>2 DEF Secrets, Stored, CopyOf
    <3> QED
      BY <3>1, <3>2, <3>3 DEF IsOf, CopyOf, SameIssue, HoldsIn
  <2>4. ~GetRead(c)
    BY <1>3, SentinelAssumption DEF GetRead, Typed, Goto, Done, Idle
  <2>5. Takes(c) => GetRead(c) \/ ConsumeLoad(c) \/ Show(c)
    BY <1>3 DEF Takes, IssueRead, IssuePolicy, RenewIssue, RenewRevoke, Typed, Goto, Done, Idle
  <2> QED
    BY <1>3, <2>1, <2>2, <2>3, <2>4, <2>5, TakingSteps DEF Taking
<1>4. ASSUME NEW s \in shown', s.by[1] \in TicketIds PROVE IsOf(s, s.by[1])
  <2>1. CASE s \in shown
    BY <1>4, <2>1 DEF Secrets, Released
  <2>2. ASSUME NEW c \in Clients, Return(c), s \notin shown PROVE IsOf(s, s.by[1])
    <3>1. op[c].at = "return" /\ s.by = op[c].by /\ s.data = op[c].data
      BY <1>4, <2>2 DEF Return, At
    <3> QED
      BY <1>4, <3>1 DEF Secrets, Released, IsOf
  <2> QED
    BY <1>4, <2>1, <2>2, Tables
<1> QED
  BY <1>2, <1>3, <1>4 DEF Released, IsOf, Unused

\* As long as no save of a version replaces its plaintext, a ticket gives out the secret it
\* was issued for, however it is used, renewed, rotated past or cut off: the replacement that
\* put_secret and promote_rotation may make of a version another has taken meanwhile is the
\* only way to lose it.
THEOREM SecretsKept == Spec /\ [][RowsStay]_vars => []TicketKeepsItsSecret
<1>1. Secrets => TicketKeepsItsSecret
  BY DEF Secrets, Released, IsOf, TicketKeepsItsSecret
<1>2. Typed /\ Pointed /\ Secrets /\ [Next]_vars /\ [RowsStay]_vars => Secrets'
  <2>1. ASSUME Typed, Pointed, Secrets, [Next]_vars, [RowsStay]_vars PROVE Secrets'
    <3>1. RowsStay
      BY <2>1 DEF vars, RowsStay
    <3> QED
      BY <2>1, <3>1, NextStored, NextPromised, NextReleased DEF Secrets
  <2> QED
    BY <2>1
<1> QED
  BY <1>1, <1>2, InitSecrets, AlwaysBooks, PTL DEF Spec

-------------------------------------------------------------------------------
(* What a ticket was granted *)

\* A ticket is good for no more uses than its policy gave, and those made are among them.
Granted ==
  /\ \A t \in TicketIds : ~Unused(t) => Good(t) <= tickets[t].policy.uses
  /\ \A u \in spent : u[2] \in 1..tickets[u[1]].policy.uses

WithinGrant == \A u \in spent : ~Unused(u[1]) /\ u[2] \in 1..tickets[u[1]].policy.uses

LEMMA NextGranted ==
  ASSUME Typed, SpentAbove, Granted, TicketStep
  PROVE  Granted'
<1>a. /\ tickets \in [TicketIds -> Tickets \cup {NoTicket}]
      /\ \A x \in Tickets : x.left \in Nat /\ x.policy.uses \in Nat
      /\ spent \subseteq TicketIds \X Nat
  BY PolicyAssumption DEF Typed, TypeOK, Tickets
<1>1. ASSUME NEW t \in TicketIds, ~Unused(t)
      PROVE  tickets'[t].policy = tickets[t].policy /\ Good(t)' <= tickets[t].policy.uses
  <2>1. tickets'[t].policy = tickets[t].policy
    BY <1>1, TicketsStay DEF SameIssue
  <2>2. Good(t) \in Nat /\ tickets[t].policy.uses \in Nat /\ Good(t) <= tickets[t].policy.uses
    BY <1>a, <1>1, GoodType DEF Granted, Unused
  <2>3. Good(t)' = Good(t) \/ Good(t)' = 0 \/ Good(t)' = Good(t) - 1
    BY <1>1, GoodStep
  <2> QED
    BY <2>1, <2>2, <2>3
<1>2. ASSUME NEW t \in TicketIds, Unused(t), ~Unused(t)'
      PROVE  Good(t)' <= tickets'[t].policy.uses
  <2>1. tickets'[t] # tickets[t]
    BY <1>2 DEF Unused
  <2>2. \A u \in TicketIds : ~UsedOnce(u) \/ u # t
    BY <1>2, NoTicketAssumption DEF UsedOnce, Unused
  <2>3. Issued(t)
    BY <1>a, <1>2, <2>1, <2>2
    DEF TicketStep, Kept, Issued, RevokedAsCopy, UsedOnce, CopyOf, SaveTicket
  <2>4. tickets'[t] \in Fresh
    BY <1>a, <2>3 DEF Issued, SaveTicket
  <2> QED
    BY <1>a, <1>2, <2>4 DEF Fresh, Good, Unused
<1>3. ASSUME NEW t \in TicketIds, ~Unused(t)' PROVE Good(t)' <= tickets'[t].policy.uses
  BY <1>1, <1>2, <1>3
<1>4. ASSUME NEW u \in spent' PROVE u[2] \in 1..tickets'[u[1]].policy.uses
  <2>1. CASE u \in spent
    <3>1. u[1] \in TicketIds /\ ~Unused(u[1]) /\ u[2] \in 1..tickets[u[1]].policy.uses
      BY <1>a, <2>1 DEF Granted, SpentAbove
    <3> QED
      BY <1>1, <3>1
  <2>2. ASSUME NEW t \in TicketIds, UsedOnce(t), u = <<t, tickets[t].left>>
        PROVE  u[2] \in 1..tickets'[u[1]].policy.uses
    <3>1. ~Unused(t) /\ Good(t) = tickets[t].left /\ tickets[t].left > 0 /\ tickets[t] \in Tickets
      BY <2>2, NoTicketAssumption DEF UsedOnce, Unused, Good
    <3>2. tickets[t].left <= tickets[t].policy.uses
      BY <3>1 DEF Granted
    <3> QED
      BY <1>a, <1>1, <2>2, <3>1, <3>2
  <2>3. u \notin spent => \E t \in TicketIds : UsedOnce(t) /\ u = <<t, tickets[t].left>>
    BY <1>4 DEF TicketStep, Kept, Issued, RevokedAsCopy, UsedOnce
  <2> QED
    BY <2>1, <2>2, <2>3
<1> QED
  BY <1>3, <1>4 DEF Granted, Unused

\* The uses made of a ticket are different ones of those its policy granted when it was
\* issued, so there are at most as many, whoever uses, renews and revokes it
\* (consume_ticket_for_secret, save_ticket_if_current).
THEOREM UsesWithinGrant == Spec => []WithinGrant
<1>1. Init => Granted
  BY DEF Init, Granted, Unused
<1>2. Typed /\ Pointed /\ Books /\ Granted /\ [Next]_vars => Granted'
  BY NextTickets, NextGranted DEF Books
<1>3. Books /\ Granted => WithinGrant
  BY DEF Books, SpentAbove, Granted, WithinGrant
<1> QED
  BY <1>1, <1>2, <1>3, AlwaysBooks, PTL DEF Spec

===============================================================================
