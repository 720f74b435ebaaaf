-------------------------------- MODULE Vault --------------------------------
(***************************************************************************)
(* The HBSE vault: secrets, access tickets and rotation jobs in one SQLite *)
(* file (src/components/HBSE/hbse/src/vault.rs, store.rs, tickets.rs).     *)
(*                                                                         *)
(* Clients are processes and threads with a LocalVault each: the commands  *)
(* of the hbse program, the broker's socket loop, the broker's gateway.    *)
(* Every call of the store opens a connection of its own and commits by    *)
(* itself, so an operation is a sequence of steps, one per call, between   *)
(* which other clients go on and after any of which the client may die.    *)
(*                                                                         *)
(* One secret reference is followed; the tables are keyed by it.           *)
(***************************************************************************)
EXTENDS Naturals, Sequences

CONSTANTS
  Clients,
  TicketIds,     \* the ids a fresh uuid may take (bounds the tickets)
  JobIds,        \* the same for rotation jobs
  Claims,        \* what a request says of itself: consumer, purpose, delivery, ...
  Sessions,      \* unlock sessions of the broker
  Policies,      \* contents the one policy row may have
  Commands,      \* Commands[c]: the operations client c of an instance calls
  MaxWrites,     \* how often a plaintext is handed in (put, rotation start)
  NoTicket, NoJob, NoPolicy, NoSession

ASSUME SentinelAssumption ==
  /\ NoPolicy \notin Policies
  /\ NoSession \notin Sessions
  /\ NoTicket \notin TicketIds

ASSUME PolicyAssumption ==
  /\ Policies \subseteq [uses: Nat, allows: SUBSET Claims]
  /\ MaxWrites \in Nat

\* What a client asks as: AccessRequest without the secret reference and time.
Requests == [claim: Claims, session: Sessions \cup {NoSession}]

\* A row of secret_records; data numbers the plaintexts in the order handed in.
Records == [status: {"active", "disabled", "destroyed"}, data: Nat]

(***************************************************************************)
(* SecretAccessTicket.  policy is policy_id and policy_hash, left is       *)
(* uses_remaining.  data, which plaintext the version held when the ticket *)
(* was issued, is history: no guard reads it.                              *)
(***************************************************************************)
Tickets == [claim: Claims, session: Sessions \cup {NoSession}, version: Nat,
            policy: Policies, left: Nat, revoked: BOOLEAN, data: Nat]
ASSUME NoTicketAssumption == NoTicket \notin Tickets

Jobs == [version: Nat \ {0}, data: Nat, status: {"staged", "verified", "promoted", "rolled_back"}]
ASSUME NoJobAssumption == NoJob \notin Jobs

VARIABLES
  versions,   \* secret_records: the rows, versions count from 1
  policy,     \* policies: its one row
  tickets,    \* tickets
  jobs,       \* rotation_jobs
  audit,      \* audit_events: what the secret.materialized ones are about
  expired,    \* the tickets whose time to live has passed
  op,         \* what each client is doing, with its local variables
  writes,     \* plaintexts handed in so far
  spent,      \* history: uses taken off a ticket, <<ticket, which>>
  shown       \* history: plaintexts returned, [by: what was asked, data: which]

tables == <<versions, policy, tickets, jobs, audit>>
vars == <<versions, policy, tickets, jobs, audit, expired, op, writes, spent, shown>>

-------------------------------------------------------------------------------
Idle == [at |-> "idle"]

Latest == Len(versions)

LatestIsActive == Latest > 0 /\ versions[Latest].status = "active"

Unused(t) == tickets[t] = NoTicket

\* INSERT OR REPLACE by (secret_ref, version).
SaveRecord(v, record) ==
  versions' = IF v <= Latest THEN [versions EXCEPT ![v] = record]
                             ELSE Append(versions, record)

SaveTicket(t, ticket) == tickets' = [tickets EXCEPT ![t] = ticket]

SaveJob(j, job) == jobs' = [jobs EXCEPT ![j] = job]

Goto(c, local) == op' = [op EXCEPT ![c] = local]

\* An operation ends.  Those that give out no plaintext append an event of another type
\* first, which nothing reads but a person, and which the model leaves out.
Done(c) == Goto(c, Idle)

\* The local variables of a renewal and of a use, at their next step.
Renewing(c, step) ==
  [at |-> step, id |-> op[c].id, seen |-> op[c].seen, request |-> op[c].request]

Using(c, step) == [at |-> step, id |-> op[c].id, seen |-> op[c].seen]

Command(c, name) == op[c].at = "idle" /\ name \in Commands[c]

At(c, step) == op[c].at = step

Revoked(ticket) == [ticket EXCEPT !.revoked = TRUE]

\* Faulty variant: uses are not counted.
ValidUncounted(t, ticket, request) ==
  /\ ~ticket.revoked
  /\ t \notin expired
  /\ ticket.claim = request.claim

\* TicketManager::validate; what the session comparison lets through included.
Valid(t, ticket, request) ==
  /\ ~ticket.revoked
  /\ ticket.left > 0
  /\ t \notin expired
  /\ ticket.claim = request.claim
  /\ ticket.session \in {NoSession, request.session}

\* active_policy_for_ticket and validate_policy: same id, same hash.
PolicyUnchanged(ticket) == policy = ticket.policy

\* Faulty variant: the version only has to exist.
SecretExists(ticket) == ticket.version <= Latest /\ LatestIsActive

\* ensure_ticket_secret_is_current.
SecretIsCurrent(ticket) == ticket.version = Latest /\ LatestIsActive

NewTicket(request, version, data, p) ==
  [claim |-> request.claim, session |-> request.session, version |-> version,
   policy |-> p, left |-> p.uses, revoked |-> FALSE, data |-> data]

-------------------------------------------------------------------------------
(* put_secret *)

PutRead(c) ==
  /\ Command(c, "put")
  /\ writes < MaxWrites
  /\ writes' = writes + 1
  /\ Goto(c, [at |-> "put_save", version |-> Latest + 1, data |-> writes'])
  /\ UNCHANGED <<tables, expired, spent, shown>>

PutSave(c) ==
  /\ At(c, "put_save")
  /\ SaveRecord(op[c].version, [status |-> "active", data |-> op[c].data])
  /\ Done(c)
  /\ UNCHANGED <<policy, tickets, jobs, audit, expired, writes, spent, shown>>

(* get_secret: the row is read, the event appended, then the plaintext returned *)

GetRead(c) ==
  /\ Command(c, "get")
  /\ Latest > 0
  /\ IF LatestIsActive
     THEN Goto(c, [at |-> "show", by |-> <<NoTicket, Latest>>, data |-> versions[Latest].data])
     ELSE Done(c)
  /\ UNCHANGED <<tables, expired, writes, spent, shown>>

(* disable_secret, destroy_secret: store.save_updated_secret_status reads the
   latest row and writes it back *)

StatusRead(c, status) ==
  /\ Command(c, "status")
  /\ Latest > 0
  /\ Goto(c, [at |-> "status_save", version |-> Latest,
              record |-> [status |-> status, data |-> versions[Latest].data]])
  /\ UNCHANGED <<tables, expired, writes, spent, shown>>

StatusSave(c) ==
  /\ At(c, "status_save")
  /\ SaveRecord(op[c].version, op[c].record)
  /\ Done(c)
  /\ UNCHANGED <<policy, tickets, jobs, audit, expired, writes, spent, shown>>

(* save_policy *)

SavePolicy(c, p) ==
  /\ Command(c, "policy")
  /\ policy' = p
  /\ Done(c)
  /\ UNCHANGED <<versions, tickets, jobs, audit, expired, writes, spent, shown>>

-------------------------------------------------------------------------------
(* issue_ticket *)

IssueRead(c, request) ==
  /\ Command(c, "issue")
  /\ LatestIsActive
  /\ Goto(c, [at |-> "issue_policy", request |-> request, version |-> Latest,
              data |-> versions[Latest].data])
  /\ UNCHANGED <<tables, expired, writes, spent, shown>>

IssuePolicy(c) ==
  /\ At(c, "issue_policy")
  /\ IF policy # NoPolicy /\ op[c].request.claim \in policy.allows
     THEN Goto(c, [at |-> "issue_save",
                   ticket |-> NewTicket(op[c].request, op[c].version, op[c].data, policy)])
     ELSE Done(c)
  /\ UNCHANGED <<tables, expired, writes, spent, shown>>

\* The id is made before and known to nobody until the row is there.
IssueSave(c, t) ==
  /\ At(c, "issue_save")
  /\ Unused(t)
  /\ SaveTicket(t, op[c].ticket)
  /\ Done(c)
  /\ UNCHANGED <<versions, policy, jobs, audit, expired, writes, spent, shown>>

(* validate_ticket, renew_ticket *)

RenewRead(c, t, request) ==
  /\ Command(c, "renew")
  /\ ~Unused(t)
  /\ Valid(t, tickets[t], request)
  /\ Goto(c, [at |-> "renew_policy", id |-> t, seen |-> tickets[t], request |-> request])
  /\ UNCHANGED <<tables, expired, writes, spent, shown>>

RenewPolicy(c) ==
  /\ At(c, "renew_policy")
  /\ Goto(c, IF PolicyUnchanged(op[c].seen) THEN Renewing(c, "renew_check") ELSE Idle)
  /\ UNCHANGED <<tables, expired, writes, spent, shown>>

RenewCheck(c) ==
  /\ At(c, "renew_check")
  /\ Goto(c, IF SecretIsCurrent(op[c].seen) THEN Renewing(c, "renew_issue") ELSE Idle)
  /\ UNCHANGED <<tables, expired, writes, spent, shown>>

\* The policy is read a second time, by id only; the new ticket takes what is there now.
RenewIssue(c) ==
  /\ At(c, "renew_issue")
  /\ policy # NoPolicy
  /\ LET old == op[c].seen IN
     Goto(c, [at |-> "renew_revoke", id |-> op[c].id, seen |-> old,
              ticket |-> NewTicket([op[c].request EXCEPT !.session = old.session],
                                   old.version, old.data, policy)])
  /\ UNCHANGED <<tables, expired, writes, spent, shown>>

RenewRevoke(c) ==
  /\ At(c, "renew_revoke")
  /\ SaveTicket(op[c].id, Revoked(op[c].seen))
  /\ Goto(c, [at |-> "renew_save", ticket |-> op[c].ticket])
  /\ UNCHANGED <<versions, policy, jobs, audit, expired, writes, spent, shown>>

RenewSave(c, t) ==
  /\ At(c, "renew_save")
  /\ Unused(t)
  /\ SaveTicket(t, op[c].ticket)
  /\ Done(c)
  /\ UNCHANGED <<versions, policy, jobs, audit, expired, writes, spent, shown>>

-------------------------------------------------------------------------------
(* consume_ticket_for_secret *)

ConsumeRead(c, t, request) ==
  /\ Command(c, "consume")
  /\ ~Unused(t)
  /\ Valid(t, tickets[t], request)
  /\ Goto(c, [at |-> "consume_policy", id |-> t, seen |-> tickets[t]])
  /\ UNCHANGED <<tables, expired, writes, spent, shown>>

ConsumePolicy(c) ==
  /\ At(c, "consume_policy")
  /\ Goto(c, IF PolicyUnchanged(op[c].seen) THEN Using(c, "consume_check") ELSE Idle)
  /\ UNCHANGED <<tables, expired, writes, spent, shown>>

ConsumeCheck(c) ==
  /\ At(c, "consume_check")
  /\ Goto(c, IF SecretIsCurrent(op[c].seen) THEN Using(c, "consume_save") ELSE Idle)
  /\ UNCHANGED <<tables, expired, writes, spent, shown>>

\* Faulty variant: a plain save, as everywhere else.
ConsumeOverwrites(c) ==
  /\ At(c, "consume_save")
  /\ LET t == op[c].id
         seen == op[c].seen IN
     /\ SaveTicket(t, [seen EXCEPT !.left = @ - 1])
     /\ spent' = spent \cup {<<t, seen.left>>}
     /\ Goto(c, Using(c, "consume_load"))
  /\ UNCHANGED <<versions, policy, jobs, audit, expired, writes, shown>>

\* save_ticket_if_current: the row is replaced only while it is the text that was read.
ConsumeSave(c) ==
  /\ At(c, "consume_save")
  /\ LET t == op[c].id
         seen == op[c].seen IN
     \/ /\ tickets[t] = seen
        /\ SaveTicket(t, [seen EXCEPT !.left = @ - 1])
        /\ spent' = spent \cup {<<t, seen.left>>}
        /\ Goto(c, Using(c, "consume_load"))
     \/ /\ tickets[t] # seen
        /\ Done(c)
        /\ UNCHANGED <<tickets, spent>>
  /\ UNCHANGED <<versions, policy, jobs, audit, expired, writes, shown>>

\* load_secret_version, and the status once more.
ConsumeLoad(c) ==
  /\ At(c, "consume_load")
  /\ LET seen == op[c].seen
         record == versions[seen.version] IN
     IF record.status = "active"
     THEN Goto(c, [at |-> "show", by |-> <<op[c].id, seen.left>>, data |-> record.data])
     ELSE Done(c)
  /\ UNCHANGED <<tables, expired, writes, spent, shown>>

\* Faulty variant: the event is not awaited.
ShowUnlogged(c) ==
  /\ At(c, "show")
  /\ Goto(c, [at |-> "return", by |-> op[c].by, data |-> op[c].data])
  /\ UNCHANGED <<tables, expired, writes, spent, shown>>

\* append_audit_event is one immediate transaction: the chain has no forks.
Show(c) ==
  /\ At(c, "show")
  /\ audit' = audit \cup {op[c].by}
  /\ Goto(c, [at |-> "return", by |-> op[c].by, data |-> op[c].data])
  /\ UNCHANGED <<versions, policy, tickets, jobs, expired, writes, spent, shown>>

Return(c) ==
  /\ At(c, "return")
  /\ shown' = shown \cup {[by |-> op[c].by, data |-> op[c].data]}
  /\ Done(c)
  /\ UNCHANGED <<tables, expired, writes, spent>>

-------------------------------------------------------------------------------
(* revoke_ticket; revoke_all_tickets, which the lockdown command calls *)

RevokeRead(c, t) ==
  /\ Command(c, "revoke")
  /\ ~Unused(t)
  /\ Goto(c, [at |-> "revoke_save", id |-> t, seen |-> tickets[t]])
  /\ UNCHANGED <<tables, expired, writes, spent, shown>>

RevokeSave(c) ==
  /\ At(c, "revoke_save")
  /\ SaveTicket(op[c].id, Revoked(op[c].seen))
  /\ Done(c)
  /\ UNCHANGED <<versions, policy, jobs, audit, expired, writes, spent, shown>>

LockdownRead(c) ==
  /\ Command(c, "lockdown")
  /\ Goto(c, [at |-> "lockdown", list |-> tickets,
              todo |-> {t \in TicketIds : tickets[t] # NoTicket /\ ~tickets[t].revoked}])
  /\ UNCHANGED <<tables, expired, writes, spent, shown>>

LockdownSave(c, t) ==
  /\ At(c, "lockdown")
  /\ t \in op[c].todo
  /\ SaveTicket(t, Revoked(op[c].list[t]))
  /\ Goto(c, [at |-> "lockdown", list |-> op[c].list, todo |-> op[c].todo \ {t}])
  /\ UNCHANGED <<versions, policy, jobs, audit, expired, writes, spent, shown>>

LockdownEnd(c) ==
  /\ At(c, "lockdown")
  /\ op[c].todo = {}
  /\ Done(c)
  /\ UNCHANGED <<tables, expired, writes, spent, shown>>

-------------------------------------------------------------------------------
(* start_rotation, verify_rotation, promote_rotation, rollback_rotation *)

StartRead(c) ==
  /\ Command(c, "rotation")
  /\ writes < MaxWrites
  /\ writes' = writes + 1
  /\ Goto(c, [at |-> "start_save",
              job |-> [version |-> Latest + 1, data |-> writes', status |-> "staged"]])
  /\ UNCHANGED <<tables, expired, spent, shown>>

StartSave(c, j) ==
  /\ At(c, "start_save")
  /\ jobs[j] = NoJob
  /\ SaveJob(j, op[c].job)
  /\ Done(c)
  /\ UNCHANGED <<versions, policy, tickets, audit, expired, writes, spent, shown>>

\* verify, promote and rollback load the job and refuse it in any other state.
JobRead(c, j, statuses, next) ==
  /\ Command(c, "rotation")
  /\ jobs[j] # NoJob
  /\ jobs[j].status \in statuses
  /\ Goto(c, [at |-> next, id |-> j, job |-> jobs[j]])
  /\ UNCHANGED <<tables, expired, writes, spent, shown>>

VerifyRead(c, j) == JobRead(c, j, {"staged"}, "verify_save")

\* Faulty variant: a job that was not verified is promoted too.
PromoteReadUnverified(c, j) == JobRead(c, j, {"staged", "verified"}, "promote_save")

PromoteRead(c, j) == JobRead(c, j, {"verified"}, "promote_save")

RollbackRead(c, j) == JobRead(c, j, {"staged", "verified"}, "rollback_save")

JobSave(c, step, status) ==
  /\ At(c, step)
  /\ SaveJob(op[c].id, [op[c].job EXCEPT !.status = status])
  /\ Done(c)
  /\ UNCHANGED <<versions, policy, tickets, audit, expired, writes, spent, shown>>

VerifySave(c) == JobSave(c, "verify_save", "verified")

RollbackSave(c) == JobSave(c, "rollback_save", "rolled_back")

PromoteSave(c) ==
  /\ At(c, "promote_save")
  /\ SaveRecord(op[c].job.version, [status |-> "active", data |-> op[c].job.data])
  /\ Goto(c, [at |-> "promote_end", id |-> op[c].id, job |-> op[c].job])
  /\ UNCHANGED <<policy, tickets, jobs, audit, expired, writes, spent, shown>>

PromoteEnd(c) == JobSave(c, "promote_end", "promoted")

-------------------------------------------------------------------------------
\* A client dies, or a call of the store fails and the operation returns early.
Crash(c) ==
  /\ op[c] # Idle
  /\ Done(c)
  /\ UNCHANGED <<tables, expired, writes, spent, shown>>

Expire(t) ==
  /\ ~Unused(t)
  /\ expired' = expired \cup {t}
  /\ UNCHANGED <<tables, op, writes, spent, shown>>

Init ==
  /\ versions = <<>>
  /\ policy = NoPolicy
  /\ tickets = [t \in TicketIds |-> NoTicket]
  /\ jobs = [j \in JobIds |-> NoJob]
  /\ audit = {}
  /\ expired = {}
  /\ op = [c \in Clients |-> Idle]
  /\ writes = 0
  /\ spent = {}
  /\ shown = {}

SecretStep(c) ==
  \/ PutRead(c) \/ PutSave(c) \/ GetRead(c)
  \/ \E s \in {"disabled", "destroyed"} : StatusRead(c, s)
  \/ StatusSave(c)
  \/ \E p \in Policies : SavePolicy(c, p)

IssueStep(c) ==
  \/ \E request \in Requests : IssueRead(c, request)
  \/ IssuePolicy(c)
  \/ \E t \in TicketIds : IssueSave(c, t)

RenewStep(c) ==
  \/ \E t \in TicketIds, request \in Requests : RenewRead(c, t, request)
  \/ RenewPolicy(c) \/ RenewCheck(c) \/ RenewIssue(c) \/ RenewRevoke(c)
  \/ \E t \in TicketIds : RenewSave(c, t)

ConsumeStep(c) ==
  \/ \E t \in TicketIds, request \in Requests : ConsumeRead(c, t, request)
  \/ ConsumePolicy(c) \/ ConsumeCheck(c) \/ ConsumeSave(c) \/ ConsumeLoad(c)
  \/ Show(c) \/ Return(c)

RevokeStep(c) ==
  \/ \E t \in TicketIds : RevokeRead(c, t) \/ LockdownSave(c, t)
  \/ RevokeSave(c) \/ LockdownRead(c) \/ LockdownEnd(c)

RotationStep(c) ==
  \/ StartRead(c)
  \/ \E j \in JobIds : StartSave(c, j) \/ VerifyRead(c, j) \/ PromoteRead(c, j) \/ RollbackRead(c, j)
  \/ VerifySave(c) \/ PromoteSave(c) \/ PromoteEnd(c) \/ RollbackSave(c)

Next ==
  \/ \E c \in Clients :
       \/ SecretStep(c) \/ IssueStep(c) \/ RenewStep(c) \/ ConsumeStep(c)
       \/ RevokeStep(c) \/ RotationStep(c) \/ Crash(c)
  \/ \E t \in TicketIds : Expire(t)

Spec == Init /\ [][Next]_vars

-------------------------------------------------------------------------------
(* What clients are in the middle of, for the properties *)

ByTicket(c) == op[c].at \in {"show", "return"} /\ op[c].by[1] \in TicketIds

\* The use client c has taken off a ticket and not yet answered.
InHand(c) ==
  IF op[c].at = "consume_load" THEN {<<op[c].id, op[c].seen.left>>}
  ELSE IF ByTicket(c) THEN {op[c].by} ELSE {}

\* Clients that found the secret of ticket t current and have not saved the use yet.
Admitted(t) == {c \in Clients : op[c].at = "consume_save" /\ op[c].id = t}

\* Clients that found the policy of ticket t unchanged, to use the ticket or to renew it.
PassedSteps == {"consume_check", "consume_save", "consume_load", "renew_check", "renew_issue"}

PolicyPassed(t) == {c \in Clients : op[c].at \in PassedSteps /\ op[c].id = t}

Good(t) == IF Unused(t) \/ tickets[t].revoked THEN 0 ELSE tickets[t].left

Book == INSTANCE TicketBook WITH
          issued <- {t \in TicketIds : ~Unused(t)},
          good <- [t \in TicketIds |-> Good(t)],
          used <- spent

(***************************************************************************)
(* Properties                                                              *)
(***************************************************************************)

\* The shape of the tables.
TypeOK ==
  /\ versions \in Seq(Records)
  /\ policy \in Policies \cup {NoPolicy}
  /\ tickets \in [TicketIds -> Tickets \cup {NoTicket}]
  /\ jobs \in [JobIds -> Jobs \cup {NoJob}]
  /\ expired \subseteq TicketIds
  /\ writes \in Nat
  /\ spent \subseteq TicketIds \X Nat

\* With consume, renew, revoke and lockdown in any order and any of them cut short, the
\* stored tickets are a TicketBook: save_ticket_if_current and the plain saves of revoked
\* copies never give a use back, never take one twice and never undo a revocation.
ImplementsBook == Book!BookSpec

\* Two clients never answer for the same use of a ticket (consume_ticket_for_secret).
OneAnswerPerUse ==
  \A c, d \in Clients : c # d => InHand(c) \cap InHand(d) = {}

\* A plaintext that was returned is in the audit trail, and in the uses of its ticket if one
\* was presented, wherever the client was cut off (get_secret, consume_ticket_for_secret).
ReleasesAreAccounted ==
  \A s \in shown :
    /\ s.by \in audit
    /\ s.by[1] \in TicketIds => s.by \in spent

\* What a lockdown has worked off stays revoked, whoever was using or renewing it
\* (revoke_all_tickets works on a list read before).
LockdownSticks ==
  \A c \in Clients : op[c].at = "lockdown" =>
    \A t \in TicketIds \ op[c].todo : op[c].list[t] # NoTicket => tickets[t].revoked

\* Once a newer version is stored, or while the policy is another one, no further client gets
\* past the check of that with a ticket issued for the old one (active_policy_for_ticket and
\* ensure_ticket_secret_is_current), however old the copy of the ticket it has.
StaleAdmitsNobody ==
  [][\A t \in TicketIds : ~Unused(t) =>
       /\ tickets[t].version < Latest => Admitted(t)' \subseteq Admitted(t)
       /\ ~PolicyUnchanged(tickets[t]) => PolicyPassed(t)' \subseteq PolicyPassed(t)]_vars

\* The plaintext of a rotation is served only after its job was verified
\* (promote_rotation; the test rotation_promotes_only_after_verification).
PromotedWasVerified ==
  \A j \in JobIds : jobs[j] # NoJob /\ jobs[j].status = "staged" =>
    \A v \in 1..Latest : versions[v].data # jobs[j].data

\* A ticket gives out the secret it was issued for, and is refused once that was replaced:
\* Err(VaultError::TicketSecretVersionStale) in the test
\* ticket_consume_denies_replay_policy_change_and_stale_secret_version.
TicketKeepsItsSecret ==
  \A s \in shown : s.by[1] \in TicketIds => s.data = tickets[s.by[1]].data

===============================================================================
