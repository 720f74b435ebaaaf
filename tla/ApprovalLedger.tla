--------------------------- MODULE ApprovalLedger ---------------------------
(***************************************************************************)
(* The approval ledger of vegvisir/src/guardrails.rs: one table behind a   *)
(* mutex that the UI thread and every turn worker share (clones of         *)
(* ApprovalLedger hold the same Arc), saved to approvals.json by every     *)
(* operation.  The identity of a request is the hash of its tool name and  *)
(* arguments, and so is its session key: here a request id, a session key  *)
(* and a tool call are all one value, an element of Calls.                 *)
(*                                                                         *)
(* The set approved_once is kept as a function to the number of the grant  *)
(* the operator gave (NoGrant when the id is absent).  The numbers are     *)
(* history: no operation tests them, they let a property say that one      *)
(* decision of the operator is spent once.                                 *)
(***************************************************************************)
EXTENDS Naturals, Sequences

CONSTANTS
  Calls,        \* tool calls: a tool with its arguments
  Executable,   \* the program a command call starts (no entry: not a command)
  SaveMayFail,  \* whether writing approvals.json may fail (save only warns)
  MaxGrants     \* bound on the one-time grants the operator gives in a run

ASSUME SaveMayFailAssumption == SaveMayFail \in BOOLEAN
ASSUME MaxGrantsAssumption   == MaxGrants \in Nat

VARIABLES
  pending,   \* per call: the label of the request waiting for the operator
  rejected,  \* calls the operator denied (never removed)
  once,      \* per call: the one-time grant in approved_once
  session,   \* calls approved for the session (not saved)
  disk,      \* the last image of the ledger written to approvals.json
  grants     \* history: the call each one-time grant was given for

ledgerVars == <<pending, rejected, once, session, disk, grants>>

NoGrant   == 0
NoRequest == "none"
Labels    == {"command-allow", "other"}

IsCommand(c) == c \in DOMAIN Executable

-----------------------------------------------------------------------------
(* Reading the ledger.                                                     *)

IsPending(c) == pending[c] # NoRequest

\* An approval that consume_approval would find for c.
Consumable(c) == once[c] # NoGrant \/ c \in session

\* Faulty variant: a request queued again hides the decision already taken.
ResolutionPendingFirst(c) ==
  IF IsPending(c) THEN "Pending"
  ELSE IF Consumable(c) THEN "Approved"
  ELSE IF c \in rejected THEN "Denied" ELSE "Missing"

\* ApprovalLedger::resolution, which tests the four cases in this order.
Resolution(c) ==
  CASE Consumable(c)                                       -> "Approved"
    [] ~Consumable(c) /\ c \in rejected                    -> "Denied"
    [] ~Consumable(c) /\ c \notin rejected /\ IsPending(c) -> "Pending"
    [] OTHER                                               -> "Missing"

-----------------------------------------------------------------------------
(* Saving and loading.                                                     *)

\* save(): the image of the new state, or the old file when writing fails.
Save ==
  \/ disk' = [pending |-> pending', rejected |-> rejected', once |-> once']
  \/ SaveMayFail /\ UNCHANGED disk

InitLedger ==
  /\ pending  = [c \in Calls |-> NoRequest]
  /\ rejected = {}
  /\ once     = [c \in Calls |-> NoGrant]
  /\ session  = {}
  /\ disk     = [pending |-> pending, rejected |-> rejected, once |-> once]
  /\ grants   = <<>>

\* new_persisted() in the next process: the file, without session approvals.
Reload ==
  /\ pending'  = disk.pending
  /\ rejected' = disk.rejected
  /\ once'     = disk.once
  /\ session'  = {}
  /\ UNCHANGED <<disk, grants>>

-----------------------------------------------------------------------------
(* The operations.                                                         *)

Enqueue(c, label) ==
  /\ pending' = [pending EXCEPT ![c] = IF IsPending(c) THEN @ ELSE label]
  /\ UNCHANGED <<rejected, once, session, grants>>
  /\ Save

\* Approving a call already in approved_once adds nothing: it is a set.
AddGrant(c) ==
  IF once[c] # NoGrant
    THEN UNCHANGED <<once, grants>>
    ELSE /\ Len(grants) < MaxGrants
         /\ grants' = Append(grants, c)
         /\ once'   = [once EXCEPT ![c] = Len(grants) + 1]

ApproveOnce(c) ==
  /\ IsPending(c)
  /\ AddGrant(c)
  /\ UNCHANGED <<pending, rejected, session>>
  /\ Save

ApproveForSession(c) ==
  /\ IsPending(c)
  /\ pending' = [pending EXCEPT ![c] = NoRequest]
  /\ session' = session \union {c}
  /\ UNCHANGED <<rejected, once, grants>>
  /\ Save

\* The pending map after the request for c becomes a request for d.
Edited(c, d) == [[pending EXCEPT ![c] = NoRequest] EXCEPT ![d] = pending[c]]

\* Faulty variant: editing in place, an approval already given goes along.
EditCarryingGrant(c, d) ==
  /\ IsPending(c)
  /\ pending' = Edited(c, d)
  /\ once' = [[once EXCEPT ![c] = NoGrant] EXCEPT ![d] = once[c]]
  /\ UNCHANGED <<rejected, session, grants>>
  /\ Save

Edit(c, d) ==
  /\ IsPending(c)
  /\ pending' = Edited(c, d)
  /\ UNCHANGED <<rejected, once, session, grants>>
  /\ Save

Deny(c) ==
  /\ IsPending(c)
  /\ pending'  = [pending EXCEPT ![c] = NoRequest]
  /\ rejected' = rejected \union {c}
  /\ UNCHANGED <<once, session, grants>>
  /\ Save

\* Faulty variants of consume_approval: the file is written before the change;
\* the file is not written.
ConsumeSavingFirst(c) ==
  /\ Consumable(c)
  /\ once'    = [once EXCEPT ![c] = NoGrant]
  /\ pending' = [pending EXCEPT ![c] = NoRequest]
  /\ disk'    = [pending |-> pending, rejected |-> rejected, once |-> once]
  /\ UNCHANGED <<rejected, session, grants>>

ConsumeUnsaved(c) ==
  /\ Consumable(c)
  /\ once'    = [once EXCEPT ![c] = NoGrant]
  /\ pending' = [pending EXCEPT ![c] = NoRequest]
  /\ UNCHANGED <<rejected, session, grants, disk>>

\* consume_approval when it returns true.
Consume(c) ==
  /\ Consumable(c)
  /\ once'    = [once EXCEPT ![c] = NoGrant]
  /\ pending' = [pending EXCEPT ![c] = NoRequest]
  /\ UNCHANGED <<rejected, session, grants>>
  /\ Save

\* consume_approval when it returns false; it saves all the same.
FindNothing(c) ==
  /\ ~Consumable(c)
  /\ UNCHANGED <<pending, rejected, once, session, grants>>
  /\ Save

\* The grants a consume takes out of approved_once.
TakenBy(c) == {once[c]} \ {NoGrant}

-----------------------------------------------------------------------------

Image ==
  [pending  : [Calls -> Labels \union {NoRequest}],
   rejected : SUBSET Calls,
   once     : [Calls -> Nat]]

LedgerTypeOK ==
  /\ pending  \in [Calls -> Labels \union {NoRequest}]
  /\ rejected \in SUBSET Calls
  /\ once     \in [Calls -> Nat]
  /\ session  \in SUBSET Calls
  /\ disk     \in Image
  /\ grants   \in Seq(Calls)
=============================================================================
