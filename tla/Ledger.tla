------------------------------- MODULE Ledger -------------------------------
(***************************************************************************)
(* The transactions of one business and the requests that change them      *)
(* (routes/transactions.routes.js, services/transactionAuditService.js,    *)
(* services/transactionImportService.js), the accounting lock they check   *)
(* (services/accountingLockService.js) and the bank feed that writes the   *)
(* same rows (routes/plaid.routes.js).  A request reads its row, reads the *)
(* lock and writes, in three statements that no transaction ties together. *)
(***************************************************************************)
EXTENDS Naturals, FiniteSets

CONSTANTS
  Txns,         \* transaction ids
  NoTxn,        \* no transaction
  Requests,     \* requests that may be in flight at one time
  MaxDate,      \* dates are 1..MaxDate
  LockDates     \* what the lock is set to, 0 to clear it

ASSUME LedgerConstants ==
  NoTxn \notin Txns /\ MaxDate \in Nat \ {0} /\ LockDates \subseteq 0..MaxDate

VARIABLES
  posted,     \* rows of the table
  live,       \* rows with deleted_at IS NULL; void exactly when not live
  bulk,       \* archived rows with deleted_reason = 'bulk_delete_all'
  cleared,    \* rows with cleared = true; stands for every field but the date
  batch,      \* the import batch: none yet, open while a sync fills it, closed when
              \* the sync, or the import of a file, is through
  imported,   \* rows of the import batch
  reverted,   \* the import batch has status 'reverted'
  date,       \* per row: its date
  before,     \* the order of deleted_at: <<t, u>> when t was archived before u, of
              \* rows that are not part of a reset (nobody reads it of those)
  lock,       \* locked_through_date, 0 when there is none
  step, op,   \* per request: where it is and what it does
  target,     \* the row it works on
  seen,       \* the date of its row, or the lock, as it read it
  newDate,    \* the date it will write, of a create or an edit
  disturbed,  \* history: since no request was in flight, the lock was moved up
              \* under one, or the feed added a locked row between the scan and the
              \* write of a reset, or of a revert of the batch the row joins
  raced       \* history: the undos in flight that a reset wrote under

rowVars == <<posted, live, bulk, cleared, batch, imported, reverted, date, before>>
requestVars == <<step, op, target, seen, newDate>>
history == <<disturbed, raced>>
vars == <<rowVars, lock, requestVars, history>>

Dates == 1..MaxDate
Step == {"idle", "read", "checked", "marking"}
Batch == {"none", "open", "closed"}
RowOps == {"edit", "patch", "archive", "undo"}
ScanOps == {"bulk", "revert"}
InsertOps == {"create", "import"}
RowsTyped ==
  /\ posted \in SUBSET Txns /\ live \in SUBSET posted /\ bulk \in SUBSET (posted \ live)
  /\ cleared \in SUBSET posted /\ batch \in Batch /\ imported \in SUBSET posted /\ reverted \in BOOLEAN
  /\ date \in [Txns -> Dates] /\ before \subseteq Txns \X Txns
  /\ lock \in 0..MaxDate
RequestsTyped ==
  /\ step \in [Requests -> Step] /\ op \in [Requests -> RowOps \union ScanOps \union InsertOps]
  /\ target \in [Requests -> Txns \union {NoTxn}]
  /\ seen \in [Requests -> 0..MaxDate] /\ newDate \in [Requests -> Dates]
  /\ disturbed \in BOOLEAN /\ raced \subseteq Requests
TargetsPosted ==
  \A r \in Requests : step[r] # "idle" /\ op[r] \in RowOps => target[r] \in posted
TypeOK == RowsTyped /\ RequestsTyped /\ TargetsPosted

Init ==
  /\ posted = {} /\ live = {} /\ bulk = {} /\ cleared = {}
  /\ batch = "none" /\ imported = {} /\ reverted = FALSE
  /\ date = [t \in Txns |-> 1] /\ before = {}
  /\ lock = 0
  /\ step = [r \in Requests |-> "idle"] /\ op = [r \in Requests |-> "create"]
  /\ target = [r \in Requests |-> NoTxn]
  /\ seen = [r \in Requests |-> 0] /\ newDate = [r \in Requests |-> 1]
  /\ disturbed = FALSE /\ raced = {}

Unlocked(d) == d > lock  \* isDateLocked: txDate <= lockDate, with a lock set

Alone(r) == \A q \in Requests \ {r} : step[q] = "idle"
Undos == {r \in Requests : step[r] # "idle" /\ op[r] = "undo"}
Disturb(P) == disturbed' = (disturbed \/ P) /\ UNCHANGED raced

Goto(r, st) == step' = [step EXCEPT ![r] = st] /\ UNCHANGED <<op, target, seen, newDate>>

SetRequest(r, o, st, t, s, d) ==
  /\ step' = [step EXCEPT ![r] = st]
  /\ op' = [op EXCEPT ![r] = o]
  /\ target' = [target EXCEPT ![r] = t]
  /\ seen' = [seen EXCEPT ![r] = s]
  /\ newDate' = [newDate EXCEPT ![r] = d]
Reset(r) == SetRequest(r, "create", "idle", NoTxn, 0, 1)
Calm(r) == disturbed' = (disturbed /\ ~Alone(r))
End(r) == Reset(r) /\ Calm(r) /\ raced' = raced \ {r}

\* A request of kind o begins and has read its row t, or the lock.
Begin(r, o, st, t, s, d) ==
  /\ step[r] = "idle"
  /\ SetRequest(r, o, st, t, s, d)
  /\ UNCHANGED <<rowVars, lock, history>>

At(r, st, o) == step[r] = st /\ op[r] = o

\* Mutant of Restorable: the reason is not looked at.
RestorableAny == posted \ live

\* What an undo may restore.
Restorable == (posted \ live) \ bulk

\* Rows go to the archive, all at one time; a row that is live becomes void.
Archive(S) ==
  /\ live' = live \ S
  /\ before' = before \union (Restorable \X S)

----------------------------------------------------------------------------
(* The requests' first statements. *)

\* Mutant of CheckCreate: the date is not checked.
CreateUnchecked(r, d) == Begin(r, "create", "checked", NoTxn, 0, d)

\* POST /transactions: the lock is checked before the advisory lock is taken.
CheckCreate(r, d) ==
  /\ Unlocked(d)
  /\ Begin(r, "create", "checked", NoTxn, 0, d)

\* POST /transactions/import/csv: the lock is loaded before the transaction.
\* One batch is modelled.
LoadLockForImport(r) ==
  batch = "none" /\ Begin(r, "import", "checked", NoTxn, lock, 1)

\* PUT /:id, PATCH /:id/.. and DELETE /:id read their live row.
ReadRow(r, t, d) ==
  /\ t \in live
  /\ \/ Begin(r, "edit", "read", t, date[t], d)
     \/ d = 1 /\ \E o \in {"patch", "archive"} : Begin(r, o, "read", t, date[t], d)

\* POST /undo-delete reads its candidate: the row archived last, bulk ones aside.
ReadCandidate(r, t) ==
  /\ t \in Restorable
  /\ \A u \in Restorable : <<t, u>> \notin before
  /\ Begin(r, "undo", "read", t, date[t], 1)

\* DELETE /bulk-delete-all and POST /import/:id/revert load the lock; a batch can be
\* reverted whoever made it, and while the sync that fills it still runs.
LoadLock(r) ==
  \/ Begin(r, "bulk", "read", NoTxn, lock, 1)
  \/ batch # "none" /\ ~reverted /\ Begin(r, "revert", "read", NoTxn, lock, 1)

----------------------------------------------------------------------------
(* The requests' checks. *)
Pass(r) == /\ SetRequest(r, op[r], "checked", target[r], 0, newDate[r])
           /\ UNCHANGED history

\* Mutant of CheckDates: only the date to be written is checked.
CheckNewDate(r) ==
  /\ step[r] = "read" /\ op[r] \in RowOps
  /\ IF op[r] = "edit" => Unlocked(newDate[r]) THEN Pass(r) ELSE End(r)
  /\ UNCHANGED <<rowVars, lock>>

\* assertUnlockedBusinessDates: reads the lock now, compares the date read before
\* and, of an edit, the date to be written.
CheckDates(r) ==
  /\ step[r] = "read" /\ op[r] \in RowOps
  /\ IF Unlocked(seen[r]) /\ (op[r] = "edit" => Unlocked(newDate[r]))
     THEN Pass(r) ELSE End(r)
  /\ UNCHANGED <<rowVars, lock>>

\* Is any live row the request would archive on or before the lock it loaded?
Scope(r) == IF op[r] = "bulk" THEN live ELSE live \intersect imported
Scan(r) ==
  /\ step[r] = "read" /\ op[r] \in ScanOps
  /\ IF \E t \in Scope(r) : date[t] <= seen[r] THEN End(r) ELSE Pass(r)
  /\ UNCHANGED <<rowVars, lock>>

----------------------------------------------------------------------------
(* The requests' writes. *)

\* New rows with dates f: live, not cleared or cleared (an import clears).
Insert(S, f) ==
  /\ S # {} /\ S \intersect posted = {}
  /\ posted' = posted \union S
  /\ live' = live \union S
  /\ date' = [t \in Txns |-> IF t \in S THEN f[t] ELSE date[t]]
  /\ UNCHANGED <<bulk, reverted, before, lock>>

\* A row's other fields are written with another value.
Flip(t) == (cleared \ {t}) \union ({t} \ cleared)

InsertCreated(r) ==
  /\ At(r, "checked", "create")
  /\ \E t \in Txns : /\ Insert({t}, [u \in Txns |-> newDate[r]])
                     /\ cleared' \in {cleared, cleared \union {t}}
  /\ End(r)
  /\ UNCHANGED <<batch, imported>>

\* The rows of the file that are after the lock loaded before; one batch.
InsertImported(r) ==
  /\ At(r, "checked", "import")
  /\ batch = "none"
  /\ \E S \in SUBSET (Txns \ posted) : \E f \in [S -> {d \in Dates : d > seen[r]}] :
       /\ Insert(S, f)
       /\ cleared' = cleared \union S
       /\ batch' = "closed" /\ imported' = S
  /\ End(r)

\* PUT: UPDATE .. WHERE id AND deleted_at IS NULL; no such row is a 404.
UpdateRow(r) ==
  /\ At(r, "checked", "edit")
  /\ IF target[r] \in live
     THEN /\ date' = [date EXCEPT ![target[r]] = newDate[r]]
          /\ cleared' \in {cleared, Flip(target[r])}
     ELSE UNCHANGED <<date, cleared>>
  /\ End(r)
  /\ UNCHANGED <<posted, live, bulk, batch, imported, reverted, before, lock>>

\* PATCH cleared, review-status, receipt-status: the same, one field.  To write the
\* value it has already changes nothing, as to give up does.
PatchRow(r) ==
  /\ At(r, "checked", "patch")
  /\ IF target[r] \in live
     THEN cleared' = Flip(target[r])
     ELSE UNCHANGED cleared
  /\ End(r)
  /\ UNCHANGED <<posted, live, bulk, batch, imported, reverted, date, before, lock>>

archiveTransaction(r) ==
  /\ At(r, "checked", "archive")
  /\ IF target[r] \in live THEN Archive({target[r]}) ELSE UNCHANGED <<live, before>>
  /\ End(r)
  /\ UNCHANGED <<posted, bulk, cleared, batch, imported, reverted, date, lock>>

Forget(t) == {p \in before : t \notin {p[1], p[2]}}  \* deleted_at = NULL

\* Mutant of restoreMostRecentArchivedTransaction: the reason stays.
RestoreKeepsReason(r) ==
  /\ At(r, "checked", "undo")
  /\ live' = live \union {target[r]}
  /\ before' = Forget(target[r])
  /\ End(r)
  /\ UNCHANGED <<posted, bulk, cleared, batch, imported, reverted, date, lock>>

\* UPDATE .. WHERE id AND deleted_at IS NOT NULL: the reason is not looked at again.
restoreMostRecentArchivedTransaction(r) ==
  /\ At(r, "checked", "undo")
  /\ live' = live \union {target[r]}
  /\ bulk' = bulk \ {target[r]}
  /\ before' = Forget(target[r])
  /\ End(r)
  /\ UNCHANGED <<posted, cleared, batch, imported, reverted, date, lock>>

BulkDelete(r) ==
  /\ At(r, "checked", "bulk")
  /\ live' = {}
  /\ bulk' = bulk \union live
  /\ Goto(r, "marking")
  /\ raced' = raced \union Undos
  /\ UNCHANGED <<posted, cleared, batch, imported, reverted, date, before, lock, disturbed>>

\* The second UPDATE: rows archived before are made part of the reset.
MarkArchived(r) ==
  /\ At(r, "marking", "bulk")
  /\ bulk' = posted \ live /\ before' = {}
  /\ Reset(r) /\ Calm(r)
  /\ raced' = raced \union Undos
  /\ UNCHANGED <<posted, live, cleared, batch, imported, reverted, date, lock>>

\* The UPDATE of revertImportBatch and the batch's status, one transaction.
revertImportBatch(r) ==
  /\ At(r, "checked", "revert")
  /\ Archive(live \intersect imported)
  /\ reverted' = TRUE
  /\ End(r)
  /\ UNCHANGED <<posted, bulk, cleared, batch, imported, date, lock>>

\* A refusal before the write (account, category, plan), an error or a crash: the
\* request ends where it is, between the two UPDATEs of a reset as well.
GiveUp(r) ==
  /\ step[r] # "idle"
  /\ End(r)
  /\ UNCHANGED <<rowVars, lock>>

----------------------------------------------------------------------------
AllIdle == \A r \in Requests : step[r] = "idle"

\* PUT /business/accounting-lock: sets, moves or clears the lock.
saveAccountingLockState(d) ==
  /\ d # lock /\ lock' = d
  /\ Disturb(lock < d /\ ~AllIdle)
  /\ UNCHANGED <<rowVars, requestVars>>

\* A Plaid sync makes a batch and inserts, updates and removes rows, one statement at
\* a time.  A row joins the batch of its own sync, which need not be this one; it
\* does so whether or not the batch was reverted in the meantime.
createImportBatch ==
  /\ batch = "none" /\ batch' = "open"
  /\ UNCHANGED <<posted, live, bulk, cleared, imported, reverted, date, before, lock, requestVars, history>>

\* The row came after the scan of a request that will archive it.
MissedByScan(r, t) ==
  At(r, "checked", "bulk") \/ (At(r, "checked", "revert") /\ t \in imported')

SyncAdded(t, d) ==
  /\ Insert({t}, [u \in Txns |-> d])
  /\ cleared' \in {cleared, cleared \union {t}}
  /\ \/ imported' = imported
     \/ batch = "open" /\ imported' = imported \union {t}
  /\ Disturb(~Unlocked(d) /\ \E r \in Requests : MissedByScan(r, t))
  /\ UNCHANGED <<batch, requestVars>>

SyncModified(t) ==
  /\ t \in posted
  /\ cleared' = Flip(t)
  /\ UNCHANGED <<posted, live, bulk, batch, imported, reverted, date, before, lock, requestVars, history>>

SyncRemoved(t) ==
  /\ t \in live
  /\ Archive({t})
  /\ UNCHANGED <<posted, bulk, cleared, batch, imported, reverted, date, lock, requestVars, history>>

\* The sync's last statement on its batch writes the status, whatever it is by now.
finalizeImportBatch ==
  /\ batch = "open" /\ batch' = "closed"
  /\ reverted' = FALSE
  /\ UNCHANGED <<posted, live, bulk, cleared, imported, date, before, lock, requestVars, history>>

Sync(t) == SyncModified(t) \/ SyncRemoved(t) \/ \E d \in Dates : SyncAdded(t, d)

Ask(r) ==
  \/ \E d \in Dates : CheckCreate(r, d)
  \/ LoadLockForImport(r)
  \/ \E t \in Txns, d \in Dates : ReadRow(r, t, d)
  \/ \E t \in Txns : ReadCandidate(r, t)
  \/ LoadLock(r)

Write(r) ==
  \/ InsertCreated(r) \/ InsertImported(r) \/ UpdateRow(r) \/ PatchRow(r)
  \/ archiveTransaction(r) \/ restoreMostRecentArchivedTransaction(r)
  \/ BulkDelete(r) \/ MarkArchived(r) \/ revertImportBatch(r)

Next ==
  \/ \E r \in Requests : Ask(r) \/ CheckDates(r) \/ Scan(r) \/ Write(r) \/ GiveUp(r)
  \/ \E d \in LockDates : saveAccountingLockState(d)
  \/ createImportBatch \/ finalizeImportBatch
  \/ \E t \in Txns : Sync(t)

Spec == Init /\ [][Next]_vars

----------------------------------------------------------------------------
Touched(t) == \/ t \in posted /\ date'[t] # date[t]
              \/ (t \in live) # (t \in live')
              \/ (t \in cleared) # (t \in cleared')
TouchesUnlockedOnly ==
  \A t \in Txns : Touched(t) => Unlocked(date'[t]) /\ (t \in posted => Unlocked(date[t]))

\* "Once set, no mutation can touch a transaction whose date falls on or before
\* that date": a row that is created, edited, cleared, archived or restored is
\* dated after the lock, before the step and after it.  The bank feed does not keep
\* to it (it never loads the lock); what requests write does, as long as the lock is
\* not moved up while they are in flight and the feed adds no locked row after the
\* scan of a reset, or of a revert of the batch it adds to: their statements may
\* interleave in any way.
LockHonoured ==
  [][step' # step /\ ~disturbed => TouchesUnlockedOnly]_vars

\* "Delete All is a hard reset": a row that was part of it is not restored but by an
\* undo that was in flight when the reset wrote (it had picked its candidate).
ResetHonoured ==
  [][bulk \intersect live' # {} => \E r \in raced : step[r] # "idle" /\ step'[r] = "idle"]_vars

\* What a request that has read or checked relies on while it is in flight.
Relies(r) ==
  /\ step[r] = "read" /\ op[r] \in RowOps =>
       date[target[r]] = seen[r] \/ Unlocked(date[target[r]])
  /\ At(r, "read", "bulk") \/ At(r, "read", "revert") \/ At(r, "checked", "import")
       => lock <= seen[r]
  /\ step[r] = "checked" /\ op[r] \in RowOps =>
       Unlocked(date[target[r]]) /\ (op[r] = "edit" => Unlocked(newDate[r]))
  /\ At(r, "checked", "create") => Unlocked(newDate[r])
  /\ step[r] = "checked" /\ op[r] \in ScanOps => \A t \in Scope(r) : Unlocked(date[t])

\* An undo in flight has a candidate that is not part of a reset.
Candidate(r) == step[r] \in {"read", "checked"} /\ op[r] = "undo" => target[r] \notin bulk

\* What requests in flight have read and checked holds when they write (the lock:
\* until disturbed; an undo's candidate: unless raced).  Behind both properties.
Undisturbed ==
  \A r \in Requests :
    /\ ~disturbed => Relies(r)
    /\ r \notin raced => Candidate(r)
IInv == TypeOK /\ Undisturbed
=============================================================================
