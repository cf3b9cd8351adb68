------------------------------ MODULE Receipts ------------------------------
(***************************************************************************)
(* Receipt files, the transactions they are evidence for, and the          *)
(* receipt_status a transaction derives from them (routes/receipts.routes, *)
(* services/receiptStatusService.js, PATCH /transactions/:id/receipt-      *)
(* status).  Upload, attach and delete are database transactions at READ   *)
(* COMMITTED: a request sees what is committed and its own change.  Upload *)
(* and attach hold the business's advisory lock, attach and delete the     *)
(* receipt's row lock, and an UPDATE of a status the transaction's.        *)
(***************************************************************************)
EXTENDS Naturals, FiniteSets

CONSTANTS
  Files,        \* receipt ids
  Txns,         \* transaction ids
  NoTxn, NoFile,  \* no transaction, no receipt
  Requests,     \* requests that may be in flight at one time
  MaxReceipts   \* MAX_RECEIPTS_PER_TRANSACTION

ASSUME ReceiptsConstants ==
  NoTxn \notin Txns /\ NoFile \notin Files /\ MaxReceipts \in Nat \ {0}

VARIABLES
  stored,   \* committed receipts
  link,     \* per receipt: its transaction
  status,   \* per transaction: receipt_status
  locked,   \* transactions dated in the locked period
  step, op, \* per request: where it is and what it does
  file,     \* its receipt
  from, to, \* the transaction its receipt leaves, and the one it joins
  found,    \* hasReceipts, as its last count saw it
  held,     \* transactions whose row it has updated and not committed
  pending,  \* the status it wrote there
  crossed,  \* history: requests in flight that met another one at work on the
            \* same transaction
  raced,    \* history: transactions whose last change was by a crossed request
  late      \* history: requests in flight whose transaction was locked after they
            \* had checked its date

tableVars == <<stored, link, status>>
historyVars == <<crossed, raced, late>>
vars == <<tableVars, locked, step, op, file, from, to, found, held, pending, historyVars>>

Step == {"idle", "begin", "lockReceipt", "change", "countFrom", "writeFrom",
         "countTo", "writeTo", "commit", "attest"}
\* 'missing' and 'not_required' are both a user's word for it.
Status == {"pending", "attached", "attested"}
TypeOK ==
  /\ stored \subseteq Files
  /\ link \in [Files -> Txns \union {NoTxn}] /\ \A f \in Files \ stored : link[f] = NoTxn
  /\ status \in [Txns -> Status]
  /\ locked \subseteq Txns
  /\ step \in [Requests -> Step] /\ op \in [Requests -> {"upload", "attach", "delete", "attest"}]
  /\ file \in [Requests -> Files \union {NoFile}]
  /\ from \in [Requests -> Txns \union {NoTxn}] /\ to \in [Requests -> Txns \union {NoTxn}]
  /\ found \in [Requests -> BOOLEAN]
  /\ held \in [Requests -> SUBSET Txns]
  /\ pending \in [Requests -> [Txns -> Status]]
  /\ crossed \subseteq {q \in Requests : step[q] # "idle"} /\ raced \subseteq Txns
  /\ late \subseteq {q \in Requests : step[q] # "idle"}

Init ==
  /\ stored = {} /\ link = [f \in Files |-> NoTxn]
  /\ status = [t \in Txns |-> "pending"]
  /\ locked = {}
  /\ step = [q \in Requests |-> "idle"] /\ op = [q \in Requests |-> "upload"]
  /\ file = [q \in Requests |-> NoFile]
  /\ from = [q \in Requests |-> NoTxn] /\ to = [q \in Requests |-> NoTxn]
  /\ found = [q \in Requests |-> FALSE]
  /\ held = [q \in Requests |-> {}]
  /\ pending = [q \in Requests |-> [t \in Txns |-> "pending"]]
  /\ crossed = {} /\ raced = {} /\ late = {}

Goto(q, st) == step' = [step EXCEPT ![q] = st]

\* Rows that the statement a request is at may have to wait for.
Changing == {"countFrom", "writeFrom", "countTo", "writeTo", "commit"}
\* Mutant of HoldsAdvisory: an attach takes it before the receipt's row.
HoldsAdvisoryEarly(q) == \/ step[q] \in Changing /\ op[q] \in {"upload", "attach"}
                         \/ step[q] = "lockReceipt" /\ op[q] = "attach"
HoldsAdvisory(q) == step[q] \in Changing /\ op[q] \in {"upload", "attach"}
HoldsReceipt(q) == step[q] \in Changing \union {"change"} /\ op[q] \in {"attach", "delete"}
AdvisoryIgnored == TRUE  \* mutant of AdvisoryFree: the lock is not taken
AdvisoryFree == \A p \in Requests : ~HoldsAdvisory(p)
ReceiptFree(f) == \A p \in Requests : HoldsReceipt(p) => file[p] # f
RowFree(q, t) == \A p \in Requests \ {q} : t \notin held[p]

\* What a request sees: the committed rows, with its own change.
MyFiles(q) == IF step[q] \notin Changing THEN stored
              ELSE IF op[q] = "delete" THEN stored \ {file[q]} ELSE stored \union {file[q]}
\* Mutant of MyLink: a deleted receipt keeps its transaction.
MyLinkKept(q) == IF step[q] \in Changing /\ op[q] # "delete"
                 THEN [link EXCEPT ![file[q]] = to[q]] ELSE link
MyLink(q) == IF step[q] \in Changing THEN [link EXCEPT ![file[q]] = to[q]] ELSE link
Count(q, t) == Cardinality({f \in MyFiles(q) : MyLink(q)[f] = t})

\* The transactions whose evidence or status a request is at work on.
WorksOn(q) == IF step[q] \in Changing \union {"attest"} THEN {from[q], to[q]} \ {NoTxn} ELSE {}
Meet(q, S) ==
  LET met == {p \in Requests \ {q} : WorksOn(p) \intersect S # {}}
  IN  /\ crossed' = crossed \union met \union (IF met = {} THEN {} ELSE {q})
      /\ UNCHANGED <<raced, late>>
Settle(q) ==
  raced' = IF q \in crossed THEN raced \union WorksOn(q) ELSE raced \ WorksOn(q)

\* Which status is synced after that of the transaction left, if any.
SyncTo(q) == IF to[q] # NoTxn THEN "countTo" ELSE "commit"
\* Mutant of Sync: the transaction left is not synced.
SyncJoinedOnly(q, leaves) ==
  /\ from' = [from EXCEPT ![q] = leaves]
  /\ Goto(q, SyncTo(q))
  /\ Meet(q, {leaves, to[q]} \ {NoTxn})
  /\ UNCHANGED <<tableVars, locked, op, file, to, found, held, pending>>

\* The change is made; the statuses of both transactions are synced next.
Sync(q, leaves) ==
  /\ from' = [from EXCEPT ![q] = leaves]
  /\ Goto(q, IF leaves # NoTxn /\ leaves # to[q] THEN "countFrom" ELSE SyncTo(q))
  /\ Meet(q, {leaves, to[q]} \ {NoTxn})
  /\ UNCHANGED <<tableVars, locked, op, file, to, found, held, pending>>

\* A finished request keeps nothing.
Finish(q) ==
  /\ Goto(q, "idle")
  /\ op' = [op EXCEPT ![q] = "upload"]
  /\ file' = [file EXCEPT ![q] = NoFile]
  /\ from' = [from EXCEPT ![q] = NoTxn] /\ to' = [to EXCEPT ![q] = NoTxn]
  /\ found' = [found EXCEPT ![q] = FALSE]
  /\ held' = [held EXCEPT ![q] = {}]
  /\ pending' = [pending EXCEPT ![q] = [t \in Txns |-> "pending"]]
  /\ crossed' = crossed \ {q} /\ late' = late \ {q}

\* An error answer, an exception or a crash: ROLLBACK, every lock is released.
Rollback(q) == Finish(q) /\ UNCHANGED <<tableVars, locked, raced>>
Fails(q) == step[q] # "idle" /\ Rollback(q)

Start(q, o, f, t, st) ==
  /\ step[q] = "idle"
  /\ op' = [op EXCEPT ![q] = o]
  /\ file' = [file EXCEPT ![q] = f]
  /\ to' = [to EXCEPT ![q] = t]
  /\ Goto(q, st)
  /\ UNCHANGED <<tableVars, locked, from, found, held, pending>>

----------------------------------------------------------------------------
\* POST /receipts checks the transaction's date outside any transaction.
StartUpload(q, f, t) ==
  /\ f \notin stored
  /\ \A p \in Requests : step[p] = "idle" \/ file[p] # f
  /\ t \notin locked
  /\ Start(q, "upload", f, t, "begin")
  /\ UNCHANGED historyVars

\* BEGIN, the advisory lock, the cap per transaction, INSERT.
Upload(q) ==
  /\ step[q] = "begin"
  /\ AdvisoryFree
  /\ IF to[q] # NoTxn /\ Count(q, to[q]) >= MaxReceipts THEN Rollback(q) ELSE Sync(q, NoTxn)

\* PATCH /receipts/:id/attach and DELETE /receipts/:id lock the receipt's row.
StartAttach(q, f, t) == Start(q, "attach", f, t, "lockReceipt") /\ UNCHANGED historyVars
StartDelete(q, f) == Start(q, "delete", f, NoTxn, "lockReceipt") /\ UNCHANGED historyVars
LockReceipt(q) ==
  /\ step[q] = "lockReceipt"
  /\ ReceiptFree(file[q])
  /\ IF file[q] \in stored
     THEN /\ Goto(q, "change")
          /\ UNCHANGED <<tableVars, locked, op, file, from, to, found, held, pending, historyVars>>
     ELSE Rollback(q)

\* Mutant of AttachRefused: a receipt may be freed from a locked transaction.
AttachRefusedJoining(q) ==
  \/ to[q] \in locked
  \/ to[q] # NoTxn /\ Count(q, to[q]) >= MaxReceipts

\* The advisory lock; the date of the transaction joined, or of the one left
\* when none is joined; the cap; UPDATE receipts.
AttachRefused(q) ==
  \/ to[q] \in locked
  \/ to[q] # NoTxn /\ Count(q, to[q]) - (IF link[file[q]] = to[q] THEN 1 ELSE 0) >= MaxReceipts
  \/ to[q] = NoTxn /\ link[file[q]] \in locked
Attach(q) ==
  /\ step[q] = "change" /\ op[q] = "attach"
  /\ AdvisoryFree
  /\ IF AttachRefused(q) THEN Rollback(q) ELSE Sync(q, link[file[q]])

\* The date of the transaction left; DELETE FROM receipts.
Delete(q) ==
  /\ step[q] = "change" /\ op[q] = "delete"
  /\ IF link[file[q]] \in locked THEN Rollback(q) ELSE Sync(q, link[file[q]])

\* syncReceiptStatusForTransaction: first the count ...
CountReceipts(q) ==
  /\ \/ step[q] = "countFrom" /\ Goto(q, "writeFrom") /\ found' = [found EXCEPT ![q] = Count(q, from[q]) > 0]
     \/ step[q] = "countTo" /\ Goto(q, "writeTo") /\ found' = [found EXCEPT ![q] = Count(q, to[q]) > 0]
  /\ UNCHANGED <<tableVars, locked, op, file, from, to, held, pending, historyVars>>

\* ... then the UPDATE, of a row that does not say so already.  A row that
\* does not match is passed over, locked or not; one that matches is waited for.
Matches(q, t) == IF found[q] THEN status[t] # "attached" ELSE status[t] = "attached"
SetStatus(q, t) ==
  /\ Matches(q, t) => RowFree(q, t)
  /\ IF Matches(q, t)
     THEN /\ held' = [held EXCEPT ![q] = @ \union {t}]
          /\ pending' = [pending EXCEPT ![q][t] = IF found[q] THEN "attached" ELSE "pending"]
     ELSE UNCHANGED <<held, pending>>
syncReceiptStatusForTransaction(q) ==
  /\ \/ step[q] = "writeFrom" /\ SetStatus(q, from[q]) /\ Goto(q, SyncTo(q))
     \/ step[q] = "writeTo" /\ SetStatus(q, to[q]) /\ Goto(q, "commit")
  /\ UNCHANGED <<tableVars, locked, op, file, from, to, found, historyVars>>

Commit(q) ==
  /\ step[q] = "commit"
  /\ stored' = MyFiles(q)
  /\ link' = MyLink(q)
  /\ status' = [t \in Txns |-> IF t \in held[q] THEN pending[q][t] ELSE status[t]]
  /\ Settle(q)
  /\ Finish(q)
  /\ UNCHANGED locked

----------------------------------------------------------------------------
\* PATCH /transactions/:id/receipt-status: the count and the date are read ...
ReadCount(q, t) ==
  /\ Cardinality({f \in stored : link[f] = t}) = 0
  /\ t \notin locked
  /\ Start(q, "attest", NoFile, t, "attest")
  /\ Meet(q, {t})

\* ... and the row is updated in a statement of its own.
Attest(q) ==
  /\ step[q] = "attest"
  /\ RowFree(q, to[q])
  /\ \E st \in {"pending", "attested"} : status' = [status EXCEPT ![to[q]] = st]
  /\ Settle(q)
  /\ Finish(q)
  /\ UNCHANGED <<stored, link, locked>>

\* The transaction whose date a request has checked: the one joined, if any.
Checked(q) ==
  IF step[q] \notin Changing \union {"begin", "attest"} THEN {}
  ELSE (IF to[q] # NoTxn THEN {to[q]} ELSE {from[q]}) \ {NoTxn}

\* PUT /business/accounting-lock takes no lock: a period is locked or opened at any
\* time, between a request's check and its write as well.
MoveLock ==
  /\ locked' \in SUBSET Txns
  /\ late' = late \union {q \in Requests : Checked(q) \intersect (locked' \ locked) # {}}
  /\ UNCHANGED <<tableVars, step, op, file, from, to, found, held, pending, crossed, raced>>

Proceed(q) ==
  \/ Upload(q) \/ LockReceipt(q) \/ Attach(q) \/ Delete(q)
  \/ CountReceipts(q) \/ syncReceiptStatusForTransaction(q) \/ Commit(q) \/ Attest(q)

Next ==
  \/ \E q \in Requests :
       \/ \E f \in Files, t \in Txns \union {NoTxn} : StartUpload(q, f, t) \/ StartAttach(q, f, t)
       \/ \E f \in Files : StartDelete(q, f)
       \/ \E t \in Txns : ReadCount(q, t)
       \/ Proceed(q)
       \/ Fails(q)
  \/ MoveLock

Spec == Init /\ [][Next]_vars

----------------------------------------------------------------------------
AtRest == \A q \in Requests : step[q] = "idle"
Evidence(t) == {f \in stored : link[f] = t}

\* "receipt_status always reflects reality": while nothing is in flight, a
\* transaction says 'attached' if and only if it has a receipt on file, unless its
\* last change was by requests that met there: a delete or a user's word with another
\* (two deletes each count the receipt of the other).  The next request that is alone
\* there repairs it.
StatusReflectsReality ==
  AtRest => \A t \in Txns \ raced : status[t] = "attached" <=> Evidence(t) # {}

\* Concurrent uploads and attaches cannot both slip past the cap.
CapHolds == \A t \in Txns : Cardinality(Evidence(t)) <= MaxReceipts

\* The lock that a request's next statement needs is another request's.
WaitsForRow(q, t) == Matches(q, t) /\ ~RowFree(q, t)
Waits(q) ==
  \/ step[q] = "begin" /\ ~AdvisoryFree
  \/ step[q] = "change" /\ op[q] = "attach" /\ ~AdvisoryFree
  \/ step[q] = "lockReceipt" /\ ~ReceiptFree(file[q])
  \/ step[q] = "writeFrom" /\ WaitsForRow(q, from[q])
  \/ step[q] = "writeTo" /\ WaitsForRow(q, to[q])
  \/ step[q] = "attest" /\ ~RowFree(q, to[q])

\* The receipt's row, the advisory lock and the transactions' rows are waited for
\* in orders that never close a circle: some request in flight waits for none.
NobodyWaitsForEver == ~AtRest => \E q \in Requests : step[q] # "idle" /\ ~Waits(q)

Kept(t) == Evidence(t)' = Evidence(t) /\ status'[t] = status[t]

\* A receipt is moved from t straight to another transaction; a request writes that
\* checked the date of t before the period was locked.
Moves(q, t) == step[q] = "commit" /\ from[q] = t /\ to[q] \in Txns \ {t}
Overtaken(q, t) == q \in late /\ step'[q] = "idle" /\ t \in Checked(q)

\* The evidence of a transaction in a locked period stays: no receipt joins it
\* or leaves it, and its status stays, but for a receipt that is moved from it
\* straight to another transaction (only the date of the one joined is checked), and
\* for a request that is at work on it when the period is locked (nothing holds the
\* lock still between its check and its commit).
LockedEvidenceKept ==
  [][\A t \in locked \intersect locked' :
       Kept(t) \/ \E q \in Requests : Moves(q, t) \/ Overtaken(q, t)]_vars
=============================================================================
