---------------------------- MODULE LedgerProofs ----------------------------
(***************************************************************************)
(* What the accounting lock and the reset of Ledger guarantee, for every   *)
(* number of rows and requests and every range of dates.  A request's      *)
(* check is worth something only while the lock stands still and no row is *)
(* added beside the requests; Undisturbed says what the requests in flight *)
(* may rely on until then, and is inductive.                               *)
(***************************************************************************)
EXTENDS Ledger, TLAPS

\* A step keeps what a request in flight relies on when rows only move to
\* unlocked dates, only unlocked rows come to life or into the batch,
\* and the lock does not move up.
Quiet ==
  /\ lock' \in 0..lock /\ posted \subseteq posted'
  /\ \A t \in Txns : date'[t] = date[t] \/ Unlocked(date'[t])
  /\ \A t \in live' : t \in live \/ Unlocked(date'[t])
  /\ \A t \in imported' \intersect live' : t \in imported \/ Unlocked(date'[t])
Unmoved(r) ==
  /\ step'[r] = step[r] /\ op'[r] = op[r] /\ target'[r] = target[r]
  /\ seen'[r] = seen[r] /\ newDate'[r] = newDate[r]

\* The administrator's lock and the bank feed.
OtherStep ==
  \/ \E d \in LockDates : saveAccountingLockState(d)
  \/ createImportBatch \/ finalizeImportBatch
  \/ \E t \in Txns : Sync(t)

RequestStep(r) == Ask(r) \/ CheckDates(r) \/ Scan(r) \/ Write(r) \/ GiveUp(r)

LEMMA InitIInv == Init => IInv
<1> SUFFICES ASSUME Init PROVE IInv
  OBVIOUS
<1>1. RowsTyped
  <2>1. date \in [Txns -> Dates] /\ lock \in 0..MaxDate /\ before \subseteq Txns \X Txns
    BY LedgerConstants DEF Init, Dates
  <2> QED BY <2>1 DEF Init, RowsTyped, Batch
<1>2. RequestsTyped
  <2>1. step \in [Requests -> Step] /\ op \in [Requests -> RowOps \union ScanOps \union InsertOps]
    BY DEF Init, Step, RowOps, ScanOps, InsertOps
  <2>2. seen \in [Requests -> 0..MaxDate] /\ newDate \in [Requests -> Dates]
    BY LedgerConstants DEF Init, Dates
  <2> QED BY <2>1, <2>2 DEF Init, RequestsTyped
<1>3. TargetsPosted /\ \A r \in Requests : Relies(r) /\ Candidate(r)
  BY DEF Init, TargetsPosted, Relies, Candidate, At
<1> QED BY <1>1, <1>2, <1>3 DEF IInv, TypeOK, Undisturbed

----------------------------------------------------------------------------
(* Type correctness. *)

LEMMA SetRequestTyped ==
  ASSUME RequestsTyped, TargetsPosted, posted \subseteq posted',
         disturbed' \in BOOLEAN, raced' \subseteq Requests,
         NEW r \in Requests, NEW o \in RowOps \union ScanOps \union InsertOps, NEW st \in Step,
         NEW t \in Txns \union {NoTxn}, NEW s \in 0..MaxDate, NEW d \in Dates,
         SetRequest(r, o, st, t, s, d),
         st = "idle" \/ o \notin RowOps \/ t \in posted'
  PROVE  RequestsTyped' /\ TargetsPosted'
<1>1. RequestsTyped'
  BY DEF RequestsTyped, SetRequest
<1>2. TargetsPosted'
  BY DEF RequestsTyped, TargetsPosted, SetRequest
<1> QED BY <1>1, <1>2

LEMMA EndTyped ==
  ASSUME RequestsTyped, TargetsPosted, posted \subseteq posted', NEW r \in Requests,
         Reset(r), disturbed' \in BOOLEAN, raced' \subseteq Requests
  PROVE  RequestsTyped' /\ TargetsPosted'
<1>1. "create" \in RowOps \union ScanOps \union InsertOps /\ "idle" \in Step
      /\ 0 \in 0..MaxDate /\ 1 \in Dates
  BY LedgerConstants DEF InsertOps, Step, Dates
<1> QED BY <1>1, SetRequestTyped DEF Reset

LEMMA TypeAsk ==
  ASSUME TypeOK, NEW r \in Requests, Ask(r)
  PROVE  TypeOK'
<1> USE LedgerConstants DEF Step, RowOps, ScanOps, InsertOps, Dates
<1>1. UNCHANGED <<rowVars, lock, history>>
  BY DEF Ask, CheckCreate, LoadLockForImport, ReadRow, ReadCandidate, LoadLock, Begin
<1>2. RowsTyped'
  BY <1>1 DEF TypeOK, RowsTyped, rowVars
<1>3. PICK o \in RowOps \union ScanOps \union InsertOps, st \in Step,
           t \in Txns \union {NoTxn}, s \in 0..MaxDate, d \in Dates :
        SetRequest(r, o, st, t, s, d) /\ (o \in RowOps => t \in posted)
  <2>1. CASE \E d \in Dates : CheckCreate(r, d)
    BY <2>1 DEF CheckCreate, Begin
  <2>2. CASE LoadLockForImport(r)
    BY <2>2 DEF LoadLockForImport, Begin, TypeOK, RowsTyped
  <2>3. CASE \E t \in Txns, d \in Dates : ReadRow(r, t, d)
    <3>1. PICK t \in Txns, d \in Dates : ReadRow(r, t, d)
      BY <2>3
    <3>2. PICK o \in RowOps : SetRequest(r, o, "read", t, date[t], d)
      BY <3>1 DEF ReadRow, Begin
    <3>3. t \in posted /\ date[t] \in 0..MaxDate
      BY <3>1 DEF ReadRow, TypeOK, RowsTyped
    <3> QED BY <3>2, <3>3
  <2>4. CASE \E t \in Txns : ReadCandidate(r, t)
    BY <2>4 DEF ReadCandidate, Restorable, Begin, TypeOK, RowsTyped
  <2>5. CASE LoadLock(r)
    BY <2>5 DEF LoadLock, Begin, TypeOK, RowsTyped
  <2> QED BY <2>1, <2>2, <2>3, <2>4, <2>5 DEF Ask
<1>4. RequestsTyped' /\ TargetsPosted'
  <2>1. posted' = posted /\ disturbed' \in BOOLEAN /\ raced' \subseteq Requests
    BY <1>1 DEF TypeOK, RequestsTyped, rowVars, history
  <2>2. RequestsTyped /\ TargetsPosted
    BY DEF TypeOK
  <2>3. st = "idle" \/ o \notin RowOps \/ t \in posted'
    BY <1>3, <2>1
  <2> QED BY <1>3, <2>1, <2>2, <2>3, SetRequestTyped
<1> QED BY <1>2, <1>4 DEF TypeOK

LEMMA TypeCheck ==
  ASSUME TypeOK, NEW r \in Requests, CheckDates(r) \/ Scan(r) \/ GiveUp(r)
  PROVE  TypeOK'
<1>1. UNCHANGED <<rowVars, lock>>
  BY DEF CheckDates, Scan, GiveUp
<1>2. RowsTyped'
  BY <1>1 DEF TypeOK, RowsTyped, rowVars
<1>3. disturbed' \in BOOLEAN /\ raced' \subseteq Requests
      /\ (Reset(r) \/ (step[r] = "read" /\ Pass(r)))
  BY DEF CheckDates, Scan, GiveUp, End, Calm, Pass, history, TypeOK, RequestsTyped
<1>4. CASE Reset(r)
  BY <1>1, <1>2, <1>3, <1>4, EndTyped DEF TypeOK, rowVars
<1>5. CASE step[r] = "read" /\ Pass(r)
  <2>1. "checked" \in Step /\ 0 \in 0..MaxDate
    BY LedgerConstants DEF Step
  <2>2. op[r] \in RowOps \union ScanOps \union InsertOps /\ target[r] \in Txns \union {NoTxn}
        /\ newDate[r] \in Dates /\ (op[r] \in RowOps => target[r] \in posted')
    BY <1>1, <1>5 DEF TypeOK, RequestsTyped, TargetsPosted, rowVars
  <2>3. SetRequest(r, op[r], "checked", target[r], 0, newDate[r])
    BY <1>5 DEF Pass
  <2>4. RequestsTyped' /\ TargetsPosted'
    BY <1>1, <1>3, <2>1, <2>2, <2>3, SetRequestTyped DEF TypeOK, rowVars
  <2> QED BY <1>2, <2>4 DEF TypeOK
<1> QED BY <1>3, <1>4, <1>5

LEMMA TypeWrite ==
  ASSUME TypeOK, NEW r \in Requests, Write(r)
  PROVE  TypeOK'
<1> USE LedgerConstants DEF Dates
<1>1. RowsTyped' /\ posted \subseteq posted'
  <2> USE DEF TypeOK, RowsTyped
  <2>1. CASE InsertCreated(r)   BY <2>1 DEF InsertCreated, Insert, RequestsTyped
  <2>2. CASE InsertImported(r)  BY <2>2 DEF InsertImported, Insert, Batch
  <2>3. CASE UpdateRow(r)
    BY <2>3 DEF UpdateRow, Flip, At, TargetsPosted, RequestsTyped, RowOps
  <2>4. CASE PatchRow(r)
    BY <2>4 DEF PatchRow, Flip, At, TargetsPosted, RowOps
  <2>5. CASE archiveTransaction(r)
    BY <2>5 DEF archiveTransaction, Archive, Restorable, At, TargetsPosted, RowOps
  <2>6. CASE restoreMostRecentArchivedTransaction(r)
    BY <2>6 DEF restoreMostRecentArchivedTransaction, Forget, At, TargetsPosted, RowOps
  <2>7. CASE BulkDelete(r)      BY <2>7 DEF BulkDelete
  <2>8. CASE MarkArchived(r)    BY <2>8 DEF MarkArchived
  <2>9. CASE revertImportBatch(r)  BY <2>9 DEF revertImportBatch, Archive, Restorable
  <2> QED BY <2>1, <2>2, <2>3, <2>4, <2>5, <2>6, <2>7, <2>8, <2>9 DEF Write
<1>2. disturbed' \in BOOLEAN /\ raced' \subseteq Requests
      /\ (Reset(r) \/ BulkDelete(r))
  BY DEF TypeOK, RequestsTyped, Write, InsertCreated, InsertImported, UpdateRow, PatchRow,
         archiveTransaction, restoreMostRecentArchivedTransaction, BulkDelete, MarkArchived,
         revertImportBatch, End, Calm, Undos
<1>3. CASE Reset(r)
  BY <1>1, <1>2, <1>3, EndTyped DEF TypeOK
<1>4. CASE BulkDelete(r)
  <2>1. op[r] \notin RowOps /\ UNCHANGED <<posted, op, target, seen, newDate>>
        /\ step' = [step EXCEPT ![r] = "marking"]
    BY <1>4 DEF BulkDelete, At, Goto, RowOps
  <2>2. RequestsTyped' /\ TargetsPosted'
    BY <1>2, <2>1 DEF TypeOK, RequestsTyped, TargetsPosted, Step
  <2> QED BY <1>1, <2>2 DEF TypeOK
<1> QED BY <1>2, <1>3, <1>4

\* Beside the requests, the administrator's lock and the bank feed write.
LEMMA TypeOthers ==
  ASSUME TypeOK, OtherStep
  PROVE  TypeOK'
<1>1. UNCHANGED requestVars /\ disturbed' \in BOOLEAN /\ raced' \subseteq Requests
  BY DEF OtherStep, saveAccountingLockState, createImportBatch, finalizeImportBatch, Sync, SyncModified,
         SyncRemoved, SyncAdded, Disturb, history, requestVars, TypeOK, RequestsTyped
<1>2. RowsTyped' /\ posted \subseteq posted'
  <2> USE DEF TypeOK, RowsTyped
  <2>1. ASSUME NEW d \in LockDates, saveAccountingLockState(d)
        PROVE  RowsTyped' /\ posted \subseteq posted'
    BY <2>1, LedgerConstants DEF saveAccountingLockState, rowVars
  <2>2. ASSUME NEW t \in Txns, SyncModified(t) PROVE RowsTyped' /\ posted \subseteq posted'
    BY <2>2 DEF SyncModified, Flip
  <2>3. ASSUME NEW t \in Txns, SyncRemoved(t) PROVE RowsTyped' /\ posted \subseteq posted'
    BY <2>3 DEF SyncRemoved, Archive, Restorable
  <2>4. ASSUME NEW t \in Txns, NEW d \in Dates, SyncAdded(t, d)
        PROVE  RowsTyped' /\ posted \subseteq posted'
    BY <2>4 DEF SyncAdded, Insert
  <2>5. ASSUME createImportBatch \/ finalizeImportBatch PROVE RowsTyped' /\ posted \subseteq posted'
    BY <2>5 DEF createImportBatch, finalizeImportBatch, Batch
  <2> QED BY <2>1, <2>2, <2>3, <2>4, <2>5 DEF OtherStep, Sync
<1> QED BY <1>1, <1>2 DEF TypeOK, RequestsTyped, TargetsPosted, requestVars

LEMMA NextType == TypeOK /\ [Next]_vars => TypeOK'
<1>1. CASE UNCHANGED vars
  BY <1>1 DEF vars, rowVars, requestVars, history, TypeOK, RowsTyped, RequestsTyped, TargetsPosted
<1>2. ASSUME TypeOK, Next PROVE TypeOK'
  BY <1>2, TypeAsk, TypeCheck, TypeWrite, TypeOthers DEF Next, OtherStep
<1> QED BY <1>1, <1>2

\* Type correctness of Ledger, whatever the lock and the bank feed do.
THEOREM TypeCorrect == Spec => []TypeOK
<1>1. Init => TypeOK
  BY InitIInv DEF IInv
<1> QED BY <1>1, NextType, PTL DEF Spec

----------------------------------------------------------------------------
(* What requests in flight rely on.  A request's step either leaves all of  *)
(* them idle, or forgets no disturbance.                                    *)

LEMMA Disturbance ==
  ASSUME TypeOK, NEW r \in Requests, RequestStep(r)
  PROVE  (\A q \in Requests : step'[q] = "idle") \/ (disturbed => disturbed')
<1>1. CASE Alone(r) /\ Reset(r)
  BY <1>1 DEF Reset, SetRequest, Alone, TypeOK, RequestsTyped
<1>2. CASE ~(Alone(r) /\ Reset(r))
  BY <1>2 DEF RequestStep, Ask, CheckCreate, LoadLockForImport, ReadRow, ReadCandidate, LoadLock,
              Begin, CheckDates, Scan, GiveUp, Write, InsertCreated, InsertImported, UpdateRow,
              PatchRow, archiveTransaction, restoreMostRecentArchivedTransaction, BulkDelete,
              MarkArchived, revertImportBatch, Pass, End, Calm, history
<1> QED BY <1>1, <1>2

LEMMA IdleRelies ==
  ASSUME NEW r \in Requests, step'[r] = "idle"
  PROVE  Relies(r)' /\ Candidate(r)'
BY DEF Relies, Candidate, At

\* A request's own write touches unlocked rows only.
LEMMA WritesUnlocked ==
  ASSUME TypeOK, NEW r \in Requests, Relies(r), Write(r)
  PROVE  TouchesUnlockedOnly /\ Quiet
<1> USE DEF TypeOK, RowsTyped, RequestsTyped, TargetsPosted, RowOps, ScanOps, TouchesUnlockedOnly,
        Touched, Quiet, At
<1>1. CASE InsertCreated(r)
  BY <1>1 DEF InsertCreated, Insert, Relies, Unlocked
<1>2. CASE InsertImported(r)
  BY <1>2, LedgerConstants DEF InsertImported, Insert, Relies, Unlocked, Dates
<1>3. CASE UpdateRow(r)
  BY <1>3 DEF UpdateRow, Flip, Relies, Unlocked
<1>4. CASE PatchRow(r)
  BY <1>4 DEF PatchRow, Flip, Relies, Unlocked
<1>5. CASE archiveTransaction(r)
  BY <1>5 DEF archiveTransaction, Archive, Relies, Unlocked
<1>6. CASE restoreMostRecentArchivedTransaction(r)
  BY <1>6 DEF restoreMostRecentArchivedTransaction, Relies, Unlocked
<1>7. CASE BulkDelete(r)
  BY <1>7 DEF BulkDelete, Relies, Scope, Unlocked
<1>8. CASE MarkArchived(r)
  BY <1>8 DEF MarkArchived, Unlocked
<1>9. CASE revertImportBatch(r)
  BY <1>9 DEF revertImportBatch, Archive, Relies, Scope, Unlocked
<1> QED BY <1>1, <1>2, <1>3, <1>4, <1>5, <1>6, <1>7, <1>8, <1>9 DEF Write

\* A request that does not move relies on nothing that a quiet step changes.
LEMMA OthersStillRely ==
  ASSUME TypeOK, TypeOK', NEW r \in Requests, Relies(r), Unmoved(r), Quiet
  PROVE  Relies(r)'
<1> USE LedgerConstants DEF TypeOK, RowsTyped, RequestsTyped, TargetsPosted, Dates
<1>1. step[r] = "checked" /\ op[r] \in ScanOps => \A t \in Scope(r)' : Unlocked(date[t])'
  BY DEF Relies, Scope, Unlocked, Quiet, Unmoved, ScanOps
<1> QED BY <1>1 DEF Relies, Unmoved, Unlocked, Quiet, At, RowOps

\* A request's own first statement or check leaves it able to rely.
LEMMA AskRelies ==
  ASSUME TypeOK, NEW r \in Requests, Ask(r)
  PROVE  Relies(r)' /\ Quiet
<1> USE LedgerConstants DEF TypeOK, RowsTyped, RequestsTyped, Begin, SetRequest, Relies, At,
        Unlocked, Quiet, rowVars, RowOps, ScanOps, InsertOps
<1>1. CASE \E d \in Dates : CheckCreate(r, d)
  BY <1>1 DEF CheckCreate
<1>2. CASE LoadLockForImport(r)
  BY <1>2 DEF LoadLockForImport
<1>3. CASE \E t \in Txns, d \in Dates : ReadRow(r, t, d)
  BY <1>3 DEF ReadRow
<1>4. CASE \E t \in Txns : ReadCandidate(r, t)
  BY <1>4 DEF ReadCandidate
<1>5. CASE LoadLock(r)
  BY <1>5 DEF LoadLock
<1> QED BY <1>1, <1>2, <1>3, <1>4, <1>5 DEF Ask

LEMMA CheckRelies ==
  ASSUME TypeOK, NEW r \in Requests, Relies(r), CheckDates(r) \/ Scan(r) \/ GiveUp(r)
  PROVE  Relies(r)' /\ Quiet
<1> USE LedgerConstants DEF TypeOK, RowsTyped, RequestsTyped, Pass, End, Reset, SetRequest, Relies,
        At, Unlocked, Quiet, rowVars, RowOps, ScanOps, InsertOps, Dates
<1>1. CASE CheckDates(r)
  BY <1>1 DEF CheckDates
<1>2. CASE Scan(r)
  BY <1>2 DEF Scan, Scope
<1>3. CASE GiveUp(r)
  BY <1>3 DEF GiveUp
<1> QED BY <1>1, <1>2, <1>3

\* After its write a request is idle, or marks what was archived before.
LEMMA WriteEnds ==
  ASSUME TypeOK, NEW r \in Requests, Write(r)
  PROVE  step'[r] = "idle" \/ (step'[r] = "marking" /\ op'[r] = "bulk")
BY DEF TypeOK, RequestsTyped, Write, InsertCreated, InsertImported, UpdateRow, PatchRow,
       archiveTransaction, restoreMostRecentArchivedTransaction, BulkDelete, MarkArchived,
       revertImportBatch, End, Reset, Goto, SetRequest, At

LEMMA OthersUnmoved ==
  ASSUME TypeOK, NEW r \in Requests, RequestStep(r), NEW q \in Requests \ {r}
  PROVE  Unmoved(q)
<1>1. (\E o, st, t, s, d : SetRequest(r, o, st, t, s, d)) \/ (\E st : Goto(r, st))
  BY DEF RequestStep, Ask, CheckCreate, LoadLockForImport, ReadRow, ReadCandidate, LoadLock, Begin,
         CheckDates, Scan, GiveUp, Write, InsertCreated, InsertImported, UpdateRow, PatchRow,
         archiveTransaction, restoreMostRecentArchivedTransaction, BulkDelete, MarkArchived,
         revertImportBatch, Pass, End, Reset
<1> QED BY <1>1 DEF TypeOK, RequestsTyped, SetRequest, Goto, Unmoved

\* Where a reset writes, every undo in flight is raced; no other step adds to the
\* reset rows, and a request that was raced is so until it ends.
LEMMA ResetGrows ==
  ASSUME TypeOK, NEW r \in Requests, RequestStep(r), NEW q \in Requests \ {r}
  PROVE  /\ q \in raced => q \in raced'
         /\ bulk' \subseteq bulk \/ (q \in Undos => q \in raced')
<1>1. CASE BulkDelete(r) \/ MarkArchived(r)
  BY <1>1 DEF BulkDelete, MarkArchived
<1>2. CASE ~(BulkDelete(r) \/ MarkArchived(r))
  BY <1>2 DEF RequestStep, Ask, CheckCreate, LoadLockForImport, ReadRow, ReadCandidate, LoadLock,
              Begin, CheckDates, Scan, GiveUp, Write, InsertCreated, InsertImported, Insert, UpdateRow,
              PatchRow, archiveTransaction, restoreMostRecentArchivedTransaction, revertImportBatch,
              Pass, End, history, rowVars
<1> QED BY <1>1, <1>2

\* A request that was raced is so until it ends.
LEMMA OwnRace ==
  ASSUME TypeOK, NEW r \in Requests, RequestStep(r)
  PROVE  r \in raced => r \in raced' \/ step'[r] = "idle"
BY DEF RequestStep, Ask, CheckCreate, LoadLockForImport, ReadRow, ReadCandidate, LoadLock,
       Begin, CheckDates, Scan, GiveUp, Write, InsertCreated, InsertImported, UpdateRow,
       PatchRow, archiveTransaction, restoreMostRecentArchivedTransaction, BulkDelete,
       MarkArchived, revertImportBatch, Pass, End, Reset, SetRequest, history, TypeOK, RequestsTyped

LEMMA OwnCandidate ==
  ASSUME TypeOK, NEW r \in Requests, Candidate(r), RequestStep(r)
  PROVE  Candidate(r)'
<1>1. CASE Ask(r)
  BY <1>1 DEF Ask, CheckCreate, LoadLockForImport, ReadRow, ReadCandidate, Restorable, LoadLock,
              Begin, SetRequest, Candidate, TypeOK, RequestsTyped, rowVars
<1>2. CASE CheckDates(r) \/ Scan(r) \/ GiveUp(r)
  BY <1>2 DEF CheckDates, Scan, GiveUp, Pass, End, Reset, SetRequest, Candidate, TypeOK,
              RequestsTyped, rowVars
<1>3. CASE Write(r)
  BY <1>3, WriteEnds DEF Candidate
<1> QED BY <1>1, <1>2, <1>3 DEF RequestStep

\* A row that is part of a reset comes to life only by an undo that lost its candidate.
LEMMA ResetStays ==
  ASSUME TypeOK, NEW r \in Requests, Candidate(r), RequestStep(r)
  PROVE  bulk \intersect live' = {}
<1> USE DEF TypeOK, RowsTyped
<1>1. CASE Ask(r) \/ CheckDates(r) \/ Scan(r) \/ GiveUp(r)
  BY <1>1 DEF Ask, CheckCreate, LoadLockForImport, ReadRow, ReadCandidate, LoadLock, Begin,
              CheckDates, Scan, GiveUp, rowVars
<1>2. CASE Write(r)
  <2>1. CASE InsertCreated(r) \/ InsertImported(r)
    BY <2>1 DEF InsertCreated, InsertImported, Insert
  <2>2. CASE UpdateRow(r) \/ PatchRow(r) \/ MarkArchived(r)
    BY <2>2 DEF UpdateRow, PatchRow, MarkArchived
  <2>3. CASE archiveTransaction(r) \/ BulkDelete(r) \/ revertImportBatch(r)
    BY <2>3 DEF archiveTransaction, BulkDelete, revertImportBatch, Archive
  <2>4. CASE restoreMostRecentArchivedTransaction(r)
    BY <2>4 DEF restoreMostRecentArchivedTransaction, Candidate, At
  <2> QED BY <1>2, <2>1, <2>2, <2>3, <2>4 DEF Write
<1> QED BY <1>1, <1>2 DEF RequestStep

LEMMA RequestKeepsCandidates ==
  ASSUME IInv, NEW r \in Requests, RequestStep(r)
  PROVE  \A q \in Requests : q \notin raced' => Candidate(q)'
<1>1. ASSUME r \notin raced' PROVE Candidate(r)'
  BY <1>1, OwnRace, OwnCandidate, IdleRelies DEF IInv, Undisturbed
<1>2. ASSUME NEW q \in Requests \ {r}, q \notin raced' PROVE Candidate(q)'
  <2>1. Unmoved(q) /\ Candidate(q)
    BY <1>2, OthersUnmoved, ResetGrows DEF IInv, Undisturbed
  <2>2. CASE bulk' \subseteq bulk
    BY <2>1, <2>2 DEF Candidate, Unmoved
  <2>3. CASE q \notin Undos
    BY <1>2, <2>1, <2>3 DEF Undos, Candidate, Unmoved
  <2> QED BY <1>2, <2>2, <2>3, ResetGrows DEF IInv
<1> QED BY <1>1, <1>2

LEMMA RequestKeeps ==
  ASSUME IInv, NEW r \in Requests, RequestStep(r)
  PROVE  Undisturbed'
<1>1. CASE \A q \in Requests : step'[q] = "idle"
  BY <1>1, IdleRelies DEF Undisturbed
<1>2. CASE disturbed => disturbed'
  <2>1. ASSUME ~disturbed' PROVE \A q \in Requests : Relies(q)'
    <3>1. \A q \in Requests : Relies(q)
      BY <1>2, <2>1 DEF IInv, Undisturbed
    <3>2. Quiet
      BY <3>1, AskRelies, CheckRelies, WritesUnlocked DEF IInv, RequestStep
    <3>3. Relies(r)'
      <4>1. CASE Write(r)
        BY <4>1, WriteEnds DEF IInv, Relies, At
      <4> QED BY <3>1, <4>1, AskRelies, CheckRelies DEF IInv, RequestStep
    <3>4. \A q \in Requests \ {r} : Relies(q)'
      <4>1. TypeOK'
        BY NextType DEF IInv, Next, RequestStep
      <4> QED BY <3>1, <3>2, <4>1, OthersUnmoved, OthersStillRely DEF IInv
    <3> QED BY <3>3, <3>4
  <2> QED BY <2>1, RequestKeepsCandidates DEF Undisturbed
<1> QED BY <1>1, <1>2, RequestKeepsCandidates, Disturbance DEF IInv

\* A row that the bank feed adds is in no scope but a reset's, or a revert's of its batch.
LEMMA AddedRelies ==
  ASSUME TypeOK, NEW t \in Txns, NEW d \in Dates, SyncAdded(t, d), NEW r \in Requests, Relies(r),
         ~MissedByScan(r, t)
  PROVE  Relies(r)'
<1> USE DEF TypeOK, RowsTyped, RequestsTyped, TargetsPosted, SyncAdded, Insert, requestVars
<1>1. step[r] = "checked" /\ op[r] \in ScanOps => \A u \in Scope(r)' : Unlocked(date[u])'
  BY DEF Relies, Scope, Unlocked, At, ScanOps, MissedByScan
<1> QED BY <1>1 DEF Relies, Unlocked, At, RowOps

LEMMA OthersKeep ==
  ASSUME IInv, OtherStep
  PROVE  Undisturbed' /\ bulk \intersect live' = {} /\ UNCHANGED step
<1> USE DEF IInv, TypeOK, RowsTyped
<1>1. UNCHANGED <<requestVars, bulk, raced>> /\ bulk \intersect live' = {}
  <2>1. ASSUME NEW d \in LockDates, saveAccountingLockState(d)
        PROVE  UNCHANGED <<requestVars, bulk, raced>> /\ bulk \intersect live' = {}
    BY <2>1 DEF saveAccountingLockState, Disturb, rowVars
  <2>2. ASSUME NEW t \in Txns, Sync(t)
        PROVE  UNCHANGED <<requestVars, bulk, raced>> /\ bulk \intersect live' = {}
    BY <2>2 DEF Sync, SyncModified, SyncRemoved, SyncAdded, Archive, Insert, Disturb, history
  <2>3. ASSUME createImportBatch \/ finalizeImportBatch
        PROVE  UNCHANGED <<requestVars, bulk, raced>> /\ bulk \intersect live' = {}
    BY <2>3 DEF createImportBatch, finalizeImportBatch, history
  <2> QED BY <2>1, <2>2, <2>3 DEF OtherStep
<1>2. \A r \in Requests : Unmoved(r) /\ (Candidate(r) => Candidate(r)')
  BY <1>1 DEF requestVars, Unmoved, Candidate
<1>3. ASSUME ~disturbed', NEW r \in Requests PROVE Relies(r)'
  <2>1. Quiet => Relies(r)'
    <3>1. ~disturbed
      BY <1>3 DEF OtherStep, saveAccountingLockState, createImportBatch, finalizeImportBatch, Sync,
                  SyncModified, SyncRemoved, SyncAdded, Disturb, history
    <3>2. TypeOK'
      BY NextType DEF IInv, Next, OtherStep
    <3> QED BY <1>2, <3>1, <3>2, OthersStillRely DEF IInv, Undisturbed
  <2>2. ASSUME NEW d \in LockDates, saveAccountingLockState(d) PROVE Relies(r)'
    <3>1. CASE AllIdle
      BY <2>2, <3>1, IdleRelies DEF AllIdle, saveAccountingLockState, requestVars
    <3>2. CASE ~AllIdle
      <4>1. d \in 0..MaxDate /\ ~(lock < d)
        BY <1>3, <2>2, <3>2, LedgerConstants DEF saveAccountingLockState, Disturb
      <4>2. Quiet
        BY <2>2, <4>1, LedgerConstants DEF saveAccountingLockState, rowVars, Quiet
      <4> QED BY <2>1, <4>2
    <3> QED BY <3>1, <3>2
  <2>3. ASSUME NEW t \in Txns, SyncModified(t) \/ SyncRemoved(t) PROVE Relies(r)'
    BY <2>1, <2>3 DEF SyncModified, SyncRemoved, Archive, Quiet
  <2>4. ASSUME NEW t \in Txns, NEW d \in Dates, SyncAdded(t, d) PROVE Relies(r)'
    <3>1. CASE Unlocked(d)
      BY <2>1, <2>4, <3>1 DEF SyncAdded, Insert, Quiet
    <3>2. CASE ~Unlocked(d)
      <4>1. ~disturbed /\ ~MissedByScan(r, t)
        BY <1>3, <2>4, <3>2 DEF SyncAdded, Disturb
      <4> QED BY <2>4, <4>1, AddedRelies DEF Undisturbed
    <3> QED BY <3>1, <3>2
  <2>5. ASSUME createImportBatch \/ finalizeImportBatch PROVE Relies(r)'
    BY <2>1, <2>5, LedgerConstants DEF createImportBatch, finalizeImportBatch, Quiet
  <2> QED BY <2>2, <2>3, <2>4, <2>5 DEF OtherStep, Sync
<1> QED BY <1>1, <1>2, <1>3 DEF Undisturbed, requestVars

LEMMA NextIInv == IInv /\ [Next]_vars => IInv'
<1> SUFFICES ASSUME IInv, [Next]_vars PROVE IInv'
  OBVIOUS
<1>1. TypeOK'
  BY NextType DEF IInv
<1>2. Undisturbed'
  <2>1. CASE UNCHANGED vars
    BY <2>1 DEF vars, rowVars, requestVars, history, IInv, Undisturbed, Relies, Candidate, At, Scope, Unlocked
  <2>2. CASE Next
    BY <2>2, RequestKeeps, OthersKeep DEF Next, RequestStep, OtherStep
  <2> QED BY <2>1, <2>2
<1> QED BY <1>1, <1>2 DEF IInv

LEMMA NextHonours ==
  IInv /\ [Next]_vars =>
    /\ step' # step /\ ~disturbed => TouchesUnlockedOnly
    /\ bulk \intersect live' # {} => \E r \in raced : step[r] # "idle" /\ step'[r] = "idle"
<1> SUFFICES ASSUME IInv, [Next]_vars
             PROVE  /\ step' # step /\ ~disturbed => TouchesUnlockedOnly
                    /\ bulk \intersect live' # {} => \E r \in raced : step[r] # "idle" /\ step'[r] = "idle"
  OBVIOUS
<1>1. CASE UNCHANGED vars
  BY <1>1 DEF vars, rowVars, requestVars, IInv, TypeOK, RowsTyped
<1>2. ASSUME NEW r \in Requests, RequestStep(r)
      PROVE  /\ ~disturbed => TouchesUnlockedOnly
             /\ bulk \intersect live' # {} => r \in raced /\ step[r] # "idle" /\ step'[r] = "idle"
  <2>1. CASE Write(r)
    <3>1. ~disturbed => TouchesUnlockedOnly
      BY <2>1, WritesUnlocked DEF IInv, Undisturbed
    <3>2. bulk \intersect live' # {} => r \in raced
      BY <1>2, ResetStays DEF IInv, Undisturbed
    <3>3. bulk \intersect live' # {} => At(r, "checked", "undo") /\ step'[r] = "idle"
      <4> USE DEF IInv, TypeOK, RowsTyped
      <4>1. CASE restoreMostRecentArchivedTransaction(r)
        BY <4>1 DEF restoreMostRecentArchivedTransaction, End, Reset, SetRequest, RequestsTyped
      <4>2. CASE ~restoreMostRecentArchivedTransaction(r)
        BY <2>1, <4>2 DEF Write, InsertCreated, InsertImported, Insert, UpdateRow, PatchRow,
              MarkArchived, archiveTransaction, BulkDelete, revertImportBatch, Archive
      <4> QED BY <4>1, <4>2
    <3> QED BY <3>1, <3>2, <3>3 DEF At
  <2>2. CASE Ask(r) \/ CheckDates(r) \/ Scan(r) \/ GiveUp(r)
    <3>1. UNCHANGED rowVars
      BY <2>2 DEF Ask, CheckCreate, LoadLockForImport, ReadRow, ReadCandidate, LoadLock, Begin,
                  CheckDates, Scan, GiveUp
    <3> QED BY <3>1 DEF IInv, TypeOK, RowsTyped, TouchesUnlockedOnly, Touched, rowVars
  <2> QED BY <1>2, <2>1, <2>2 DEF RequestStep
<1>3. CASE OtherStep
  BY <1>3, OthersKeep
<1> QED BY <1>1, <1>2, <1>3 DEF Next, RequestStep, OtherStep

----------------------------------------------------------------------------
\* What requests in flight rely on is inductive: whatever was read or checked still
\* holds when it is used, as long as nobody disturbed it.
THEOREM Inductive == Spec => []Undisturbed
<1>1. IInv => Undisturbed
  BY DEF IInv
<1> QED BY InitIInv, NextIInv, <1>1, PTL DEF Spec

\* The accounting lock is honoured by every request, however the requests' statements
\* interleave, unless the lock moved up under the requests in flight or the bank feed
\* added a locked row behind the scan of a reset or of a revert of the row's batch.
THEOREM LockHolds == Spec => LockHonoured
<1>1. IInv /\ [Next]_vars => [step' # step /\ ~disturbed => TouchesUnlockedOnly]_vars
  BY NextHonours
<1> QED BY InitIInv, NextIInv, <1>1, PTL DEF Spec, LockHonoured

\* A row that was part of a reset is not restored but by an undo that was in flight
\* when the reset wrote.
THEOREM ResetHolds == Spec => ResetHonoured
<1>1. IInv /\ [Next]_vars =>
        [bulk \intersect live' # {} => \E r \in raced : step[r] # "idle" /\ step'[r] = "idle"]_vars
  BY NextHonours
<1> QED BY InitIInv, NextIInv, <1>1, PTL DEF Spec, ResetHonoured
=============================================================================
