----------------------------- MODULE PlaidSync -----------------------------
(***************************************************************************)
(* A bank connection, the accounts linked to it and the transactions       *)
(* mirrored from the bank (routes/plaid.routes.js, services/               *)
(* bankConnectionService.js, routes/bank-connections.routes.js), with what *)
(* else touches those rows: archive, restore, a PUT that writes the amount *)
(* or the account, DELETE /accounts.  The bank is a log of changes; a      *)
(* cursor is a position in it.  No statement of a sync is in a transaction, nothing    *)
(* keeps two syncs apart.                                                  *)
(***************************************************************************)
EXTENDS Naturals, Sequences, FiniteSets

CONSTANTS
  Txns,           \* the bank's transaction ids (external_id)
  BankAccounts,   \* the accounts of the connection, as the bank knows them
  Manual,         \* an account of the business that is not linked
  NoAccount,      \* account_id NULL
  Home,           \* per transaction: its account at the bank
  Syncs,          \* POST /connections/:id/sync requests at one time
  Window,         \* changes one sync can fetch: 20 pages of 500
  MaxLog, MaxFaults, MaxEdits  \* bounds: changes, faults, the user's edits

ASSUME PlaidConstants ==
  /\ Manual \notin BankAccounts /\ NoAccount \notin BankAccounts \union {Manual}
  /\ Home \in [Txns -> BankAccounts]
  /\ Window \in Nat \ {0} /\ MaxLog \in Nat /\ MaxFaults \in Nat /\ MaxEdits \in Nat

Accounts == BankAccounts \union {Manual, NoAccount}

VARIABLES
  log,          \* the bank's changes, in order
  status, token, cursor,  \* the bank_connections row
  seeding,      \* accounts the exchange has still to insert
  linked,       \* the bank's accounts that have a row in accounts
  row,          \* per transaction and account: version of the amount a sync wrote
                \* to the row last, 0 if there is no row.
                \* (account_id, external_id) is unique: one row at most
  own,          \* <<transaction, account>> of rows whose amount a user has written
                \* since
  live,         \* <<transaction, account>> of rows that are not soft-deleted
  step,         \* per sync: where it is
  base, upto,   \* the cursor it read, and the next_cursor it was given
  added, modified, removed,  \* what it has still to apply
  seen,         \* accountMap
  failed,       \* failed > 0
  faults, edits,  \* how many there were
  moved,        \* history: transactions whose row left its account
  disturbed     \* history: syncs overlapped or failed, or a row was restored

bankVars == <<log>>
connVars == <<status, token, cursor>>
accountVars == <<seeding, linked>>
rowVars == <<row, own, live>>
syncVars == <<step, base, upto, added, modified, removed, seen, failed>>
vars == <<bankVars, connVars, accountVars, rowVars, syncVars, faults, edits,
          moved, disturbed>>

Status == {"none", "active", "error", "reauth_required", "disconnected"}
Change == [kind : {"added", "modified", "removed"}, txn : Txns]

TypeOK ==
  /\ log \in Seq(Change)
  /\ status \in Status /\ token \in BOOLEAN /\ cursor \in Nat
  /\ seeding \subseteq BankAccounts /\ linked \subseteq BankAccounts
  /\ row \in [Txns -> [Accounts -> Nat]]
  /\ live \subseteq {p \in Txns \X Accounts : row[p[1]][p[2]] # 0}
  /\ own \subseteq {p \in Txns \X Accounts : row[p[1]][p[2]] # 0}
  /\ step \in [Syncs -> {"idle", "fetch", "accounts", "apply"}]
  /\ base \in [Syncs -> Nat] /\ upto \in [Syncs -> Nat]
  /\ added \in [Syncs -> SUBSET Txns] /\ modified \in [Syncs -> SUBSET Txns]
  /\ removed \in [Syncs -> SUBSET Txns] /\ seen \in [Syncs -> SUBSET BankAccounts]
  /\ failed \in [Syncs -> BOOLEAN]
  /\ faults \in Nat /\ edits \in Nat
  /\ moved \subseteq Txns /\ disturbed \in BOOLEAN

Init ==
  /\ log = <<>>
  /\ status = "none" /\ token = FALSE /\ cursor = 0
  /\ seeding = {} /\ linked = {}
  /\ row = [t \in Txns |-> [a \in Accounts |-> 0]] /\ own = {} /\ live = {}
  /\ step = [s \in Syncs |-> "idle"]
  /\ base = [s \in Syncs |-> 0] /\ upto = [s \in Syncs |-> 0]
  /\ added = [s \in Syncs |-> {}] /\ modified = [s \in Syncs |-> {}]
  /\ removed = [s \in Syncs |-> {}] /\ seen = [s \in Syncs |-> {}]
  /\ failed = [s \in Syncs |-> FALSE]
  /\ faults = 0 /\ edits = 0
  /\ moved = {} /\ disturbed = FALSE

-----------------------------------------------------------------------------
\* The bank.

\* t had a change of this kind among those after position lo, up to hi.
Happened(kind, t, lo, hi) ==
  \E i \in DOMAIN log : lo < i /\ i <= hi /\ log[i] = [kind |-> kind, txn |-> t]

\* The amount of t at position hi: the last change that set it.
SetsAmount(t, i) == log[i].txn = t /\ log[i].kind # "removed"
LastAmount(t, I) ==
  CHOOSE i \in I \union {0} : /\ i # 0 => SetsAmount(t, i)
                            /\ \A j \in I : SetsAmount(t, j) => j <= i
\* Mutant of Version: the page's last change is left out.
VersionBefore(t, hi) == LastAmount(t, {i \in DOMAIN log : i < hi})
Version(t, hi) == LastAmount(t, {i \in DOMAIN log : i <= hi})

Known(t) == Happened("added", t, 0, Len(log))
Gone(t) == Happened("removed", t, 0, Len(log))
\* Ids are not used twice; nothing happens to a transaction before it is added
\* or after it is removed.
BankChanges(kind, t) ==
  /\ Len(log) < MaxLog
  /\ IF kind = "added" THEN ~Known(t) ELSE Known(t) /\ ~Gone(t)
  /\ log' = Append(log, [kind |-> kind, txn |-> t])
  /\ UNCHANGED <<connVars, accountVars, rowVars, syncVars, faults, edits, moved, disturbed>>

Fault == faults < MaxFaults /\ faults' = faults + 1

-----------------------------------------------------------------------------
\* POST /exchange-public-token: the connection's row, then one upsert per account.
createBankConnection ==
  /\ status = "none"
  /\ status' = "active" /\ token' = TRUE /\ UNCHANGED cursor
  /\ seeding' = BankAccounts
  /\ UNCHANGED <<bankVars, linked, rowVars, syncVars, faults, edits, moved, disturbed>>

SeedAccount(a) ==
  /\ a \in seeding /\ seeding' = seeding \ {a} /\ linked' = linked \union {a}
  /\ UNCHANGED <<bankVars, connVars, rowVars, syncVars, faults, edits, moved, disturbed>>

\* The upsert fails and is logged, or the process ends here.
SeedFails(a) ==
  /\ Fault
  /\ a \in seeding /\ seeding' \in {seeding \ {a}, {}}
  /\ UNCHANGED <<bankVars, connVars, linked, rowVars, syncVars, edits, moved, disturbed>>

InFlight == {s \in Syncs : step[s] # "idle"}

\* DELETE /bank-connections/:id.
disconnectBankConnection ==
  /\ status \notin {"none", "disconnected"}
  /\ status' = "disconnected" /\ token' = FALSE /\ UNCHANGED cursor
  /\ UNCHANGED <<bankVars, accountVars, rowVars, syncVars, faults, edits, moved, disturbed>>

-----------------------------------------------------------------------------
\* POST /connections/:id/sync.
HasToken == token

\* getBankConnection, decryptAccessToken; without a token, 409 and nothing else.
StartSync(s) ==
  /\ step[s] = "idle" /\ HasToken
  /\ step' = [step EXCEPT ![s] = "fetch"]
  /\ base' = [base EXCEPT ![s] = cursor]
  /\ disturbed' = (disturbed \/ InFlight # {})
  /\ UNCHANGED <<bankVars, connVars, accountVars, rowVars, upto, added, modified,
                 removed, seen, failed, faults, edits, moved>>

\* Where the loop over the pages ends: at the end of the log or at its cap.
Reach(lo) == IF lo + Window < Len(log) THEN lo + Window ELSE Len(log)

\* The pages give every changed transaction once, as it is at the end: a new one
\* as added, with its last amount, and not at all in added if it is gone again.
Fetch(s) ==
  LET lo == base[s]
      hi == Reach(lo)
      out == {t \in Txns : Happened("removed", t, lo, hi)}
      in == {t \in Txns : Happened("added", t, lo, hi)} \ out
  IN  /\ step[s] = "fetch"
      /\ step' = [step EXCEPT ![s] = "accounts"]
      /\ upto' = [upto EXCEPT ![s] = hi]
      /\ added' = [added EXCEPT ![s] = in]
      /\ modified' = [modified EXCEPT ![s] =
                       {t \in Txns : Happened("modified", t, lo, hi)} \ (in \union out)]
      /\ removed' = [removed EXCEPT ![s] = out]
      /\ UNCHANGED <<bankVars, connVars, accountVars, rowVars, base, seen, failed,
                     faults, edits, moved, disturbed>>

\* A finished or dead sync keeps nothing.
Forget(s) ==
  /\ step' = [step EXCEPT ![s] = "idle"]
  /\ base' = [base EXCEPT ![s] = 0] /\ upto' = [upto EXCEPT ![s] = 0]
  /\ added' = [added EXCEPT ![s] = {}] /\ modified' = [modified EXCEPT ![s] = {}]
  /\ removed' = [removed EXCEPT ![s] = {}] /\ seen' = [seen EXCEPT ![s] = {}]
  /\ failed' = [failed EXCEPT ![s] = FALSE]

\* transactionsSync throws: the status is written, the cursor is not.
FetchFails(s) ==
  /\ Fault /\ step[s] = "fetch"
  /\ status' \in {"error", "reauth_required"}
  /\ Forget(s)
  /\ disturbed' = TRUE
  /\ UNCHANGED <<bankVars, token, cursor, accountVars, rowVars, edits, moved>>

ReadAccounts(s) ==
  /\ step[s] = "accounts"
  /\ step' = [step EXCEPT ![s] = "apply"]
  /\ seen' = [seen EXCEPT ![s] = linked]
  /\ UNCHANGED <<bankVars, connVars, accountVars, rowVars, base, upto, added, modified,
                 removed, failed, faults, edits, moved, disturbed>>

Fails(s) == failed' = [failed EXCEPT ![s] = TRUE]

\* One row of added: INSERT .. ON CONFLICT (account_id, external_id) DO NOTHING.
\* No account in the map, or none any more (foreign key): the row failed.
\* Mutant of Conflicts: only rows that are not deleted count.
ConflictsIfLive(t, a) == <<t, a>> \in live
Conflicts(t, a) == row[t][a] # 0
\* Mutant of Duplicate: a row that is there already is a failure.
DuplicateFails(s) == Fails(s) /\ UNCHANGED rowVars
Duplicate(s) == UNCHANGED <<rowVars, failed>>
InsertAdded(s) ==
  \E t \in added[s] :
    /\ step[s] = "apply"
    /\ added' = [added EXCEPT ![s] = @ \ {t}]
    /\ \/ Home[t] \notin seen[s] \intersect linked /\ Fails(s) /\ UNCHANGED rowVars
       \/ /\ Home[t] \in seen[s] \intersect linked
          /\ IF Conflicts(t, Home[t]) THEN Duplicate(s)
             ELSE /\ row' = [row EXCEPT ![t][Home[t]] = Version(t, upto[s])]
                  /\ live' = live \union {<<t, Home[t]>>}
                  /\ UNCHANGED <<own, failed>>
    /\ UNCHANGED <<bankVars, connVars, accountVars, step, base, upto, modified, removed,
                   seen, faults, edits, moved, disturbed>>

\* One row of modified: found by external_id alone, deleted or not.
HasRow(t) == \E a \in Accounts : row[t][a] # 0
\* Mutant of Matches: the account is part of the WHERE.
MatchesAtHome(t, a) == row[t][a] # 0 /\ a = Home[t]
Matches(t, a) == row[t][a] # 0
UpdateModified(s) ==
  \E t \in modified[s] :
    /\ step[s] = "apply" /\ added[s] = {}
    /\ modified' = [modified EXCEPT ![s] = @ \ {t}]
    /\ IF HasRow(t)
       THEN /\ row' = [row EXCEPT ![t] = [a \in Accounts |->
                        IF Matches(t, a) THEN Version(t, upto[s]) ELSE row[t][a]]]
            /\ own' = {p \in own : ~(p[1] = t /\ Matches(t, p[2]))}
            /\ UNCHANGED failed
       ELSE Fails(s) /\ UNCHANGED <<row, own>>
    /\ UNCHANGED <<bankVars, connVars, accountVars, live, step, base, upto, added, removed,
                   seen, faults, edits, moved, disturbed>>

\* One row of removed: to find nothing to delete is no failure.
SoftDeleteRemoved(s) ==
  \E t \in removed[s] :
    /\ step[s] = "apply" /\ added[s] = {} /\ modified[s] = {}
    /\ removed' = [removed EXCEPT ![s] = @ \ {t}]
    /\ live' = {p \in live : p[1] # t}
    /\ UNCHANGED <<bankVars, connVars, accountVars, row, own, step, base, upto, added, modified,
                   seen, failed, faults, edits, moved, disturbed>>

\* The statement for one row throws: counted, and the loop goes on.
RowFails(s) ==
  /\ Fault /\ step[s] = "apply"
  /\ \/ /\ \E t \in added[s] : added' = [added EXCEPT ![s] = @ \ {t}]
        /\ UNCHANGED <<modified, removed>>
     \/ /\ added[s] = {} /\ \E t \in modified[s] : modified' = [modified EXCEPT ![s] = @ \ {t}]
        /\ UNCHANGED <<added, removed>>
     \/ /\ added[s] = {} /\ modified[s] = {}
        /\ \E t \in removed[s] : removed' = [removed EXCEPT ![s] = @ \ {t}]
        /\ UNCHANGED <<added, modified>>
  /\ Fails(s)
  /\ UNCHANGED <<bankVars, connVars, accountVars, rowVars, step, base, upto, seen,
                 edits, moved, disturbed>>

\* The cursor to write: the new one, or after a failed row the one that was read.
\* Mutant of NextCursor: it is moved whatever failed.
NextCursorAlways(s) == upto[s]
NextCursor(s) == IF failed[s] THEN base[s] ELSE upto[s]

FinishSync(s) ==
  /\ step[s] = "apply" /\ added[s] = {} /\ modified[s] = {} /\ removed[s] = {}
  /\ status' = IF failed[s] THEN "error" ELSE "active"
  /\ cursor' = NextCursor(s)
  /\ Forget(s)
  /\ disturbed' = (disturbed \/ failed[s])
  /\ UNCHANGED <<bankVars, token, accountVars, rowVars, faults, edits, moved>>

\* Any other statement throws, or the process ends: rows stay, nothing is recorded.
SyncDies(s) ==
  /\ Fault /\ step[s] # "idle"
  /\ Forget(s)
  /\ disturbed' = TRUE
  /\ UNCHANGED <<bankVars, connVars, accountVars, rowVars, edits, moved>>

-----------------------------------------------------------------------------
\* What the user does to the mirrored rows.
Edit == edits < MaxEdits /\ edits' = edits + 1

\* DELETE /transactions/:id.
ArchiveRow(t, a) ==
  /\ Edit /\ <<t, a>> \in live
  /\ live' = live \ {<<t, a>>}
  /\ UNCHANGED <<bankVars, connVars, accountVars, row, own, syncVars, faults, moved, disturbed>>

\* POST /transactions/undo-delete: also of a row the bank has removed.
RestoreRow(t, a) ==
  /\ Edit /\ row[t][a] # 0 /\ <<t, a>> \notin live
  /\ live' = live \union {<<t, a>>}
  /\ disturbed' = TRUE
  /\ UNCHANGED <<bankVars, connVars, accountVars, row, own, syncVars, faults, moved>>

\* PUT /transactions/:id of a live row writes its amount and date, whoever gave them
\* before; with another account, external_id goes with the row.
EditRow(t, a) ==
  /\ Edit /\ <<t, a>> \in live /\ a # NoAccount
  /\ own' = own \union {<<t, a>>}
  /\ UNCHANGED <<bankVars, connVars, accountVars, row, live, syncVars, faults, moved, disturbed>>

MoveRow(t, a, b) ==
  /\ Edit /\ <<t, a>> \in live /\ b \in linked \union {Manual} /\ row[t][b] = 0
  /\ row' = [row EXCEPT ![t][b] = row[t][a], ![t][a] = 0]
  /\ live' = (live \ {<<t, a>>}) \union {<<t, b>>}
  /\ own' = (own \ {<<t, a>>}) \union {<<t, b>>}
  /\ moved' = moved \union {t}
  /\ UNCHANGED <<bankVars, connVars, accountVars, syncVars, faults, disturbed>>

\* DELETE /accounts/:id: refused while a live row is in it (the count, and the
\* foreign key for one that comes after it); deleted rows lose their account.
\* Bound: at most one row of a transaction is without an account.
DeleteAccount(a) ==
  /\ Edit /\ a \in linked
  /\ \A t \in Txns : <<t, a>> \notin live /\ (row[t][a] # 0 => row[t][NoAccount] = 0)
  /\ linked' = linked \ {a}
  /\ row' = [t \in Txns |-> IF row[t][a] = 0 THEN row[t]
                            ELSE [row[t] EXCEPT ![NoAccount] = row[t][a], ![a] = 0]]
  /\ own' = {<<p[1], IF p[2] = a THEN NoAccount ELSE p[2]>> : p \in own}
  /\ moved' = moved \union {t \in Txns : row[t][a] # 0}
  /\ UNCHANGED <<bankVars, connVars, seeding, live, syncVars, faults, disturbed>>

-----------------------------------------------------------------------------
Apply(s) == InsertAdded(s) \/ UpdateModified(s) \/ SoftDeleteRemoved(s) \/ FinishSync(s)
SyncStep(s) == Fetch(s) \/ ReadAccounts(s) \/ Apply(s)

Next ==
  \/ \E t \in Txns, k \in {"added", "modified", "removed"} : BankChanges(k, t)
  \/ createBankConnection \/ disconnectBankConnection
  \/ \E a \in BankAccounts : SeedAccount(a) \/ SeedFails(a) \/ DeleteAccount(a)
  \/ \E s \in Syncs : \/ StartSync(s) \/ SyncStep(s)
                      \/ FetchFails(s) \/ RowFails(s) \/ SyncDies(s)
  \/ \E t \in Txns, a \in Accounts :
       \/ ArchiveRow(t, a) \/ RestoreRow(t, a) \/ EditRow(t, a)
       \/ \E b \in Accounts \ {a} : MoveRow(t, a, b)

Spec == Init /\ [][Next]_vars

\* Statements return, and somebody keeps asking for a sync: the comment at the
\* webhook leaves that to the client or a scheduled job.
Fairness ==
  /\ \A a \in BankAccounts : WF_vars(SeedAccount(a))
  /\ \A s \in Syncs : WF_vars(StartSync(s)) /\ WF_vars(SyncStep(s))
FairSpec == Spec /\ Fairness

-----------------------------------------------------------------------------
\* The stored cursor never passes a transaction that has no row: whatever fails,
\* crashes or overlaps, one that the bank has before the cursor, and has not taken
\* back, is in the ledger (deleted there, perhaps).
Covered(k) == \A t \in Txns : Happened("added", t, 0, k) /\ ~Happened("removed", t, 0, k) => HasRow(t)
CursorNeverSkips == Covered(cursor)

\* As long as syncs came one after the other and none of them failed, the mirror at
\* rest is the bank's state at the cursor: the amount written to a row is the bank's
\* last one (what a row says may be the user's own, put over that one and no earlier
\* one), and what the bank has removed is not live.
MirrorExactWhenCalm ==
  ~disturbed /\ InFlight = {} =>
    \A t \in Txns, a \in Accounts : row[t][a] # 0 =>
      IF Happened("removed", t, 0, cursor) THEN <<t, a>> \notin live
      ELSE row[t][a] = Version(t, cursor)

\* A transaction the user deleted does not come back by a sync, unless its row had
\* left its account.
Deleted(t) == HasRow(t) /\ \A a \in Accounts : <<t, a>> \notin live
SyncRevivesNothing ==
  [][\A t \in Txns \ moved : Deleted(t) /\ ~Deleted(t)' => syncVars' = syncVars]_vars

\* As long as the connection has its token and every account of the bank is linked,
\* the cursor gets to the end of the log and stays there.
CatchesUp == <>[](status # "none" /\ token /\ linked = BankAccounts => cursor = Len(log))
=============================================================================
