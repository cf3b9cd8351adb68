----------------------------- MODULE PlanUsage -----------------------------
(***************************************************************************)
(* The monthly caps of the Basic plan (services/basicPlanUsageService.js)  *)
(* and everybody who spends from them: POST /transactions, the CSV import, *)
(* the manual run and the catching up of a recurring template, the upload  *)
(* of a receipt, the bank feed.  A slot belongs to the month in which the  *)
(* transaction that made the row began (created_at); the check looks at    *)
(* the month in which it is made; months turn in between.  Each request    *)
(* has a client of its process's pool (db.js) to its end, and some ask     *)
(* the pool for a second one for a statement, with no limit to their wait. *)
(* Its Init, Next, Spec, TypeOK and vars are named Usage..: AtMostProofs   *)
(* extends it beside other components.                                     *)
(***************************************************************************)
EXTENDS Naturals, FiniteSets, Functions

CONSTANTS
  Requests,
  Limit, ReceiptLimit,   \* getPlanLimit(BASIC, ..)
  Clients,               \* of the pool (pg's own 10)
  MaxOthers, MaxMonth, MaxRows, MaxSpent  \* bounds: clients that other handlers have,
                         \* months, rows at a time, everything spent

ASSUME UsageConstants ==
  /\ {Limit, ReceiptLimit, Clients, MaxOthers, MaxRows, MaxSpent} \subseteq Nat
  /\ MaxMonth \in Nat \ {0}

Months == 1..MaxMonth
Kinds == {"create", "import", "manual", "catchup", "upload"}

VARIABLES
  month,    \* the clock
  checked, unchecked, \* per cap and month: what was spent, by requests that check the
            \* cap and by others; the code only sees the sum: the committed rows of
            \* the month, archived ones included, and receipts_used
  req,      \* per request: what it is, where it is, and what it has read
  excused,  \* history: the caps and months that checked requests may exceed
  others    \* the clients that the other handlers of the process have

spentVars == <<checked, unchecked>>
usageVars == <<month, spentVars, req, excused, others>>

Caps == {"rows", "receipts"}
Idle == [kind |-> "create", step |-> "idle", tier |-> "free", born |-> 1, key |-> 1,
         at |-> 1, used |-> 0, n |-> 0]

UsageTypeOK ==
  /\ month \in Months
  /\ checked \in [Caps -> [Months -> Nat]] /\ unchecked \in [Caps -> [Months -> Nat]]
  /\ req \in [Requests ->
       [kind : Kinds,
        step : {"idle", "looking", "begun", "business", "key", "locked", "counted"}, tier : {"free", "v1"}, born : Months, key : Months, at : Months,
        used : Nat, n : 0..MaxRows]]
  /\ excused \subseteq Caps \X Months
  /\ others \in 0..MaxOthers

UsageInit ==
  /\ month = 1
  /\ checked = [c \in Caps |-> [m \in Months |-> 0]] /\ unchecked = checked
  /\ req = [r \in Requests |-> Idle]
  /\ excused = {}
  /\ others = 0

Goes(r, step) == req[r].step = step
Free(r) == req[r].tier = "free"

-----------------------------------------------------------------------------
InFlight == {r \in Requests : ~Goes(r, "idle")}
ClientFree == Cardinality(InFlight) + others < Clients

\* The effective tier is read, a client is taken, and then BEGIN; n rows are wanted.
\* POST and PUT /recurring resolve the business, and an upload for a transaction looks
\* that up, on the pool, when they have their client already.
Begin(r, kind, plan, n) ==
  /\ Goes(r, "idle") /\ (kind # "import" => n = 1)
  /\ ClientFree
  /\ \E step \in {"looking", "begun"} :
       /\ step = "looking" => kind \in {"catchup", "upload"}
       /\ step = "begun" => kind # "catchup"
       /\ req' = [req EXCEPT ![r] = [Idle EXCEPT !.kind = kind, !.step = step, !.tier = plan,
                                                 !.born = month, !.n = n]]
  /\ UNCHANGED <<month, spentVars, excused, others>>

\* Mutant of Asks: a create reads the accounting lock after its count, as they do.
AsksForLock(r) ==
  \/ Goes(r, "looking")
  \/ req[r].kind \in {"manual", "catchup", "create"} /\ req[r].step \in {"begun", "counted"}

\* The statements for which a request that has a client asks the pool for another one:
\* besides looking, materializeNextTemplateRun and materializeTemplateRuns read the
\* subscription, and after the count the accounting lock.
Asks(r) ==
  \/ Goes(r, "looking")
  \/ req[r].kind \in {"manual", "catchup"} /\ req[r].step \in {"begun", "counted"}

Look(r) ==
  /\ Goes(r, "looking") /\ (Asks(r) => ClientFree)
  /\ req' = [req EXCEPT ![r].step = "begun", ![r].born = month]
  /\ UNCHANGED <<month, spentVars, excused, others>>

\* pg_advisory_xact_lock(hashtext(businessId)); recurring templates do without it.
TakesBusinessLock(r) == req[r].kind \in {"create", "import", "upload"}
HoldsBusinessLock(r) == TakesBusinessLock(r) /\ req[r].step \notin {"idle", "looking", "begun"}
BusinessLock(r) ==
  /\ Goes(r, "begun") /\ TakesBusinessLock(r)
  /\ ~\E q \in Requests : HoldsBusinessLock(q)
  /\ req' = [req EXCEPT ![r].step = "business"]
  /\ UNCHANGED <<month, spentVars, excused, others>>

\* buildCurrentMonthWindow.
PeriodStart == month

\* lockBusinessUsagePeriod: the key is made of the month before the wait.
AskUsage(r) ==
  /\ Goes(r, "business") \/ (Goes(r, "begun") /\ req[r].kind = "manual")
  /\ Asks(r) => ClientFree
  /\ req' = [req EXCEPT ![r].step = IF Free(r) THEN "key" ELSE "counted",
                        ![r].key = PeriodStart, ![r].at = month]
  /\ UNCHANGED <<month, spentVars, excused, others>>

HoldsKey(r, m) ==
  Free(r) /\ req[r].kind # "catchup" /\ req[r].step \in {"locked", "counted"} /\ req[r].key = m
KeyIsFree(m) == ~\E q \in Requests : HoldsKey(q, m)
UsageLock(r) ==
  /\ Goes(r, "key") /\ KeyIsFree(req[r].key)
  /\ req' = [req EXCEPT ![r].step = "locked"]
  /\ UNCHANGED <<month, spentVars, excused, others>>

\* countCanonicalTransactionsCreatedThisMonth, of a month read once more; the import
\* and the upload use the month of the key.
CountedMonth(r) == IF req[r].kind \in {"create", "manual"} THEN PeriodStart ELSE req[r].key
CapOf(r) == IF req[r].kind = "upload" THEN "receipts" ELSE "rows"
CapLimit(c) == IF c = "rows" THEN Limit ELSE ReceiptLimit
Used(c, m) == checked[c][m] + unchecked[c][m]

\* assertCanCreateTransactions, assertCanImportCsvRows, assertCanUploadReceipts: the
\* 402 rolls back.  Mutant of Fits: the last slot may be used by a whole file.
FitsIfAnyLeft(c, m, n) == Used(c, m) < CapLimit(c)
Fits(c, m, n) == Used(c, m) + n <= CapLimit(c)
Counted(r, m, n) == [req[r] EXCEPT !.step = "counted", !.at = m, !.n = n,
                                   !.used = checked[CapOf(r)][m]]
Check(r) ==
  LET m == CountedMonth(r)
  IN  /\ Goes(r, "locked")
      /\ req' = [req EXCEPT ![r] = IF Fits(CapOf(r), m, req[r].n) THEN Counted(r, m, req[r].n)
                                   ELSE Idle]
      /\ UNCHANGED <<month, spentVars, excused, others>>

\* materializeTemplateRuns asks for 0: the slots that are left are read without a
\* lock, and it posts as many occurrences as it has and they allow.
ReadAllowance(r, n) ==
  /\ Goes(r, "begun") /\ req[r].kind = "catchup"
  /\ Asks(r) => ClientFree
  /\ Free(r) => Fits("rows", month, n)
  /\ req' = [req EXCEPT ![r] = Counted(r, month, n)]
  /\ UNCHANGED <<month, spentVars, excused, others>>

-----------------------------------------------------------------------------
Room(n) == n + SumFunction([p \in Caps \X Months |-> Used(p[1], p[2])]) <= MaxSpent

\* What may break the cap of month m when r commits: a month that turned, or a
\* catching up that met another request between its reading and its end.
Overlaps(r, m) ==
  /\ req[r].kind = "catchup"
  /\ \/ checked["rows"][m] # req[r].used
     \/ \E q \in Requests \ {r} : Goes(q, "counted") /\ CapOf(q) = "rows"

\* The INSERTs become visible; a row's month is that of BEGIN, and
\* incrementReceiptUsage looks at the clock again.
Commit(r) ==
  LET c == CapOf(r)
      m == IF c = "receipts" THEN month ELSE req[r].born
  IN  /\ Goes(r, "counted") /\ (Asks(r) => ClientFree)
      /\ Room(req[r].n)
      /\ IF Free(r)
         THEN /\ checked' = [checked EXCEPT ![c][m] = @ + req[r].n]
              /\ excused' = IF req[r].at # m \/ Overlaps(r, m)
                            THEN excused \union {<<c, m>>} ELSE excused
              /\ UNCHANGED unchecked
         ELSE /\ unchecked' = [unchecked EXCEPT ![c][m] = @ + req[r].n]
              /\ UNCHANGED <<checked, excused>>
      /\ req' = [req EXCEPT ![r] = Idle]
      /\ UNCHANGED <<month, others>>

\* Any statement fails, or the process ends: ROLLBACK.
Abort(r) ==
  /\ ~Goes(r, "idle")
  /\ req' = [req EXCEPT ![r] = Idle]
  /\ UNCHANGED <<month, spentVars, excused, others>>

\* A sync of the bank feed inserts a row: it counts, and nothing is checked.
BankRow ==
  /\ Room(1)
  /\ unchecked' = [unchecked EXCEPT !["rows"][month] = @ + 1]
  /\ UNCHANGED <<month, checked, req, excused, others>>

NewMonth ==
  /\ month < MaxMonth /\ month' = month + 1
  /\ UNCHANGED <<spentVars, req, excused, others>>

\* Another handler of the process takes a client, or releases one.
OthersConnect ==
  /\ ClientFree /\ others < MaxOthers /\ others' = others + 1
  /\ UNCHANGED <<month, spentVars, req, excused>>

OthersRelease ==
  /\ others > 0 /\ others' = others - 1
  /\ UNCHANGED <<month, spentVars, req, excused>>

-----------------------------------------------------------------------------
UsageNext ==
  \/ BankRow \/ NewMonth \/ OthersConnect \/ OthersRelease
  \/ \E r \in Requests :
       \/ \E k \in Kinds, p \in {"free", "v1"}, n \in 1..MaxRows : Begin(r, k, p, n)
       \/ Look(r) \/ BusinessLock(r) \/ AskUsage(r) \/ UsageLock(r) \/ Check(r)
       \/ \E n \in 1..MaxRows : ReadAllowance(r, n)
       \/ Commit(r) \/ Abort(r)

UsageSpec == UsageInit /\ [][UsageNext]_usageVars

\* "Two concurrent requests at the free-tier cap cannot both pass the check and both
\* insert": what requests of whatever kind spend after a check stays within the cap of
\* its month, however they overlap.  It is exceeded only if the month turned between
\* BEGIN and the check, or by a catching up that met another request.
CapsHold ==
  \A c \in Caps, m \in Months : checked[c][m] <= CapLimit(c) \/ <<c, m>> \in excused

\* The lock that r waits for is q's.
Blocks(q, r) ==
  \/ Goes(r, "begun") /\ TakesBusinessLock(r) /\ HoldsBusinessLock(q)
  \/ Goes(r, "key") /\ HoldsKey(q, req[r].key)

WaitsForLock(r) == \E q \in Requests : Blocks(q, r)
WaitsForClient(r) == Asks(r) /\ ~ClientFree

\* Every request in flight waits: nobody goes on unless another handler releases a client.
Standstill ==
  InFlight # {} /\ \A r \in InFlight : WaitsForLock(r) \/ WaitsForClient(r)

\* The locks are taken in one order, and the pool is asked before them, but for the manual
\* run, which reads the accounting lock on the pool when it has the key of the month: so
\* there is a standstill only if such a run keeps the key from others, or if those who
\* want a second client have, with the other handlers, all that there are.
StandstillsHaveCauses ==
  Standstill =>
    \/ \E q, r \in InFlight : req[q].kind = "manual" /\ WaitsForClient(q) /\ Blocks(q, r)
    \/ Cardinality({r \in InFlight : WaitsForClient(r)}) + others = Clients
=============================================================================
