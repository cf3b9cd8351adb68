----------------------------- MODULE Recurring -----------------------------
(***************************************************************************)
(* One recurring template: its row, its runs, and the requests that create *)
(* it, edit it and post its occurrences (routes/recurring.routes.js,       *)
(* services/recurringTransactionsService.js).  Those requests hold the     *)
(* row's lock from their first statement to COMMIT, so one of them is in   *)
(* flight at a time; the accounting lock and the free-plan slots are read  *)
(* by statements of their own and may change under them.  A date is the    *)
(* number of its day, and the calendar says which day a month begins on.   *)
(***************************************************************************)
EXTENDS Naturals

CONSTANTS
  MaxDay,       \* bound of the model: the last day
  FirstDay, LastMonth,  \* the calendar: the first day of each month, and of the one
                \* after the last
  Cadences,     \* every n days (VALID_CADENCES: 7, 14) or months (1, 3, 12)
  Ends,         \* end dates users set, 0 for none
  LockDates,    \* what the accounting lock is set to, 0 to clear it
  MaxCatchup,   \* MAX_CATCHUP_RUNS
  Slots,        \* what the usage query may report as left ...
  Unlimited,    \* ... and the report that stands for no limit (a paid plan)
  DatesAsText   \* how the driver returns a DATE: TRUE as ISO text, which is
                \* what parseIsoDate reads; FALSE as a JS Date, which is what
                \* pg does when no type parser is set

\* Months have days and one follows the other, and the calendar goes on for a
\* cadence after the last day.
ASSUME RecurringCalendar ==
  /\ LastMonth \in Nat /\ FirstDay \in [0..LastMonth + 1 -> Nat] /\ FirstDay[0] = 1
  /\ \A m, k \in 0..LastMonth + 1 : m < k => FirstDay[m] < FirstDay[k]
  /\ \A d \in 1..MaxDay : \E m \in 0..LastMonth : FirstDay[m] <= d /\ d < FirstDay[m + 1]
  /\ \A c \in Cadences : c.unit = "month" => /\ c.n <= LastMonth
                                             /\ MaxDay < FirstDay[LastMonth + 1 - c.n]

ASSUME RecurringConstants ==
  /\ MaxDay \in Nat \ {0} /\ Cadences \subseteq [unit : {"day", "month"}, n : Nat \ {0}]
  /\ Ends \subseteq Nat /\ LockDates \subseteq 0..MaxDay
  /\ MaxCatchup \in Nat /\ Slots \subseteq Nat /\ Unlimited \in Nat
  /\ DatesAsText \in BOOLEAN

VARIABLES
  today, lock,   \* CURRENT_DATE; locked_through_date, 0 when there is none
  present, row,  \* the row of recurring_transactions, once it was inserted
  runs,          \* recurring_transaction_runs, each with its transaction
  skipped,       \* history: the occurrences passed over because they were locked
  step, draft,   \* the request in flight, if any, and the row as it wrote it
  cur,           \* nextOccurrence, 0 for null
  wrote, passed, \* its uncommitted runs and skips
  slots, count,  \* remainingBasicSlots, catchupCount
  seenLock       \* the lock as it read it

dbVars == <<present, row, runs, skipped>>
loopVars == <<cur, wrote, passed, slots, count, seenLock>>
vars == <<today, lock, dbVars, step, draft, loopVars>>

Days == 1..MaxDay
\* start_date, next_run_date, last_run_date, end_date (0 for null), cadence,
\* active, deleted_at IS NOT NULL; and as history, where a user put the cursor last.
Rows == [start : Nat, next : Nat, last : 0..MaxDay, end : Nat, every : Cadences,
         active : BOOLEAN, deleted : BOOLEAN, put : Nat]
TypeOK ==
  /\ today \in Days /\ lock \in 0..MaxDay /\ seenLock \in 0..MaxDay
  /\ present \in BOOLEAN /\ row \in Rows /\ draft \in Rows
  /\ runs \subseteq Days /\ skipped \subseteq Days /\ wrote \subseteq Days /\ passed \subseteq Days
  /\ step \in {"idle", "scheduling", "loading", "looping", "posting"}
  /\ cur \in Nat /\ slots \in Nat /\ count \in 0..MaxCatchup

NoRow(c) == [start |-> 0, next |-> 0, last |-> 0, end |-> 0, every |-> c,
             active |-> FALSE, deleted |-> FALSE, put |-> 0]

Init ==
  /\ today = 1 /\ lock = 0 /\ present = FALSE
  /\ \E c \in Cadences : row = NoRow(c) /\ draft = row
  /\ runs = {} /\ skipped = {} /\ step = "idle"
  /\ cur = 0 /\ wrote = {} /\ passed = {} /\ slots = 0 /\ count = 0 /\ seenLock = 0

\* parseIsoDate of a DATE column: null when it is not text.
Parse(d) == IF DatesAsText THEN d ELSE 0
Ended(d, end) == end # 0 /\ d > end

MonthOf(d) == CHOOSE m \in 0..LastMonth : FirstDay[m] <= d /\ d < FirstDay[m + 1]
DaysIn(m) == FirstDay[m + 1] - FirstDay[m]

\* Mutant of addMonths: a day that the month does not have is in the next one, as
\* with setUTCMonth.
addMonthsOver(d, n) ==
  LET m == MonthOf(d)
  IN  FirstDay[m + n] + (d - FirstDay[m])

\* addMonths: the same day of the month, or the last one.
addMonths(d, n) ==
  LET m == MonthOf(d)
      day == d - FirstDay[m]
  IN  FirstDay[m + n] + IF day < DaysIn(m + n) THEN day ELSE DaysIn(m + n) - 1

computeNextOccurrence(d, c) == IF c.unit = "day" THEN d + c.n ELSE addMonths(d, c.n)

Begin(s, r) == step = "idle" /\ step' = s /\ draft' = r

\* The request is over; what it did not commit is gone.
Finish ==
  /\ step' = "idle" /\ draft' = row'
  /\ cur' = 0 /\ wrote' = {} /\ passed' = {} /\ slots' = 0 /\ count' = 0 /\ seenLock' = 0
  /\ UNCHANGED <<today, lock>>

Commit(r, posted, skips) ==
  /\ present' = TRUE /\ row' = r
  /\ runs' = runs \union posted /\ skipped' = skipped \union skips
  /\ Finish

\* An error or a crash: ROLLBACK.
Rollback == step # "idle" /\ UNCHANGED dbVars /\ Finish

----------------------------------------------------------------------------
\* POST /recurring inserts the row with next_run_date = start_date.
Create(start, end, c, a) ==
  /\ ~present
  /\ end = 0 \/ end >= start
  /\ Begin("loading", [NoRow(c) EXCEPT !.start = start, !.next = start, !.put = start, !.end = end,
                                       !.active = a])
  /\ UNCHANGED <<today, lock, dbVars, loopVars>>

\* Mutant of FirstCandidate: from the occurrence of the last run.
FirstCandidateAgain(start, c) == IF Parse(row.last) # 0 THEN Parse(row.last) ELSE start

\* computeNextRunDateForUpdate: after the last run, or from the start date ...
FirstCandidate(start, c) ==
  IF Parse(row.last) # 0 THEN computeNextOccurrence(Parse(row.last), c) ELSE start

\* PUT /recurring/:id.
Update(start, end, c, a) ==
  /\ present /\ ~row.deleted
  /\ end = 0 \/ end >= start
  /\ Begin("scheduling", [row EXCEPT !.start = start, !.end = end, !.every = c, !.active = a])
  /\ cur' = FirstCandidate(start, c)
  /\ UNCHANGED <<today, lock, dbVars, wrote, passed, slots, count, seenLock>>

\* ... the first occurrence that is not in the past or is past the end.
TryNext ==
  /\ step = "scheduling" /\ cur < today /\ ~Ended(cur, draft.end)
  /\ cur' = computeNextOccurrence(cur, draft.every)
  /\ UNCHANGED <<today, lock, dbVars, step, draft, wrote, passed, slots, count, seenLock>>

PutCursor ==
  /\ step = "scheduling" /\ (cur >= today \/ Ended(cur, draft.end))
  /\ step' = "loading" /\ cur' = 0
  /\ draft' = [draft EXCEPT !.next = cur, !.put = cur, !.active = @ /\ ~Ended(cur, draft.end)]
  /\ UNCHANGED <<today, lock, dbVars, wrote, passed, slots, count, seenLock>>

\* materializeTemplateRuns on the row POST or PUT wrote: an inactive template is
\* left as it is ...
LeaveInactive ==
  /\ step = "loading" /\ ~draft.active
  /\ Commit(draft, {}, {})

\* ... else the slots and the lock are read, from other connections.
Load ==
  /\ step = "loading" /\ draft.active
  /\ step' = "looping"
  /\ cur' = Parse(draft.next)
  /\ slots' \in Slots
  /\ seenLock' = lock
  /\ UNCHANGED <<today, lock, dbVars, draft, wrote, passed, count>>

\* Mutant of Due: catching up is not capped.
DueUncapped == cur # 0 /\ cur <= today /\ ~Ended(cur, Parse(draft.end))

\* The loop goes on while there is an occurrence that is due ...
Due == cur # 0 /\ cur <= today /\ ~Ended(cur, Parse(draft.end)) /\ count < MaxCatchup

\* ... one that is locked is passed over ...
SkipLocked ==
  /\ step = "looping" /\ Due /\ cur <= seenLock
  /\ passed' = passed \union {cur}
  /\ cur' = computeNextOccurrence(cur, draft.every)
  /\ UNCHANGED <<today, lock, dbVars, step, draft, wrote, slots, count, seenLock>>

\* ... and another is posted, unless it has a run, when there is a slot for it.
PostOccurrence ==
  /\ step = "looping" /\ Due /\ cur > seenLock /\ slots > 0
  /\ wrote' = wrote \union ({cur} \ runs)
  /\ slots' = IF cur \in runs \/ slots = Unlimited THEN slots ELSE slots - 1
  /\ draft' = [draft EXCEPT !.last = cur]
  /\ count' = count + 1
  /\ cur' = computeNextOccurrence(cur, draft.every)
  /\ UNCHANGED <<today, lock, dbVars, step, passed, seenLock>>

\* The row that is updated when the loop ends.
NextRunDate == IF cur # 0 THEN cur ELSE IF Parse(draft.end) # 0 THEN Parse(draft.end) ELSE today
RemainsActive ==
  \/ cur # 0 /\ ~Ended(cur, Parse(draft.end))
  \/ Parse(draft.end) = 0 /\ draft.active

Stop ==
  /\ step = "looping"
  /\ ~Due \/ (cur > seenLock /\ slots = 0)
  /\ Commit([draft EXCEPT !.next = NextRunDate, !.active = RemainsActive], wrote, passed)

----------------------------------------------------------------------------
\* POST /:id/run, materializeNextTemplateRun: the next occurrence, due or not,
\* unless the template is paused, has ended or is locked.  The bound of the model:
\* occurrences after MaxDay are not posted.  (Out of slots, it rolls back.)
RunNow ==
  /\ present /\ ~row.deleted /\ row.active
  /\ Parse(row.next) # 0 /\ ~Ended(Parse(row.next), Parse(row.end))
  /\ row.next > lock
  /\ row.next <= MaxDay
  /\ Begin("posting", row)
  /\ cur' = row.next
  /\ UNCHANGED <<today, lock, dbVars, wrote, passed, slots, count, seenLock>>

AfterRun == computeNextOccurrence(cur, draft.every)

\* It is posted, unless it has a run, and the cursor moves on.
PostNext ==
  /\ step = "posting" /\ cur \notin runs
  /\ Commit([draft EXCEPT !.next = AfterRun, !.last = cur,
                          !.active = ~Ended(AfterRun, Parse(draft.end))], {cur}, {})

\* PATCH /:id/status, DELETE /:id and POST /undo-delete wait for the row.
SetStatus(a, del) ==
  /\ step = "idle" /\ present
  /\ \/ ~row.deleted /\ row' = [row EXCEPT !.active = a]
     \/ row.deleted # del /\ row' = [row EXCEPT !.deleted = del]
  /\ draft' = row'
  /\ UNCHANGED <<today, lock, present, runs, skipped, step, loopVars>>

----------------------------------------------------------------------------
\* Nothing but the requests reads the day, and each loop reads it once, when it
\* begins: a day that begins during a loop begins, for it, after its end.
Tick ==
  /\ today < MaxDay /\ step \notin {"scheduling", "looping"}
  /\ today' = today + 1
  /\ UNCHANGED <<lock, dbVars, step, draft, loopVars>>

\* PUT /business/accounting-lock, at any time.
MoveLock(d) ==
  /\ d # lock /\ lock' = d
  /\ UNCHANGED <<today, dbVars, step, draft, loopVars>>

InFlight ==
  TryNext \/ PutCursor \/ LeaveInactive \/ Load \/ SkipLocked \/ PostOccurrence \/ Stop \/ PostNext

Next ==
  \/ \E s \in Days, e \in Ends, c \in Cadences, a \in BOOLEAN :
       Create(s, e, c, a) \/ Update(s, e, c, a)
  \/ RunNow \/ InFlight \/ Rollback
  \/ \E a, del \in BOOLEAN : SetStatus(a, del)
  \/ Tick
  \/ \E d \in LockDates : MoveLock(d)

\* Nobody has to make a request, and nothing in the server calls
\* processDueRecurringTransactions.
Spec == Init /\ [][Next]_vars

----------------------------------------------------------------------------
\* The inductive invariant: what is posted is behind the last run, the last run
\* is behind the cursor, and so it is for the row and the loop in flight.
InOrder(posted, r) == (\A d \in posted : d <= r.last) /\ (r.next = 0 => r.last = 0)
RowInOrder ==
  /\ InOrder(runs, row)
  /\ present => row.last < row.next
  /\ ~present => runs = {} /\ row.last = 0
  /\ ~DatesAsText => row.last = 0
DraftInOrder ==
  /\ step = "idle" => draft = row /\ wrote = {} /\ cur = 0
  /\ step # "idle" => draft.next > 0 /\ \A d \in runs \union wrote : d <= draft.last
  /\ \A x \in runs, d \in wrote : x < d
  /\ step = "scheduling" => present /\ draft.last < cur /\ draft.last = row.last /\ wrote = {}
  /\ step = "loading" => draft.last < draft.next /\ draft.last = row.last /\ wrote = {}
  /\ step = "looping" => IF DatesAsText THEN draft.last < cur ELSE draft.last = 0 /\ cur = 0
  /\ step = "posting" => DatesAsText /\ present /\ draft.last < cur /\ cur \in Days /\ wrote = {}
IInv == TypeOK /\ RowInOrder /\ DraftInOrder

\* Whatever requests come, edits of the cadence or the start date included, no
\* occurrence is posted twice or out of order, and the committed cursor is past
\* every run: materializeNextTemplateRun never finds its occurrence posted.
Schedule == INSTANCE RecurringSchedule WITH cursor <- row.next, done <- runs
ScheduleKept == Schedule!Spec

\* The day, or the month, that an occurrence is for.
Period(d, c) == IF c.unit = "day" THEN d ELSE MonthOf(d)

\* Nothing is left out: from the date the user's last word put the cursor on to where
\* it is now, each n-th day or month has an occurrence that was posted or was locked,
\* however short the months (materializeTemplateRuns: "leave next_run_date pointing
\* at the current occurrence so the remaining backlog is processed").
BacklogKept ==
  present => \A k \in 0..MaxDay :
    LET p == Period(row.put, row.every) + k * row.every.n
    IN  p < Period(row.next, row.every) =>
          \E d \in runs \union skipped : d >= row.put /\ Period(d, row.every) = p

\* And none is for a day or month that has one: since the user's last word, two runs
\* are for two of them.
OncePerPeriod ==
  \A d, e \in runs : d >= row.put /\ d < e => Period(d, row.every) < Period(e, row.every)
=============================================================================
