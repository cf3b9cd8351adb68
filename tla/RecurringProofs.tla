-------------------------- MODULE RecurringProofs --------------------------
(***************************************************************************)
(* Proofs about Recurring, for any days, cadences, caps and reports of the *)
(* free-plan slots: the inductive invariant IInv, that the requests        *)
(* implement RecurringSchedule, and what catching up posts with either     *)
(* driver.                                                                 *)
(***************************************************************************)
EXTENDS Recurring, TLAPS

\* One month after the other.
LEMMA MonthsBegin ==
  ASSUME NEW m \in 0..LastMonth + 1, NEW k \in 0..LastMonth + 1, m <= k
  PROVE  /\ FirstDay[m] \in Nat /\ FirstDay[k] \in Nat /\ FirstDay[m] <= FirstDay[k]
         /\ m < k => FirstDay[m] < FirstDay[k]
<1>1. FirstDay[m] \in Nat /\ FirstDay[k] \in Nat /\ (m < k => FirstDay[m] < FirstDay[k])
  BY RecurringCalendar
<1>2. m = k \/ m < k
  BY RecurringCalendar
<1> QED BY <1>1, <1>2

\* A day is in one month only.
LEMMA OneMonth ==
  ASSUME NEW d \in Nat, NEW m \in 0..LastMonth, FirstDay[m] <= d, d < FirstDay[m + 1]
  PROVE  MonthOf(d) = m
<1>0. LastMonth \in Nat
  BY RecurringCalendar
<1>1. ASSUME NEW k \in 0..LastMonth, FirstDay[k] <= d, d < FirstDay[k + 1], k # m
      PROVE  FALSE
  <2>0. {k, k + 1, m, m + 1} \subseteq 0..LastMonth + 1
    BY <1>0
  <2>1. CASE k < m
    <3>1. FirstDay[k + 1] \in Nat /\ FirstDay[m] \in Nat /\ FirstDay[k + 1] <= FirstDay[m]
      BY <1>0, <2>0, <2>1, MonthsBegin
    <3> QED BY <1>1, <3>1
  <2>2. CASE m < k
    <3>1. FirstDay[m + 1] \in Nat /\ FirstDay[k] \in Nat /\ FirstDay[m + 1] <= FirstDay[k]
      BY <1>0, <2>0, <2>2, MonthsBegin
    <3> QED BY <1>1, <3>1
  <2> QED BY <1>0, <1>1, <2>1, <2>2
<1> QED BY <1>1 DEF MonthOf

LEMMA HasMonth ==
  ASSUME NEW d \in Days
  PROVE  /\ MonthOf(d) \in 0..LastMonth
         /\ FirstDay[MonthOf(d)] <= d /\ d < FirstDay[MonthOf(d) + 1]
<1>1. \E m \in 0..LastMonth : FirstDay[m] <= d /\ d < FirstDay[m + 1]
  BY RecurringCalendar DEF Days
<1> QED BY <1>1 DEF MonthOf

\* addMonths ends in the month that is n later, whatever day it starts on.
LEMMA MonthsLater ==
  ASSUME NEW d \in Days, NEW n \in Nat \ {0}, n <= LastMonth, MaxDay < FirstDay[LastMonth + 1 - n]
  PROVE  /\ addMonths(d, n) \in Nat /\ addMonths(d, n) > d
         /\ MonthOf(addMonths(d, n)) = MonthOf(d) + n
<1> DEFINE m == MonthOf(d)
           e == addMonths(d, n)
<1>0. LastMonth \in Nat /\ d \in Nat /\ d <= MaxDay /\ MaxDay \in Nat
  BY RecurringCalendar, RecurringConstants DEF Days
<1>1. m \in 0..LastMonth /\ FirstDay[m] <= d /\ d < FirstDay[m + 1]
  BY HasMonth
<1> HIDE DEF m
<1>2. m + n \in 0..LastMonth
  <2>1. SUFFICES ASSUME m >= LastMonth + 1 - n
                 PROVE  FALSE
    BY <1>0, <1>1
  <2>2. {m, LastMonth + 1 - n} \subseteq 0..LastMonth + 1
    BY <1>0, <1>1
  <2>3. /\ FirstDay[LastMonth + 1 - n] <= FirstDay[m]
        /\ FirstDay[LastMonth + 1 - n] \in Nat /\ FirstDay[m] \in Nat
    BY <2>1, <2>2, MonthsBegin
  <2> QED BY <1>0, <1>1, <2>3
<1>3. /\ {FirstDay[m], FirstDay[m + 1], FirstDay[m + n], FirstDay[m + n + 1]} \subseteq Nat
      /\ FirstDay[m + 1] <= FirstDay[m + n] /\ FirstDay[m + n] < FirstDay[m + n + 1]
  <2>1. /\ {m, m + 1, m + n, m + n + 1} \subseteq 0..LastMonth + 1
        /\ m + 1 <= m + n /\ m <= m + 1 /\ m + n < m + n + 1 /\ m + n <= m + n + 1
    BY <1>0, <1>1, <1>2
  <2> QED BY <2>1, MonthsBegin
<1>4. DaysIn(m + n) \in Nat \ {0} /\ FirstDay[m + n] + DaysIn(m + n) = FirstDay[m + n + 1]
  BY <1>0, <1>3 DEF DaysIn
<1>5. e = FirstDay[m + n] + IF d - FirstDay[m] < DaysIn(m + n) THEN d - FirstDay[m]
                            ELSE DaysIn(m + n) - 1
  BY DEF addMonths, m
<1>6. e \in Nat /\ FirstDay[m + n] <= e /\ e < FirstDay[m + n + 1]
  BY <1>0, <1>1, <1>3, <1>4, <1>5
<1> HIDE DEF e
<1>8. e > d
  BY <1>0, <1>1, <1>3, <1>6
<1>9. MonthOf(e) = m + n
  BY <1>2, <1>6, OneMonth
<1> QED BY <1>6, <1>8, <1>9 DEF e, m

\* The next occurrence is later, and for the n-th day or month after this one's.
LEMMA NextOccurs ==
  ASSUME NEW d \in Days, NEW c \in Cadences
  PROVE  /\ computeNextOccurrence(d, c) \in Nat /\ computeNextOccurrence(d, c) > d
         /\ Period(d, c) \in Nat /\ c.n \in Nat \ {0}
         /\ Period(computeNextOccurrence(d, c), c) = Period(d, c) + c.n
<1>1. c.n \in Nat \ {0} /\ c.unit \in {"day", "month"} /\ d \in Nat
  BY RecurringConstants DEF Days
<1>2. CASE c.unit = "day"
  BY <1>1, <1>2 DEF computeNextOccurrence, Period
<1>3. CASE c.unit = "month"
  <2>1. c.n <= LastMonth /\ MaxDay < FirstDay[LastMonth + 1 - c.n]
    BY <1>3, RecurringCalendar
  <2>2. MonthOf(d) \in Nat
    BY HasMonth
  <2> QED BY <1>1, <1>3, <2>1, <2>2, MonthsLater DEF computeNextOccurrence, Period
<1> QED BY <1>1, <1>2, <1>3

\* The first candidate is after the last run.
LEMMA CandidateFollows ==
  ASSUME TypeOK, NEW start \in Days, NEW c \in Cadences
  PROVE  FirstCandidate(start, c) \in Nat /\ FirstCandidate(start, c) > Parse(row.last)
<1>1. CASE Parse(row.last) = 0
  BY <1>1 DEF FirstCandidate, Days
<1>2. CASE Parse(row.last) # 0
  <2>1. Parse(row.last) \in Days
    BY <1>2 DEF Parse, TypeOK, Rows, Days
  <2> QED BY <1>2, <2>1, NextOccurs DEF FirstCandidate
<1> QED BY <1>1, <1>2

LEMMA InitIInv == Init => IInv
<1> SUFFICES ASSUME Init PROVE IInv
  OBVIOUS
<1> USE RecurringConstants DEF Init
<1>1. PICK c \in Cadences : row = NoRow(c) /\ draft = row
  OBVIOUS
<1>2. row \in Rows
  BY <1>1 DEF NoRow, Rows
<1>3. row.last = 0 /\ row.next = 0
  BY <1>1 DEF NoRow
<1>4. TypeOK
  <2>1. today \in Days /\ lock \in 0..MaxDay /\ seenLock \in 0..MaxDay
    BY DEF Days
  <2>2. cur \in Nat /\ slots \in Nat /\ count \in 0..MaxCatchup
    OBVIOUS
  <2>3. draft \in Rows
    BY <1>1, <1>2
  <2> QED
    BY <1>2, <2>1, <2>2, <2>3 DEF TypeOK
<1> QED
  <2>1. RowInOrder
    BY <1>3 DEF RowInOrder, InOrder
  <2>2. DraftInOrder
    BY <1>1, <1>3 DEF DraftInOrder
  <2> QED
    BY <1>4, <2>1, <2>2 DEF IInv

\* Every action keeps the types.
LEMMA TypeNext == ASSUME IInv, [Next]_vars PROVE TypeOK'
<1>0. TypeOK /\ DraftInOrder
  BY DEF IInv
<1> USE <1>0, RecurringConstants DEF TypeOK, dbVars, loopVars, Rows, Days
<1>1. ASSUME NEW s \in Days, NEW e \in Ends, NEW c \in Cadences, NEW a \in BOOLEAN,
             Create(s, e, c, a)
      PROVE  TypeOK'
  <2>1. draft' \in Rows
    <3>1. draft' = [start |-> s, next |-> s, last |-> 0, end |-> e, every |-> c,
                    active |-> a, deleted |-> FALSE, put |-> s]
      BY <1>1 DEF Create, Begin, NoRow
    <3>2. s \in Nat /\ e \in Nat
      BY DEF Days
    <3> QED
      BY <3>1, <3>2
  <2> QED
    BY <1>1, <2>1 DEF Create, Begin
<1>2. ASSUME NEW s \in Days, NEW e \in Ends, NEW c \in Cadences, NEW a \in BOOLEAN,
             Update(s, e, c, a)
      PROVE  TypeOK'
  <2>1. draft' = [row EXCEPT !.start = s, !.end = e, !.every = c, !.active = a] /\ s \in Nat /\ e \in Nat
    BY <1>2 DEF Update, Begin
  <2>2. cur' \in Nat
    BY <1>2, CandidateFollows DEF Update
  <2>3. draft' \in Rows
    BY <2>1
  <2> QED
    BY <1>2, <2>2, <2>3 DEF Update, Begin
<1>15. CASE TryNext
  <2>1. cur \in Days /\ draft.every \in Cadences
    BY <1>15 DEF TryNext, DraftInOrder
  <2>2. cur' \in Nat
    BY <1>15, <2>1, NextOccurs DEF TryNext
  <2> QED
    BY <1>15, <2>2 DEF TryNext
<1>16. CASE PutCursor
  <2>1. (draft.active /\ ~Ended(cur, draft.end)) \in BOOLEAN
    BY Zenon DEF Ended
  <2>2. draft' \in Rows
    BY <1>16, <2>1 DEF PutCursor
  <2> QED
    BY <1>16, <2>2 DEF PutCursor
<1>3. CASE LeaveInactive
  BY <1>3 DEF LeaveInactive, Commit, Finish
<1>4. CASE Load
  BY <1>4 DEF Load, Parse
<1>5. CASE SkipLocked
  <2>1. cur \in Days /\ draft.every \in Cadences
    BY <1>5 DEF SkipLocked, Due
  <2>2. cur' \in Nat /\ passed' \subseteq Days
    BY <1>5, <2>1, NextOccurs DEF SkipLocked
  <2> QED
    BY <1>5, <2>2 DEF SkipLocked
<1>6. CASE PostOccurrence
  <2>1. cur \in Days /\ draft.every \in Cadences
    BY <1>6 DEF PostOccurrence, Due
  <2>2. draft' \in Rows
    BY <1>6, <2>1 DEF PostOccurrence
  <2>3. slots' \in Nat
    BY <1>6 DEF PostOccurrence
  <2>4. count' \in 0..MaxCatchup
    BY <1>6 DEF PostOccurrence, Due
  <2>5. wrote' \subseteq Days /\ cur' \in Nat
    BY <1>6, <2>1, NextOccurs DEF PostOccurrence
  <2> QED
    BY <1>6, <2>2, <2>3, <2>4, <2>5 DEF PostOccurrence
<1>7. CASE Stop
  <2>1. NextRunDate \in Nat
    BY DEF NextRunDate, Parse, Days
  <2>2. RemainsActive \in BOOLEAN
    BY Zenon DEF RemainsActive, Ended
  <2> HIDE DEF NextRunDate, RemainsActive
  <2>3. row' \in Rows
    BY <1>7, <2>1, <2>2 DEF Stop, Commit
  <2> QED
    BY <1>7, <2>3 DEF Stop, Commit, Finish
<1>8. CASE PostNext
  <2>1. cur \in Days /\ AfterRun \in Nat
    <3>1. cur \in Days /\ draft.every \in Cadences
      BY <1>8 DEF PostNext, DraftInOrder
    <3> QED
      BY <3>1, NextOccurs DEF AfterRun
  <2>2. (~Ended(AfterRun, Parse(draft.end))) \in BOOLEAN
    BY Zenon DEF Ended
  <2>3. row' \in Rows
    <3>1. row' = [draft EXCEPT !.next = AfterRun, !.last = cur,
                               !.active = ~Ended(AfterRun, Parse(draft.end))]
      BY <1>8 DEF PostNext, Commit
    <3>2. cur \in 0..MaxDay /\ draft \in Rows
      BY <2>1
    <3> QED BY <2>1, <2>2, <3>1, <3>2
  <2>4. runs' \subseteq Days
    BY <1>8, <2>1 DEF PostNext, Commit
  <2> QED
    BY <1>8, <2>3, <2>4 DEF PostNext, Commit, Finish
<1>9. CASE RunNow
  BY <1>9 DEF RunNow, Begin
<1>10. CASE Rollback
  BY <1>10 DEF Rollback, Finish
<1>11. ASSUME NEW a \in BOOLEAN, NEW del \in BOOLEAN, SetStatus(a, del) PROVE TypeOK'
  BY <1>11 DEF SetStatus
<1>12. CASE Tick
  BY <1>12 DEF Tick, Days
<1>13. ASSUME NEW d \in LockDates, MoveLock(d) PROVE TypeOK'
  BY <1>13 DEF MoveLock
<1>14. CASE UNCHANGED vars
  BY <1>14 DEF vars
<1> QED
  BY <1>1, <1>2, <1>3, <1>4, <1>5, <1>6, <1>7, <1>8, <1>9, <1>10, <1>11, <1>12, <1>13, <1>14, <1>15,
     <1>16
  DEF Next, InFlight

\* Every action keeps what is posted behind the last run and the cursor.
LEMMA OrderNext ==
  ASSUME IInv, [Next]_vars
  PROVE  RowInOrder' /\ DraftInOrder'
<1> USE RecurringConstants
    DEF IInv, TypeOK, dbVars, loopVars, Rows, RowInOrder, DraftInOrder, InOrder
<1>1. ASSUME NEW s \in Days, NEW e \in Ends, NEW c \in Cadences, NEW a \in BOOLEAN,
             Create(s, e, c, a)
      PROVE  RowInOrder' /\ DraftInOrder'
  BY <1>1 DEF Create, Begin, NoRow, Days
<1>2. ASSUME NEW s \in Days, NEW e \in Ends, NEW c \in Cadences, NEW a \in BOOLEAN,
             Update(s, e, c, a)
      PROVE  RowInOrder' /\ DraftInOrder'
  <2>1. draft' = [row EXCEPT !.start = s, !.end = e, !.every = c, !.active = a]
    BY <1>2 DEF Update, Begin
  <2>2. cur' \in Nat /\ cur' > row.last
    BY <1>2, CandidateFollows DEF Update, Parse
  <2>3. draft'.next = row.next /\ draft'.last = row.last
    BY <2>1
  <2>4. /\ step = "idle" /\ step' = "scheduling" /\ UNCHANGED <<present, row, runs, wrote>>
        /\ present
    BY <1>2 DEF Update, Begin
  <2> QED
    BY <2>2, <2>3, <2>4
<1>15. CASE TryNext
  <2>1. cur \in Days /\ draft.every \in Cadences
    BY <1>15 DEF TryNext, Days
  <2>2. cur' \in Nat /\ cur' > cur
    BY <1>15, <2>1, NextOccurs DEF TryNext
  <2>3. UNCHANGED <<present, row, runs, step, draft, wrote>> /\ step = "scheduling"
    BY <1>15 DEF TryNext
  <2> QED
    BY <2>2, <2>3
<1>16. CASE PutCursor
  <2>1. /\ UNCHANGED <<present, row, runs, wrote>> /\ step = "scheduling" /\ step' = "loading"
        /\ cur' = 0 /\ draft'.next = cur /\ draft'.last = draft.last
    BY <1>16 DEF PutCursor
  <2> QED
    BY <2>1
<1>3. CASE LeaveInactive
  BY <1>3 DEF LeaveInactive, Commit, Finish
<1>4. CASE Load
  BY <1>4 DEF Load, Parse
<1>5. CASE SkipLocked
  <2>1. cur \in Days /\ draft.every \in Cadences
    BY <1>5 DEF SkipLocked, Due, Days
  <2>2. cur' \in Nat /\ cur' > cur
    BY <1>5, <2>1, NextOccurs DEF SkipLocked
  <2>3. UNCHANGED <<present, row, runs, step, draft, wrote>> /\ step = "looping" /\ cur # 0
    BY <1>5 DEF SkipLocked, Due
  <2> QED
    BY <2>2, <2>3
<1>6. CASE PostOccurrence
  <2>1. cur \in Days /\ draft.every \in Cadences
    BY <1>6 DEF PostOccurrence, Due, Days
  <2>2. cur' \in Nat /\ cur' > cur
    BY <1>6, <2>1, NextOccurs DEF PostOccurrence
  <2>3. /\ UNCHANGED <<present, row, runs, step>> /\ step = "looping" /\ cur # 0
        /\ wrote' = wrote \union ({cur} \ runs) /\ draft' = [draft EXCEPT !.last = cur]
    BY <1>6 DEF PostOccurrence, Due
  <2>4. draft'.last = cur /\ draft'.next = draft.next
    BY <2>3
  <2>5. /\ \A d \in runs : d < cur
        /\ runs \subseteq Nat /\ wrote \subseteq Nat /\ \A d \in wrote : d < cur
    BY <2>3 DEF Days
  <2> QED
    BY <2>1, <2>2, <2>3, <2>4, <2>5
<1>7. CASE Stop
  <2>1. NextRunDate \in Nat /\ NextRunDate > draft.last
    BY <1>7 DEF Stop, NextRunDate, Parse, Days
  <2> QED
    BY <1>7, <2>1 DEF Stop, Commit, Finish
<1>8. CASE PostNext
  <2>1. cur \in Days /\ draft.every \in Cadences
    BY <1>8 DEF PostNext
  <2>2. AfterRun \in Nat /\ AfterRun > cur
    BY <2>1, NextOccurs DEF AfterRun
  <2>3. /\ step' = "idle" /\ present' = TRUE /\ runs' = runs \union {cur} /\ draft' = row' /\ wrote' = {}
        /\ cur' = 0 /\ row'.next = AfterRun /\ row'.last = cur
    BY <1>8 DEF PostNext, Commit, Finish
  <2>4. \A d \in runs : d <= cur
    BY <1>8, <2>1 DEF PostNext, Days
  <2>5. DatesAsText
    BY <1>8 DEF PostNext
  <2> QED
    BY <2>1, <2>2, <2>3, <2>4, <2>5 DEF Days
<1>9. CASE RunNow
  BY <1>9 DEF RunNow, Begin, Parse, Days
<1>10. CASE Rollback
  BY <1>10 DEF Rollback, Finish
<1>11. ASSUME NEW a \in BOOLEAN, NEW del \in BOOLEAN, SetStatus(a, del)
       PROVE  RowInOrder' /\ DraftInOrder'
  BY <1>11 DEF SetStatus
<1>12. CASE Tick
  BY <1>12 DEF Tick
<1>13. ASSUME NEW d \in LockDates, MoveLock(d) PROVE RowInOrder' /\ DraftInOrder'
  BY <1>13 DEF MoveLock
<1>14. CASE UNCHANGED vars
  BY <1>14 DEF vars
<1> QED
  BY <1>1, <1>2, <1>3, <1>4, <1>5, <1>6, <1>7, <1>8, <1>9, <1>10, <1>11, <1>12, <1>13, <1>14, <1>15,
     <1>16
  DEF Next, InFlight

\* The row, the loop and what is posted are in the order of the dates, always:
\* the inductive invariant of materializeTemplateRuns, materializeNextTemplateRun
\* and the edits between them.
THEOREM Inductive == Spec => []IInv
<1>1. Init => IInv
  BY InitIInv
<1>2. IInv /\ [Next]_vars => IInv'
  BY TypeNext, OrderNext DEF IInv
<1> QED
  BY <1>1, <1>2, PTL DEF Spec

\* The state of a template and of the request in flight is well typed.
THEOREM TypeCorrect == Spec => []TypeOK
<1>1. IInv => TypeOK
  BY DEF IInv
<1> QED
  BY <1>1, Inductive, PTL

\* A step of the requests is a step of the schedule, or one it does not see.
LEMMA StepsAdvance ==
  ASSUME IInv, IInv', [Next]_vars
  PROVE  [Schedule!Advance]_<<row.next, runs>>
<1> USE RecurringConstants DEF Schedule!Advance
<1>1. ASSUME UNCHANGED runs PROVE Schedule!Advance
  BY <1>1 DEF IInv, TypeOK, Rows, RowInOrder, InOrder, Days
<1>2. \A d \in runs' : d < row'.next
  BY DEF IInv, TypeOK, Rows, RowInOrder, InOrder, Days
<1>3. CASE Stop
  <2>1. runs' = runs \union wrote
    BY <1>3 DEF Stop, Commit
  <2> QED
    BY <1>2, <2>1 DEF IInv, DraftInOrder
<1>4. CASE PostNext
  <2>1. runs' = runs \union {cur} /\ step = "posting"
    BY <1>4 DEF PostNext, Commit
  <2>2. \A x \in runs : x < cur
    BY <2>1 DEF IInv, TypeOK, Rows, DraftInOrder, Days
  <2> QED
    BY <1>2, <2>1, <2>2
<1> QED
  BY <1>1, <1>3, <1>4
  DEF Next, InFlight, vars, dbVars, Create, Update, TryNext, PutCursor, LeaveInactive, Commit, Load, SkipLocked,
      PostOccurrence, RunNow, Rollback, SetStatus, Tick, MoveLock

\* The requests implement the schedule: no occurrence is posted twice or out of
\* order, and the cursor stays past every run, through edits, pauses, deletions,
\* catching up and failures.
THEOREM ImplementsSchedule == Spec => ScheduleKept
<1>1. Init => Schedule!Init
  BY DEF Init, Schedule!Init, NoRow
<1>2. IInv /\ IInv' /\ [Next]_vars => [Schedule!Advance]_<<row.next, runs>>
  BY StepsAdvance
<1> QED
  BY <1>1, <1>2, Inductive, PTL DEF Spec, ScheduleKept, Schedule!Spec

-----------------------------------------------------------------------------
\* The backlog.

\* The k-th day or month after the one on which the user put the cursor of r.
Slot(r, k) == Period(r.put, r.every) + k * r.every.n

\* c is an occurrence of r, from where the user put the cursor, and S has one for
\* each day or month before it.
Caught(r, c, S) ==
  /\ c >= r.put /\ Period(r.put, r.every) \in Nat
  /\ \E m \in Nat : Period(c, r.every) = Slot(r, m)
  /\ \A k \in Nat : Slot(r, k) < Period(c, r.every) =>
       \E d \in S : d >= r.put /\ Period(d, r.every) = Slot(r, k)

\* The occurrences in S, from where the user put the cursor, are for one day or month
\* after another, and all before that of c.
Spaced(r, c, S) ==
  \A d \in S : d >= r.put =>
    /\ Period(d, r.every) < Period(c, r.every)
    /\ \A e \in S : d < e => Period(d, r.every) < Period(e, r.every)

Kept(r, c, posted, over) == Caught(r, c, posted \union over) /\ Spaced(r, c, posted)

\* With dates that parse: the committed cursor is caught up with, and so is the
\* loop in flight, by what it has written and passed over.
Backlog ==
  DatesAsText =>
    /\ present => Kept(row, row.next, runs, skipped)
    /\ step = "scheduling" => Period(cur, draft.every) \in Nat
    /\ step = "loading" => draft.next = draft.put /\ Period(draft.put, draft.every) \in Nat
    /\ step = "looping" => Kept(draft, cur, runs \union wrote, skipped \union passed)
    /\ step = "posting" => draft = row /\ cur = row.next

\* Between two slots there is none.
LEMMA NextSlot ==
  ASSUME NEW e \in Nat \ {0}, NEW m \in Nat, NEW k \in Nat, k * e < m * e + e
  PROVE  k <= m
<1> SUFFICES ASSUME k > m
             PROVE  FALSE
  OBVIOUS
<1>1. k - (m + 1) \in Nat
  OBVIOUS
<1>2. k * e = (m + 1) * e + (k - (m + 1)) * e
  OBVIOUS
<1>3. (k - (m + 1)) * e \in Nat
  BY <1>1
<1>4. (m + 1) * e = m * e + e
  OBVIOUS
<1>5. m * e \in Nat /\ k * e \in Nat
  OBVIOUS
<1> QED
  BY <1>2, <1>3, <1>4, <1>5

\* An earlier slot is an earlier day or month.
LEMMA SlotsRise ==
  ASSUME NEW e \in Nat \ {0}, NEW m \in Nat, NEW k \in Nat, k < m
  PROVE  k * e < m * e
<1>1. m - k \in Nat \ {0}
  OBVIOUS
<1>2. m * e = k * e + (m - k) * e
  OBVIOUS
<1>3. (m - k) * e \in Nat \ {0} /\ k * e \in Nat
  BY <1>1
<1> QED
  BY <1>2, <1>3

\* The loop goes on to the next occurrence when it is done with this one.
LEMMA CaughtOn ==
  ASSUME NEW r \in Rows, NEW c \in Days, NEW S, Caught(r, c, S)
  PROVE  Caught(r, computeNextOccurrence(c, r.every), S \union {c})
<1> DEFINE f == Period(r.put, r.every)
           n == r.every.n
           p == Period(c, r.every)
           next == computeNextOccurrence(c, r.every)
<1>1. /\ next \in Nat /\ next > c /\ p \in Nat /\ n \in Nat \ {0} /\ Period(next, r.every) = p + n
      /\ r.put \in Nat /\ c \in Nat
  BY NextOccurs DEF Rows, Days
<1>2. c >= r.put /\ f \in Nat
  BY DEF Caught
<1>3. PICK m \in Nat : p = f + m * n
  BY DEF Caught, Slot
<1>4. \A k \in Nat : f + k * n < p => \E d \in S : d >= r.put /\ Period(d, r.every) = f + k * n
  BY DEF Caught, Slot
<1> HIDE DEF f, n, p, next
<1>5. next >= r.put
  BY <1>1, <1>2
<1>6. Period(next, r.every) = f + (m + 1) * n
  BY <1>1, <1>2, <1>3
<1>7. ASSUME NEW k \in Nat, f + k * n < p + n
      PROVE  \E d \in S \union {c} : d >= r.put /\ Period(d, r.every) = f + k * n
  <2>1. k * n \in Nat /\ m * n \in Nat
    BY <1>1
  <2>2. k * n < m * n + n
    BY <1>1, <1>2, <1>3, <1>7, <2>1
  <2>3. k <= m
    BY <1>1, <2>2, NextSlot
  <2>4. CASE k = m
    BY <1>2, <1>3, <2>4 DEF p
  <2>5. CASE k < m
    <3>1. f + k * n < p
      BY <1>1, <1>2, <1>3, <2>1, <2>5, SlotsRise
    <3> QED
      BY <1>4, <3>1
  <2> QED
    BY <2>3, <2>4, <2>5
<1>8. m + 1 \in Nat
  OBVIOUS
<1> QED
  BY <1>1, <1>2, <1>5, <1>6, <1>7, <1>8 DEF Caught, Slot, f, n, next

\* ... and it is for a later day or month than any before it.
LEMMA SpacedOn ==
  ASSUME NEW r \in Rows, NEW c \in Days, NEW S \in SUBSET Days, Spaced(r, c, S), \A d \in S : d <= c,
         NEW T, T \subseteq S \union {c}
  PROVE  Spaced(r, computeNextOccurrence(c, r.every), T)
<1> DEFINE P(d) == Period(d, r.every)
           next == computeNextOccurrence(c, r.every)
<1>1. P(next) = P(c) + r.every.n /\ r.every.n \in Nat \ {0}
  BY NextOccurs DEF Rows
<1>2. \A d \in S \union {c} : P(d) \in Nat
  BY NextOccurs DEF Rows
<1>3. \A d \in S : d >= r.put => P(d) < P(c) /\ \A e \in S : d < e => P(d) < P(e)
  BY DEF Spaced
<1>4. c \in Nat /\ S \subseteq Nat
  BY DEF Days
<1> HIDE DEF P, next
<1>5. ASSUME NEW d \in S \union {c}, d >= r.put
      PROVE  P(d) < P(next) /\ \A e \in S \union {c} : d < e => P(d) < P(e)
  <2>1. CASE d \in S
    BY <1>1, <1>2, <1>3, <1>5, <2>1
  <2>2. CASE d = c
    BY <1>1, <1>2, <1>4, <2>2
  <2> QED BY <2>1, <2>2
<1> QED BY <1>5 DEF Spaced, P, next

\* What starts on an occurrence has none before it to catch up with, and is after all
\* that is posted.
LEMMA KeptAtStart ==
  ASSUME NEW r \in Rows, Period(r.put, r.every) \in Nat, r.every.n \in Nat,
         NEW S \in SUBSET Nat, \A d \in S : d < r.put, NEW T
  PROVE  Kept(r, r.put, S, T)
<1> DEFINE f == Period(r.put, r.every)
           n == r.every.n
<1>1. r.put \in Nat /\ f \in Nat /\ n \in Nat
  BY DEF Rows
<1>2. Spaced(r, r.put, S)
  BY <1>1 DEF Spaced
<1> HIDE DEF f, n
<1>3. f = f + 0 * n /\ \A k \in Nat : ~(f + k * n < f)
  <2>1. \A k \in Nat : k * n \in Nat
    BY <1>1
  <2> QED BY <1>1, <2>1
<1>4. Caught(r, r.put, S \union T)
  BY <1>1, <1>3 DEF Caught, Slot, f, n
<1> QED BY <1>2, <1>4 DEF Kept

\* Only the cadence and where the user put the cursor matter.
LEMMA KeptByGrid ==
  ASSUME NEW r, NEW q, NEW c, NEW S, NEW T, Kept(r, c, S, T), q.put = r.put, q.every = r.every
  PROVE  Kept(q, c, S, T)
BY DEF Kept, Caught, Spaced, Slot

\* After this occurrence, posted or passed over.
LEMMA KeptOn ==
  ASSUME NEW r \in Rows, NEW c \in Days, NEW S \in SUBSET Days, NEW T, Kept(r, c, S, T),
         \A d \in S : d <= c, NEW V, NEW W, S \subseteq V, V \subseteq S \union {c},
         S \union T \union {c} \subseteq V \union W
  PROVE  Kept(r, computeNextOccurrence(c, r.every), V, W)
<1> DEFINE next == computeNextOccurrence(c, r.every)
<1>1. Caught(r, next, (S \union T) \union {c})
  BY CaughtOn DEF Kept
<1>2. Spaced(r, next, V)
  BY SpacedOn DEF Kept
<1> HIDE DEF next
<1>3. Caught(r, next, V \union W)
  BY <1>1 DEF Caught
<1> QED BY <1>2, <1>3 DEF Kept, next

LEMMA BacklogNext ==
  ASSUME IInv, Backlog, [Next]_vars, DatesAsText
  PROVE  Backlog'
<1> USE RecurringConstants DEF dbVars, loopVars
<1>1. /\ row \in Rows /\ draft \in Rows /\ \A d : Parse(d) = d
      /\ runs \subseteq Days /\ wrote \subseteq Days /\ cur \in Nat /\ today \in Days
  BY DEF IInv, TypeOK, Parse
<1>2. /\ present => Kept(row, row.next, runs, skipped)
      /\ step = "scheduling" => Period(cur, draft.every) \in Nat
      /\ step = "loading" => draft.next = draft.put /\ Period(draft.put, draft.every) \in Nat
      /\ step = "looping" => Kept(draft, cur, runs \union wrote, skipped \union passed)
      /\ step = "posting" => draft = row /\ cur = row.next
  BY DEF Backlog
<1>3. /\ step = "looping" => cur # 0
      /\ step \in {"looping", "posting"} => \A d \in runs \union wrote : d <= cur
      /\ step = "loading" => \A d \in runs : d < draft.next
      /\ step \in {"loading", "posting"} => wrote = {}
      /\ step = "posting" => cur \in Days
  BY DEF IInv, TypeOK, Rows, DraftInOrder, Days
<1>4. ASSUME UNCHANGED <<present, row, runs, skipped>>, step' \in {"idle", "scheduling", "loading", "posting"},
             step' = "scheduling" => Period(cur', draft'.every) \in Nat,
             step' = "loading" => draft'.next = draft'.put /\ Period(draft'.put, draft'.every) \in Nat,
             step' = "posting" => draft' = row' /\ cur' = row'.next
      PROVE  Backlog'
  BY <1>2, <1>4 DEF Backlog
<1>5. ASSUME UNCHANGED <<present, row, runs, skipped>>, step' = "looping",
             Kept(draft', cur', runs \union wrote', skipped \union passed')
      PROVE  Backlog'
  BY <1>2, <1>5 DEF Backlog
<1>6. ASSUME step' = "idle", Kept(row', row'.next, runs', skipped')
      PROVE  Backlog'
  BY <1>6 DEF Backlog
<1>7. ASSUME NEW s \in Days, NEW e \in Ends, NEW c \in Cadences, NEW a \in BOOLEAN,
             Create(s, e, c, a)
      PROVE  Backlog'
  <2>1. draft'.next = s /\ draft'.put = s /\ draft'.every = c
    BY <1>7 DEF Create, Begin, NoRow
  <2> QED
    BY <1>4, <1>7, <2>1, NextOccurs DEF Create, Begin
<1>8. ASSUME NEW s \in Days, NEW e \in Ends, NEW c \in Cadences, NEW a \in BOOLEAN,
             Update(s, e, c, a)
      PROVE  Backlog'
  <2>1. /\ UNCHANGED <<present, row, runs, skipped>> /\ step' = "scheduling"
        /\ draft' = [row EXCEPT !.start = s, !.end = e, !.every = c, !.active = a]
        /\ cur' = FirstCandidate(s, c)
    BY <1>8 DEF Update, Begin
  <2>2. draft'.every = c
    BY <1>1, <2>1 DEF Rows
  <2>3. Period(FirstCandidate(s, c), c) \in Nat
    <3>1. CASE row.last = 0
      BY <1>1, <3>1, NextOccurs DEF FirstCandidate
    <3>2. CASE row.last # 0
      <4>1. row.last \in Days
        BY <1>1, <3>2 DEF Rows, Days
      <4>2. Period(computeNextOccurrence(row.last, c), c) \in Nat
        BY <4>1, NextOccurs
      <4> QED BY <1>1, <3>2, <4>2 DEF FirstCandidate
    <3> QED BY <3>1, <3>2
  <2> QED
    BY <1>4, <2>1, <2>2, <2>3
<1>9. CASE TryNext
  <2>1. UNCHANGED <<present, row, runs, skipped, step, draft>> /\ step = "scheduling"
    BY <1>9 DEF TryNext
  <2>2. cur \in Days /\ draft.every \in Cadences /\ cur' = computeNextOccurrence(cur, draft.every)
    BY <1>1, <1>9 DEF TryNext, IInv, DraftInOrder, Days, Rows
  <2>3. Period(cur', draft.every) \in Nat
    BY <2>2, NextOccurs
  <2> QED
    BY <1>4, <2>1, <2>3
<1>10. CASE PutCursor
  <2>1. /\ UNCHANGED <<present, row, runs, skipped>> /\ step = "scheduling" /\ step' = "loading"
        /\ draft' = [draft EXCEPT !.next = cur, !.put = cur, !.active = @ /\ ~Ended(cur, draft.end)]
    BY <1>10 DEF PutCursor
  <2>2. draft'.next = cur /\ draft'.put = cur /\ draft'.every = draft.every
    BY <1>1, <2>1 DEF Rows
  <2> QED
    BY <1>2, <1>4, <2>1, <2>2
<1>11. step = "loading" => Kept(draft, draft.next, runs, skipped)
  <2>1. draft.every.n \in Nat /\ runs \subseteq Nat
    BY <1>1 DEF Rows, Days
  <2> QED BY <1>1, <1>2, <1>3, <2>1, KeptAtStart
<1>12. CASE LeaveInactive
  <2>1. /\ row' = draft /\ step' = "idle" /\ step = "loading"
        /\ runs' = runs \union {} /\ skipped' = skipped \union {}
    BY <1>12 DEF LeaveInactive, Commit, Finish
  <2>2. runs' = runs /\ skipped' = skipped
    BY <2>1
  <2> QED
    BY <1>6, <1>11, <2>1, <2>2
<1>13. CASE Load
  <2>1. /\ UNCHANGED <<present, row, runs, skipped, draft, wrote, passed>>
        /\ step = "loading" /\ step' = "looping" /\ cur' = draft.next
    BY <1>1, <1>13 DEF Load
  <2>2. Kept(draft, draft.next, runs \union wrote, skipped \union passed)
    <3>1. runs \union wrote = runs
      BY <1>3, <2>1
    <3>2. Caught(draft, draft.next, runs \union (skipped \union passed))
      BY <1>11, <2>1 DEF Kept, Caught
    <3>3. Spaced(draft, draft.next, runs)
      BY <1>11, <2>1 DEF Kept
    <3> QED BY <3>1, <3>2, <3>3 DEF Kept
  <2> QED
    BY <1>5, <2>1, <2>2
<1>14. CASE SkipLocked
  <2>1. /\ UNCHANGED <<present, row, runs, skipped, draft, wrote>>
        /\ step = "looping" /\ step' = "looping"
        /\ cur' = computeNextOccurrence(cur, draft.every) /\ passed' = passed \union {cur}
    BY <1>14 DEF SkipLocked
  <2>2. cur \in Days
    BY <1>1, <1>14 DEF SkipLocked, Due, Days
  <2>3. Kept(draft, cur', runs \union wrote, skipped \union passed')
    BY <1>1, <1>2, <1>3, <2>1, <2>2, KeptOn
  <2> QED
    BY <1>5, <2>1, <2>3
<1>15. CASE PostOccurrence
  <2>1. /\ UNCHANGED <<present, row, runs, skipped, passed>>
        /\ step = "looping" /\ step' = "looping"
        /\ cur' = computeNextOccurrence(cur, draft.every) /\ wrote' = wrote \union ({cur} \ runs)
        /\ draft' = [draft EXCEPT !.last = cur]
    BY <1>15 DEF PostOccurrence
  <2>2. cur \in Days
    BY <1>1, <1>15 DEF PostOccurrence, Due, Days
  <2>3. Kept(draft, cur', runs \union wrote', skipped \union passed)
    BY <1>1, <1>2, <1>3, <2>1, <2>2, KeptOn
  <2>4. draft'.put = draft.put /\ draft'.every = draft.every
    BY <1>1, <2>1 DEF Rows
  <2>5. Kept(draft', cur', runs \union wrote', skipped \union passed')
    BY <2>1, <2>3, <2>4, KeptByGrid
  <2> QED
    BY <1>5, <2>1, <2>5
<1>16. CASE Stop
  <2>1. /\ step = "looping" /\ step' = "idle"
        /\ row' = [draft EXCEPT !.next = cur, !.active = RemainsActive]
        /\ runs' = runs \union wrote /\ skipped' = skipped \union passed
    BY <1>3, <1>16 DEF Stop, Commit, Finish, NextRunDate
  <2>2. row'.next = cur /\ row'.put = draft.put /\ row'.every = draft.every
    BY <1>1, <2>1 DEF Rows
  <2>3. Kept(draft, cur, runs', skipped')
    BY <1>2, <2>1
  <2>4. Kept(row', cur, runs', skipped')
    BY <2>2, <2>3, KeptByGrid
  <2> QED
    BY <1>6, <2>1, <2>2, <2>4
<1>17. CASE PostNext
  <2>1. /\ step = "posting" /\ step' = "idle" /\ present
        /\ row' = [draft EXCEPT !.next = AfterRun, !.last = cur,
                                !.active = ~Ended(AfterRun, Parse(draft.end))]
        /\ runs' = runs \union {cur} /\ skipped' = skipped \union {}
    BY <1>17 DEF PostNext, Commit, Finish, IInv, DraftInOrder
  <2>2. /\ row'.next = computeNextOccurrence(cur, row.every)
        /\ row'.put = row.put /\ row'.every = row.every
    BY <1>1, <1>2, <2>1 DEF Rows, AfterRun
  <2>3. Kept(row, cur, runs, skipped) /\ cur \in Days /\ \A d \in runs : d <= cur
    BY <1>2, <1>3, <2>1
  <2>4. Kept(row, computeNextOccurrence(cur, row.every), runs', skipped')
    BY <1>1, <2>1, <2>3, KeptOn
  <2>5. Kept(row', row'.next, runs', skipped')
    BY <2>2, <2>4, KeptByGrid
  <2> QED
    BY <1>6, <2>1, <2>5
<1>18. CASE RunNow
  BY <1>4, <1>18 DEF RunNow, Begin
<1>19. CASE Rollback
  BY <1>4, <1>19 DEF Rollback, Finish
<1>20. ASSUME NEW a \in BOOLEAN, NEW del \in BOOLEAN, SetStatus(a, del)
       PROVE  Backlog'
  <2>1. UNCHANGED <<runs, skipped>> /\ step' = "idle" /\ present
    BY <1>20 DEF SetStatus
  <2>2. row'.next = row.next /\ row'.put = row.put /\ row'.every = row.every
    BY <1>1, <1>20 DEF SetStatus, Rows
  <2>3. Kept(row', row'.next, runs', skipped')
    BY <1>2, <2>1, <2>2, KeptByGrid
  <2> QED
    BY <1>6, <2>1, <2>3
<1>21. ASSUME UNCHANGED <<dbVars, step, draft, loopVars>>
       PROVE  Backlog'
  BY <1>2, <1>21 DEF Backlog
<1>22. CASE Tick \/ UNCHANGED vars
  BY <1>21, <1>22 DEF Tick, vars
<1>23. ASSUME NEW d \in LockDates, MoveLock(d)
       PROVE  Backlog'
  BY <1>21, <1>23 DEF MoveLock
<1> QED
  BY <1>7, <1>8, <1>9, <1>10, <1>12, <1>13, <1>14, <1>15, <1>16, <1>17, <1>18, <1>19, <1>20, <1>22,
     <1>23
  DEF Next, InFlight

\* The backlog is kept, when dates parse.
LEMMA BacklogAlways == DatesAsText => (Spec => []Backlog)
<1> SUFFICES ASSUME DatesAsText
             PROVE  Spec => []Backlog
  OBVIOUS
<1>1. Init => Backlog
  BY DEF Init, Backlog
<1>2. IInv /\ Backlog /\ [Next]_vars => Backlog'
  BY BacklogNext
<1> QED
  BY <1>1, <1>2, Inductive, PTL DEF Spec

\* Whichever way the driver gives a DATE.  As ISO text, which is what parseIsoDate
\* reads: from the day or month the user put the cursor on to the one where it is, none
\* of the template's is left out, whatever the lengths of the months, the cap on catching
\* up, the reports of the slots and the moves of the lock.  As a Date object, which is
\* what pg does here: no request posts anything, and no last run is ever written.
THEOREM NothingLeftOut ==
  Spec => [](IF DatesAsText THEN BacklogKept ELSE runs = {} /\ row.last = 0)
<1>1. 0..MaxDay \subseteq Nat
  BY RecurringConstants
<1>2. ASSUME DatesAsText
      PROVE  Spec => [](IF DatesAsText THEN BacklogKept ELSE runs = {} /\ row.last = 0)
  <2>1. Backlog => IF DatesAsText THEN BacklogKept ELSE runs = {} /\ row.last = 0
    BY <1>1, <1>2 DEF Backlog, BacklogKept, Kept, Caught, Slot
  <2>2. Spec => []Backlog
    BY <1>2, BacklogAlways
  <2> QED BY <2>1, <2>2, PTL
<1>3. ASSUME ~DatesAsText
      PROVE  Spec => [](IF DatesAsText THEN BacklogKept ELSE runs = {} /\ row.last = 0)
  <2>1. IInv => IF DatesAsText THEN BacklogKept ELSE runs = {} /\ row.last = 0
    BY <1>3 DEF IInv, RowInOrder, InOrder, TypeOK, Days
  <2> QED BY <2>1, Inductive, PTL
<1> QED BY <1>2, <1>3

\* And no day or month has two: addMonths never puts the next occurrence in the month
\* it comes from, nor do edits.  (When dates do not parse nothing is posted.)
THEOREM NoneTwice == Spec => []OncePerPeriod
<1>1. DatesAsText => (Spec => []OncePerPeriod)
  <2> SUFFICES ASSUME DatesAsText
               PROVE  Spec => []OncePerPeriod
    OBVIOUS
  <2>1. IInv /\ Backlog => OncePerPeriod
    <3> SUFFICES ASSUME IInv, Backlog
                 PROVE  OncePerPeriod
      OBVIOUS
    <3>1. CASE present
      BY <3>1 DEF Backlog, Kept, Spaced, OncePerPeriod
    <3>2. CASE ~present
      BY <3>2 DEF IInv, RowInOrder, OncePerPeriod
    <3> QED BY <3>1, <3>2
  <2> QED
    BY <2>1, Inductive, BacklogAlways, PTL
<1>2. ~DatesAsText => (Spec => []OncePerPeriod)
  <2> SUFFICES ASSUME ~DatesAsText
               PROVE  Spec => []OncePerPeriod
    OBVIOUS
  <2>1. IInv => OncePerPeriod
    <3> SUFFICES ASSUME IInv
                 PROVE  OncePerPeriod
      OBVIOUS
    <3>1. runs = {}
      BY DEF IInv, RowInOrder, InOrder, TypeOK, Days
    <3> QED BY <3>1 DEF OncePerPeriod
  <2> QED
    BY <2>1, Inductive, PTL
<1> QED
  BY <1>1, <1>2
=============================================================================
