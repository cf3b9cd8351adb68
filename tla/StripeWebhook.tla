--------------------------- MODULE StripeWebhook ---------------------------
(***************************************************************************)
(* POST /api/billing/webhook (routes/billing.routes.js) and its table      *)
(* stripe_webhook_events: an event id is reserved before it is handled,    *)
(* the reservation is released when handling throws, and rows older than   *)
(* seven days are swept.  Stripe delivers an event again until it sees a   *)
(* 2xx answer, for RetryDays.                                              *)
(***************************************************************************)
EXTENDS Naturals, FiniteSets

CONSTANTS
  Events,     \* Stripe event ids
  Handlers,   \* webhook requests that may be in flight at one time
  RetryDays,  \* how long Stripe retries a delivery, in days
  TtlDays,    \* _WEBHOOK_IDEMPOTENCY_TTL_MS, in days
  MaxTries,   \* bound of the model: deliveries of one event
  Faults      \* what may go wrong in this instance of the model

AllFaults == {"reserve", "sweep", "handle", "release", "answer", "crash", "overlap"}

\* "Stripe can retry failed deliveries for up to 72 h; keep IDs for 7 days".
ASSUME IdsOutliveRetries ==
  /\ RetryDays \in Nat /\ TtlDays \in Nat /\ MaxTries \in Nat
  /\ RetryDays <= TtlDays
  /\ Faults \subseteq AllFaults

VARIABLES
  made, acked,   \* events that happened; events Stripe saw a 2xx for
  tries, age,    \* per event: deliveries so far, days since it happened
  rows, rowAge,  \* events with a row in the table; the row's age in days
  step, event,   \* per request: where its handler is, and its event
  inserted,      \* requests whose INSERT made the row
  completed,     \* per event: how often handleStripeWebhookEvent has returned
  risked         \* history: events whose reservation a fault left behind, or another
                 \* delivery met while they were being handled

stripeVars == <<made, acked, tries, age>>
tableVars == <<rows, rowAge>>
vars == <<stripeVars, tableVars, step, event, inserted, completed, risked>>

Step == {"idle", "reserving", "sweeping", "duplicate", "handling", "releasing"}
Days == 0..(TtlDays + 1)
TypeOK ==
  /\ made \in SUBSET Events /\ acked \in SUBSET Events /\ rows \in SUBSET Events
  /\ tries \in [Events -> 0..MaxTries]
  /\ age \in [Events -> Days] /\ rowAge \in [Events -> Days]
  /\ step \in [Handlers -> Step] /\ event \in [Handlers -> Events]
  /\ inserted \in SUBSET Handlers
  /\ completed \in [Events -> Nat] /\ risked \in SUBSET Events

Init ==
  /\ made = {} /\ acked = {} /\ rows = {} /\ inserted = {} /\ risked = {}
  /\ tries = [e \in Events |-> 0]
  /\ age = [e \in Events |-> 0] /\ rowAge = [e \in Events |-> 0]
  /\ step = [h \in Handlers |-> "idle"] /\ event \in [Handlers -> Events]
  /\ completed = [e \in Events |-> 0]

\* The request owns the event: its INSERT made the row.
Owns(h) == \/ step[h] \in {"handling", "releasing"}
           \/ step[h] = "sweeping" /\ h \in inserted

Goto(h, st) == step' = [step EXCEPT ![h] = st] /\ UNCHANGED event

\* The request ends with a 200: Stripe stops retrying if the answer arrives.
AnswerOk(h) ==
  /\ Goto(h, "idle")
  /\ \/ acked' = acked \union {event[h]}
     \/ "answer" \in Faults /\ UNCHANGED acked
  /\ UNCHANGED <<made, tries, age, inserted>>

\* The request ends with a 500, or with no answer at all: Stripe will retry.
AnswerError(h) == Goto(h, "idle") /\ UNCHANGED <<stripeVars, inserted>>

Happen(e) ==
  /\ e \notin made
  /\ made' = made \union {e}
  /\ UNCHANGED <<acked, tries, age, tableVars, step, event, inserted, completed, risked>>

\* A first delivery or a retry.  A delivery that takes too long is sent again
\* while the first is still being handled ("overlap").
Deliver(h, e) ==
  /\ e \in made \ acked
  /\ age[e] <= RetryDays
  /\ tries[e] < MaxTries
  /\ step[h] = "idle"
  /\ "overlap" \in Faults \/ \A g \in Handlers : step[g] = "idle" \/ event[g] # e
  /\ tries' = [tries EXCEPT ![e] = @ + 1]
  /\ step' = [step EXCEPT ![h] = "reserving"]
  /\ event' = [event EXCEPT ![h] = e]
  /\ UNCHANGED <<made, acked, age, tableVars, inserted, completed, risked>>

\* INSERT .. ON CONFLICT DO NOTHING; one request in a hundred sweeps as well.
reserveWebhookEvent(h) ==
  /\ step[h] = "reserving"
  /\ \/ /\ event[h] \notin rows
        /\ rows' = rows \union {event[h]}
        /\ rowAge' = [rowAge EXCEPT ![event[h]] = 0]
        /\ inserted' = inserted \union {h}
        /\ Goto(h, "handling") \/ Goto(h, "sweeping")
        /\ UNCHANGED risked
     \/ /\ event[h] \in rows
        /\ inserted' = inserted \ {h}
        /\ Goto(h, "duplicate") \/ Goto(h, "sweeping")
        /\ risked' = IF \E g \in Handlers : Owns(g) /\ event[g] = event[h]
                     THEN risked \union {event[h]} ELSE risked
        /\ UNCHANGED tableVars
  /\ UNCHANGED <<stripeVars, completed>>

ReserveFails(h) ==
  /\ "reserve" \in Faults
  /\ step[h] = "reserving"
  /\ AnswerError(h)
  /\ UNCHANGED <<tableVars, completed, risked>>

\* Mutant of Sweep: a row as old as the TTL goes too.
SweepEarly(h) ==
  /\ step[h] = "sweeping"
  /\ rows' = {e \in rows : rowAge[e] < TtlDays}
  /\ Goto(h, IF h \in inserted THEN "handling" ELSE "duplicate")
  /\ UNCHANGED <<stripeVars, rowAge, inserted, completed, risked>>

\* The sweep of reserveWebhookEvent: DELETE rows older than the TTL.
Sweep(h) ==
  /\ step[h] = "sweeping"
  /\ rows' = {e \in rows : rowAge[e] <= TtlDays}
  /\ Goto(h, IF h \in inserted THEN "handling" ELSE "duplicate")
  /\ UNCHANGED <<stripeVars, rowAge, inserted, completed, risked>>

\* The sweep throws after the INSERT: reserveWebhookEvent throws, the route
\* answers 500 and the row it inserted stays.
SweepFails(h) ==
  /\ "sweep" \in Faults
  /\ step[h] = "sweeping"
  /\ AnswerError(h)
  /\ risked' = IF h \in inserted THEN risked \union {event[h]} ELSE risked
  /\ UNCHANGED <<tableVars, completed>>

SkipDuplicate(h) ==
  /\ step[h] = "duplicate"
  /\ AnswerOk(h)
  /\ UNCHANGED <<tableVars, completed, risked>>

\* Mutant of Handle: the row is released after a success as well.
HandleReleases(h) ==
  /\ step[h] = "handling"
  /\ completed' = [completed EXCEPT ![event[h]] = @ + 1]
  /\ rows' = rows \ {event[h]}
  /\ AnswerOk(h)
  /\ UNCHANGED <<rowAge, risked>>

\* handleStripeWebhookEvent returns: it applied the event, or it chose to
\* return early (no business, no subscription from Stripe, mail not sent).
Handle(h) ==
  /\ step[h] = "handling"
  /\ completed' = [completed EXCEPT ![event[h]] = @ + 1]
  /\ AnswerOk(h)
  /\ UNCHANGED <<tableVars, risked>>

\* Mutant of HandleThrows: the error is answered without a release.
ThrowKeepsRow(h) ==
  /\ "handle" \in Faults
  /\ step[h] = "handling"
  /\ AnswerError(h)
  /\ UNCHANGED <<tableVars, completed, risked>>

HandleThrows(h) ==
  /\ "handle" \in Faults
  /\ step[h] = "handling"
  /\ Goto(h, "releasing")
  /\ UNCHANGED <<stripeVars, tableVars, inserted, completed, risked>>

releaseWebhookEvent(h) ==
  /\ step[h] = "releasing"
  /\ rows' = rows \ {event[h]}
  /\ AnswerError(h)
  /\ UNCHANGED <<rowAge, completed, risked>>

\* The DELETE fails: the error is logged, the answer is 500 all the same.
ReleaseFails(h) ==
  /\ "release" \in Faults
  /\ step[h] = "releasing"
  /\ AnswerError(h)
  /\ risked' = risked \union {event[h]}
  /\ UNCHANGED <<tableVars, completed>>

Crash(h) ==
  /\ "crash" \in Faults
  /\ step[h] # "idle"
  /\ AnswerError(h)
  /\ risked' = IF Owns(h) THEN risked \union {event[h]} ELSE risked
  /\ UNCHANGED <<tableVars, completed>>

\* A day passes; a request lasts seconds, so none spans it.
OlderUncapped(d) == d + 1  \* mutant of Older
Older(d) == IF d > TtlDays THEN d ELSE d + 1
Tick ==
  /\ \A h \in Handlers : step[h] = "idle"
  /\ age' = [e \in Events |-> IF e \in made THEN Older(age[e]) ELSE age[e]]
  /\ rowAge' = [e \in Events |-> IF e \in rows THEN Older(rowAge[e]) ELSE rowAge[e]]
  /\ UNCHANGED <<made, acked, tries, rows, step, event, inserted, completed, risked>>

Serve(h) ==
  \/ reserveWebhookEvent(h) \/ ReserveFails(h) \/ Sweep(h) \/ SweepFails(h)
  \/ SkipDuplicate(h) \/ Handle(h) \/ HandleThrows(h)
  \/ releaseWebhookEvent(h) \/ ReleaseFails(h) \/ Crash(h)

Next ==
  \/ \E e \in Events : Happen(e)
  \/ \E h \in Handlers, e \in Events : Deliver(h, e)
  \/ \E h \in Handlers : Serve(h)
  \/ Tick

Spec == Init /\ [][Next]_vars

----------------------------------------------------------------------------
\* Retries that overlap a slow handler never handle the event beside it.
OneOwnerPerEvent ==
  \A g, h \in Handlers : Owns(g) /\ Owns(h) /\ event[g] = event[h] => g = h

\* However often an event is delivered, with whatever failures, it is handled
\* to the end at most once: "a late retry is never treated as a new event".
HandledAtMostOnce == \A e \in Events : completed[e] <= 1

\* The strengthening: what rows, ages and requests say about each other.
Consistent ==
  /\ \A h \in Handlers : step[h] # "idle" => event[h] \in made /\ age[event[h]] <= RetryDays
  /\ \A h \in Handlers : Owns(h) => event[h] \in rows /\ completed[event[h]] = 0
  /\ \A e \in rows : e \in made /\ rowAge[e] <= age[e]
  /\ \A e \in Events : completed[e] > 0 => e \in rows \/ age[e] > RetryDays

\* The inductive invariant of the safety properties that every fault respects.
IInv == TypeOK /\ OneOwnerPerEvent /\ HandledAtMostOnce /\ Consistent

\* What can lose an event: it is acknowledged and not handled only if a sweep or
\* a release failed, a process died, or a second delivery met the reservation
\* while the first was still at work (and was answered 200 for its sake).
OnlyRiskedAreLost == \A e \in acked : completed[e] > 0 \/ e \in risked

\* Its strengthening: a row stands for an event that is handled, now or already.
RowsAreAccounted ==
  /\ \A e \in rows \ risked : completed[e] > 0 \/ \E h \in Handlers : Owns(h) /\ event[h] = e
  /\ \A h \in Handlers :
       step[h] = "duplicate" \/ (step[h] = "sweeping" /\ h \notin inserted)
         => completed[event[h]] > 0 \/ event[h] \in risked
  /\ OnlyRiskedAreLost
=============================================================================
