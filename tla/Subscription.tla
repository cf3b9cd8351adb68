---------------------------- MODULE Subscription ----------------------------
(***************************************************************************)
(* The subscription row of a business and the subscriptions its customer   *)
(* has at Stripe (services/subscriptionService.js, services/               *)
(* billingWebhookService.js, routes/billing.routes.js).  Events arrive in  *)
(* any order; those about a subscription carry it as it was, those about   *)
(* an invoice or a checkout make the handler fetch it.  Requests change    *)
(* Stripe first, read it back and then write the row.  Nothing in the row  *)
(* says how old it is.                                                     *)
(***************************************************************************)
EXTENDS Naturals, FiniteSets

CONSTANTS
  Requests,      \* handlers at work at one time
  Period, Grace, \* a billing period; BILLING_PAST_DUE_GRACE_DAYS
  Trial,         \* when the local trial ends
  MaxSubs, MaxTime, MaxEvents, MaxSpent  \* bounds: subscriptions, the clock, events on
                 \* their way, requests other than views and faults together

ASSUME SubscriptionConstants ==
  /\ Period \in Nat \ {0} /\ Grace \in Nat /\ Trial \in Nat
  /\ MaxSubs \in Nat \ {0} /\ {MaxTime, MaxEvents, MaxSpent} \subseteq Nat

Subs == 1..MaxSubs  \* in the order they were made; 0 is none

VARIABLES
  now,
  stripe,    \* per subscription: status, current_period_end, cancel_at_period_end
  session,   \* the checkout sessions, at most MaxSubs open at a time: 0 none or done,
             \* else 1 + trial_end (0 for no trial)
  events,    \* on their way to the webhook
  row,       \* the business_subscriptions row
  req,       \* per request: where it is, what it is for, what it will write
  spent,     \* how many of these requests and faults there were
  paid,      \* history: per subscription, the end of what was paid or promised
  learnt,    \* history: per subscription, 1 + when the row first said past_due, since
             \* it last said something else of it; else 0
  dunned,    \* history: subscriptions canceled, or set to cancel, while past due
  doubled,   \* history: a session was opened while another one was open, or when a
             \* subscription had come since the request had looked for one
  stale      \* history: the row was written from a snapshot that was not the last, or
             \* of a subscription when another one is live; or the trial or the free
             \* plan over a live one; or an event was lost

stripeVars == <<stripe, session, events>>
historyVars == <<paid, learnt, dunned, doubled, stale>>
vars == <<now, stripeVars, row, req, spent, historyVars>>

Statuses == {"none", "trialing", "active", "past_due", "canceled"}
Snapshot == [status : Statuses, end : Nat, cape : BOOLEAN]
NoSub == [status |-> "none", end |-> 0, cape |-> FALSE]
Purposes == {"none", "view", "cancel", "resume", "checkout"}
Steps == {"idle", "write", "read", "norm", "again", "act", "get", "select", "free", "open"}
\* What a checkout has read of the row: when its trial ends, 0 for no trial, and isPaid.
Seen == [trial : Nat, paid : BOOLEAN]
Nothing == [trial |-> 0, paid |-> FALSE]
Idle == [step |-> "idle", for |-> "none", sub |-> 0, snap |-> NoSub, seen |-> Nothing]

TypeOK ==
  /\ now \in 0..MaxTime
  /\ stripe \in [Subs -> Snapshot] /\ session \in [Subs -> Nat]
  /\ events \subseteq [kind : {"updated", "deleted", "fetch"}, sub : Subs, snap : Snapshot]
  /\ row \in [plan : {"free", "v1"}, status : Statuses \union {"free"}, end : Nat,
              cape : BOOLEAN, sub : Subs \union {0}, trialEnd : Nat, pastDue : Nat,
              customer : BOOLEAN]
  /\ req \in [Requests -> [step : Steps, for : Purposes, sub : Subs \union {0},
                           snap : Snapshot, seen : Seen]]
  /\ spent \in 0..MaxSpent
  /\ paid \in [Subs -> Nat] /\ learnt \in [Subs -> Nat] /\ dunned \subseteq Subs
  /\ doubled \in BOOLEAN /\ stale \in BOOLEAN

\* ensureBusinessSubscription: a trial, or free for a user who is not eligible.
FreeRow == [plan |-> "free", status |-> "free", end |-> 0, cape |-> FALSE, sub |-> 0,
            trialEnd |-> 0, pastDue |-> 0, customer |-> FALSE]
TrialRow == [FreeRow EXCEPT !.plan = "v1", !.status = "trialing", !.end = Trial,
                            !.trialEnd = Trial]
\* A customer of long standing, whose first subscription is in order.
PaidRow == [FreeRow EXCEPT !.plan = "v1", !.status = "active", !.end = Period, !.sub = 1,
                           !.customer = TRUE]

Init ==
  /\ now = 0
  /\ row \in {FreeRow, TrialRow, PaidRow}
  /\ stripe = [s \in Subs |-> IF s = row.sub
                              THEN [status |-> "active", end |-> Period, cape |-> FALSE]
                              ELSE NoSub]
  /\ session = [k \in Subs |-> 0] /\ events = {}
  /\ req = [r \in Requests |-> Idle]
  /\ spent = 0
  /\ paid = [s \in Subs |-> stripe[s].end] /\ learnt = [s \in Subs |-> 0] /\ dunned = {}
  /\ doubled = FALSE /\ stale = FALSE

-----------------------------------------------------------------------------
\* deriveEffectiveState.
Trialing == row.status = "trialing" /\ row.trialEnd > now
Lasts == row.plan = "v1" /\ row.end > now
ActivePaid == row.status = "active" /\ Lasts
PastDueGrace == row.status = "past_due" /\ row.pastDue # 0 /\ row.pastDue - 1 + Grace > now
GracePeriod == row.cape /\ Lasts
CanceledWithRemainingAccess == row.status = "canceled" /\ Lasts
IsPaid == ActivePaid \/ PastDueGrace \/ GracePeriod \/ CanceledWithRemainingAccess
Pro == Trialing \/ IsPaid

\* past_due_started_at is kept from one past_due snapshot to the next.
\* Mutant of PastDueStart: every snapshot starts it anew.
PastDueStartAnew(snap) == IF snap.status = "past_due" THEN now + 1 ELSE 0
PastDueStart(snap) ==
  IF snap.status # "past_due" THEN 0
  ELSE IF row.status = "past_due" /\ row.pastDue # 0 THEN row.pastDue ELSE now + 1

\* hasBlockingStripeSubscription; unpaid and incomplete ones are not modelled.
\* Mutant of Live: past_due is forgotten.
LiveIfGood(s) == stripe[s].status \in {"trialing", "active"}
Live(s) == stripe[s].status \in {"trialing", "active", "past_due"}
LiveSubs == {s \in Subs : Live(s)}

\* syncStripeSubscriptionForBusiness: the row becomes the snapshot.  Its first SELECT,
\* for past_due_started_at, and the UPDATE are one step here.  trialEnd is when a trial
\* of the row ends (resolvedTrialEndsAt): a trial of Stripe's, or the local one.
\* Mutant of Synced: cancel_at_period_end is left as it was.
SyncedOldCape(s, snap) ==
  [row EXCEPT !.plan = "v1", !.status = snap.status, !.end = snap.end, !.sub = s,
              !.trialEnd = IF snap.status = "trialing" THEN snap.end ELSE Trial,
              !.pastDue = PastDueStart(snap), !.customer = TRUE]
Synced(s, snap) ==
  [row EXCEPT !.plan = "v1", !.status = snap.status, !.end = snap.end, !.cape = snap.cape,
              !.sub = s, !.trialEnd = IF snap.status = "trialing" THEN snap.end ELSE Trial,
              !.pastDue = PastDueStart(snap), !.customer = TRUE]
Sync(s, snap) ==
  /\ row' = Synced(s, snap)
  /\ learnt' = [learnt EXCEPT ![s] = IF snap.status # "past_due" THEN 0
                                       ELSE IF @ = 0 THEN now + 1 ELSE @]
  /\ stale' = (stale \/ snap # stripe[s] \/ LiveSubs \ {s} # {})

\* setFreePlanForBusiness: the customer stays, as does the end of a trial.
\* Mutant of Freed: the row says inactive, as the snapshot of no row does.
FreedInactive == [FreeRow EXCEPT !.status = "inactive", !.customer = row.customer,
                                 !.trialEnd = row.trialEnd]
Freed == [FreeRow EXCEPT !.customer = row.customer, !.trialEnd = row.trialEnd]

Newest(S) == CHOOSE s \in S : \A t \in S : t <= s

Spend == spent < MaxSpent /\ spent' = spent + 1

-----------------------------------------------------------------------------
\* Stripe.
Event(kind, s, snap) == [kind |-> kind, sub |-> s, snap |-> snap]
Change(s, snap, more) ==
  /\ stripe' = [stripe EXCEPT ![s] = snap]
  /\ events' = events \union more
  /\ Cardinality(events') <= MaxEvents
Updates(s, snap) == Change(s, snap, {Event("updated", s, snap)})
Charges(s, snap) == Change(s, snap, {Event("updated", s, snap), Event("fetch", s, NoSub)})
Cancels(s) == LET gone == [stripe[s] EXCEPT !.status = "canceled"]
              IN  Change(s, gone, {Event("deleted", s, gone)})
Good(s) == stripe[s].status \in {"trialing", "active"}
Overdue(s) == stripe[s].status = "past_due"

\* The user pays in the checkout: a subscription, in a trial first if there is one.
CheckoutPaid(k) ==
  LET s == Cardinality({t \in Subs : stripe[t].status # "none"}) + 1
      trial == session[k] - 1 > now
      end == IF trial THEN session[k] - 1 ELSE now + Period
  IN  /\ session[k] # 0 /\ s \in Subs
      /\ session' = [session EXCEPT ![k] = 0]
      /\ Charges(s, [status |-> IF trial THEN "trialing" ELSE "active", end |-> end, cape |-> FALSE])
      /\ paid' = [paid EXCEPT ![s] = end]
      /\ UNCHANGED <<now, row, req, spent, learnt, dunned, doubled, stale>>

\* The period ends: the next one is paid, or it begins unpaid.
Renew(s) ==
  /\ Good(s) /\ ~stripe[s].cape /\ stripe[s].end <= now
  /\ LET end == stripe[s].end + Period
     IN  \/ /\ Charges(s, [stripe[s] EXCEPT !.status = "active", !.end = end])
            /\ paid' = [paid EXCEPT ![s] = end]
         \/ /\ Updates(s, [stripe[s] EXCEPT !.status = "past_due", !.end = end])
            /\ UNCHANGED paid
  /\ UNCHANGED <<now, session, row, req, spent, learnt, dunned, doubled, stale>>

\* A retry of the payment succeeds, or the retries end.
Recover(s) ==
  /\ Overdue(s) /\ stripe[s].end > now
  /\ Charges(s, [stripe[s] EXCEPT !.status = "active"])
  /\ paid' = [paid EXCEPT ![s] = stripe[s].end]
  /\ dunned' = dunned \ {s}
  /\ UNCHANGED <<now, session, row, req, spent, learnt, doubled, stale>>

\* The retries end, the period of a canceling one ends, or the user or the operator
\* cancels at once at Stripe.
StripeCancels(s) ==
  /\ Live(s) /\ Cancels(s)
  /\ dunned' = IF Overdue(s) THEN dunned \union {s} ELSE dunned
  /\ UNCHANGED <<now, session, row, req, spent, paid, learnt, doubled, stale>>

\* Stripe is on time.
Tick ==
  /\ now < MaxTime /\ \A s \in LiveSubs : stripe[s].end > now
  /\ now' = now + 1
  /\ UNCHANGED <<stripeVars, row, req, spent, historyVars>>

-----------------------------------------------------------------------------
syncSubscriptionEvent(e) ==
  /\ e.kind = "updated" /\ Sync(e.sub, e.snap)
  /\ UNCHANGED <<req, dunned>>

\* The period may be paid: then the row keeps it as canceled until its end.
handleSubscriptionDeleted(e) ==
  /\ e.kind = "deleted"
  /\ IF e.snap.end > now THEN Sync(e.sub, e.snap)
     ELSE row' = Freed /\ stale' = (stale \/ LiveSubs # {}) /\ UNCHANGED learnt
  /\ UNCHANGED <<req, dunned>>

\* checkout.session.completed, invoice.payment_succeeded, invoice.paid.
syncInvoiceSubscription(r, e) ==
  /\ e.kind = "fetch" /\ req[r] = Idle
  /\ req' = [req EXCEPT ![r] = [Idle EXCEPT !.step = "write", !.sub = e.sub,
                                            !.snap = stripe[e.sub]]]
  /\ UNCHANGED <<row, learnt, stale, dunned>>

handleStripeWebhookEvent(e) ==
  /\ e \in events /\ events' = events \ {e}
  /\ \/ syncSubscriptionEvent(e) \/ handleSubscriptionDeleted(e)
     \/ \E r \in Requests : syncInvoiceSubscription(r, e)
  /\ UNCHANGED <<now, stripe, session, spent, paid, doubled>>

\* The fetch fails and that is swallowed, or the process ends while it handles e.
EventLost(e) ==
  /\ Spend /\ e \in events /\ events' = events \ {e} /\ stale' = TRUE
  /\ UNCHANGED <<now, stripe, session, row, req, paid, learnt, dunned, doubled>>

-----------------------------------------------------------------------------
\* refreshStripeBackedSubscriptionSnapshot.
\* Mutant of shouldVerify: a row that is not paid is believed.
shouldVerifyUnlessUnpaid == row.customer /\ (row.cape \/ row.status = "canceled")
shouldVerify == row.customer /\ (~IsPaid \/ row.cape \/ row.status = "canceled")

\* POST /checkout-session: nobody who has paid access, or a live subscription at
\* Stripe, gets a session.
Refused ==
  \/ row.status = "past_due" /\ row.sub # 0 /\ ~Trialing
  \/ IsPaid /\ ~row.cape /\ ~CanceledWithRemainingAccess
  \/ row.cape /\ row.sub # 0 /\ ~Trialing

\* What a request does when it has read the row; from here on it knows no more of it.
Goes(step, what) == [Idle EXCEPT !.step = step, !.for = what]
ReadCancel ==
  IF row.sub # 0 THEN [Goes("act", "cancel") EXCEPT !.sub = row.sub]
  ELSE IF Trialing THEN Goes("select", "cancel") ELSE Goes("free", "cancel")
ReadResume ==
  IF Trialing THEN Goes("select", "resume")
  ELSE IF row.cape /\ row.sub # 0 THEN [Goes("act", "resume") EXCEPT !.sub = row.sub] ELSE Idle
ReadCheckout ==
  IF Refused THEN Idle
  ELSE [Goes("act", "checkout") EXCEPT
          !.seen = [trial |-> IF Trialing THEN row.trialEnd ELSE 0, paid |-> IsPaid]]
\* A trial that the user had declined (isTrialReupgradeAttempt) is put right first; the
\* selection itself is not modelled, so any trial may be a declined one.
Reads(what) ==
  CASE what = "cancel" -> {ReadCancel}
    [] what = "resume" -> {ReadResume}
    [] OTHER -> (IF Trialing THEN {Goes("norm", "checkout")} ELSE {}) \union
                (IF Trialing /\ row.cape THEN {} ELSE {ReadCheckout})

\* GET /subscription, POST /cancel, /checkout-session and /customer-portal begin with
\* it, POST /resume does not.
Begin(r, what) ==
  /\ req[r] = Idle
  /\ IF what = "view" THEN UNCHANGED spent ELSE Spend
  /\ \/ /\ what # "resume" /\ shouldVerify /\ LiveSubs # {}
        /\ req' = [req EXCEPT ![r] = [Goes("write", what) EXCEPT
                     !.sub = Newest(LiveSubs), !.snap = stripe[Newest(LiveSubs)]]]
     \/ /\ what # "view"  \* nothing to verify, or Stripe does not answer
        /\ \E q \in Reads(what) : req' = [req EXCEPT ![r] = q]
  /\ UNCHANGED <<now, stripeVars, row, historyVars>>

\* The row is written from what was read at Stripe before.
Write(r) ==
  /\ req[r].step = "write"
  /\ Sync(req[r].sub, req[r].snap)
  /\ req' = [req EXCEPT ![r] = IF req[r].for \in {"cancel", "checkout"}
                               THEN Goes("read", req[r].for) ELSE Idle]
  /\ UNCHANGED <<now, stripeVars, spent, paid, dunned, doubled>>

\* getSubscriptionSnapshotForBusiness: the row is read again.
ReadRow(r) ==
  /\ req[r].step \in {"read", "again"}
  /\ \E q \in IF req[r].step = "read" THEN Reads(req[r].for) ELSE {ReadCheckout} :
       req' = [req EXCEPT ![r] = q]
  /\ UNCHANGED <<now, stripeVars, row, spent, historyVars>>

Ends(r) == req' = [req EXCEPT ![r] = Idle]
\* The row's subscription is live, and the row is written over without a look at it.
Overwrites == row.sub \in LiveSubs

\* setTrialPlanSelectionForBusiness: whatever the row has become, it is a trial's.
SelectTrial(r) ==
  /\ req[r].step = "select" /\ Ends(r)
  /\ row' = [row EXCEPT !.plan = "v1", !.status = "trialing", !.cape = FALSE]
  /\ stale' = (stale \/ (Overwrites /\ row.status # "trialing"))
  /\ UNCHANGED <<now, stripeVars, spent, paid, learnt, dunned, doubled>>

SetFree(r) ==
  /\ req[r].step = "free" /\ Ends(r)
  /\ row' = Freed
  /\ stale' = (stale \/ Overwrites)
  /\ UNCHANGED <<now, stripeVars, spent, paid, learnt, dunned, doubled>>

\* cancel_at_period_end at Stripe, then the subscription is read back.
SetCape(r, s, b) ==
  /\ IF Live(s)
     THEN /\ Updates(s, [stripe[s] EXCEPT !.cape = b])
          /\ req' = [req EXCEPT ![r] = [Idle EXCEPT !.step = "get", !.sub = s]]
          /\ dunned' = IF b /\ Overdue(s) THEN dunned \union {s} ELSE dunned
     ELSE Ends(r) /\ UNCHANGED <<stripe, events, dunned>>  \* Stripe refuses: 500
  /\ UNCHANGED <<now, session, row, spent, paid, learnt, doubled, stale>>
\* POST /cancel and /resume of a subscription.
Cancel(r) == req[r].step = "act" /\ req[r].for = "cancel" /\ SetCape(r, req[r].sub, TRUE)
Resume(r) == req[r].step = "act" /\ req[r].for = "resume" /\ SetCape(r, req[r].sub, FALSE)

ReadBack(r) ==
  /\ req[r].step = "get"
  /\ req' = [req EXCEPT ![r].step = "write", ![r].snap = stripe[req[r].sub]]
  /\ UNCHANGED <<now, stripeVars, row, spent, historyVars>>

\* The request fails, or the process ends, after Stripe was changed.
RequestFails(r) ==
  /\ Spend /\ req[r].step # "idle"
  /\ Ends(r)
  /\ UNCHANGED <<now, stripeVars, row, historyVars>>

\* UPDATE ... WHERE status = 'trialing'.
Normalize(r) ==
  /\ req[r].step = "norm"
  /\ row' = [row EXCEPT !.cape = @ /\ row.status # "trialing"]
  /\ req' = [req EXCEPT ![r].step = "again"]
  /\ UNCHANGED <<now, stripeVars, spent, historyVars>>

\* ensureStripeCustomer, then findBlockingStripeSubscriptionForCustomer.
Checkout(r) ==
  /\ req[r].step = "act" /\ req[r].for = "checkout"
  /\ row' = [row EXCEPT !.customer = TRUE]
  /\ req' = [req EXCEPT ![r] =
       IF LiveSubs = {} THEN [@ EXCEPT !.step = "open"]
       ELSE IF req[r].seen.paid THEN Idle
       ELSE [Goes("write", "view") EXCEPT !.sub = Newest(LiveSubs), !.snap = stripe[Newest(LiveSubs)]]]
  /\ UNCHANGED <<now, stripeVars, spent, historyVars>>

\* The session is made at Stripe, of what was seen before.
OpenSession(r) ==
  /\ req[r].step = "open" /\ Ends(r)
  /\ \E k \in Subs :
       /\ session[k] = 0 /\ \A j \in 1..(k - 1) : session[j] # 0
       /\ session' = [session EXCEPT ![k] = IF req[r].seen.trial > now
                                            THEN 1 + req[r].seen.trial ELSE 1]
  /\ doubled' = (doubled \/ LiveSubs # {} \/ \E k \in Subs : session[k] # 0)
  /\ UNCHANGED <<now, stripe, events, row, spent, paid, learnt, dunned, stale>>

-----------------------------------------------------------------------------
StripeDoes == \E s \in Subs : CheckoutPaid(s) \/ Renew(s) \/ Recover(s) \/ StripeCancels(s)
Works(r) ==
  \/ Write(r) \/ ReadRow(r) \/ SelectTrial(r) \/ SetFree(r) \/ Cancel(r) \/ Resume(r)
  \/ ReadBack(r) \/ Normalize(r) \/ Checkout(r) \/ OpenSession(r)
Next ==
  \/ Tick \/ StripeDoes
  \/ \E e \in events : handleStripeWebhookEvent(e) \/ EventLost(e)
  \/ \E r \in Requests :
       \/ Works(r) \/ RequestFails(r)
       \/ \E what \in {"view", "cancel", "resume", "checkout"} : Begin(r, what)

Spec == Init /\ [][Next]_vars

\* Events arrive, statements return, and the user comes to look now and then.
Fairness ==
  /\ WF_vars(\E e \in events : handleStripeWebhookEvent(e))
  /\ \A r \in Requests : WF_vars(Works(r)) /\ WF_vars(Begin(r, "view"))
FairSpec == Spec /\ Fairness

-----------------------------------------------------------------------------
\* Nobody has Pro for time that was neither paid nor promised: events out of order,
\* lost or fetched late give no access of their own.  A grace is counted from the
\* first word of the missed payment, unless an old snapshot was written since.
\* Except for an unpaid period whose subscription was canceled in it.
ProIsPaidFor ==
  Pro => \/ Trialing /\ now < Trial
         \/ \E s \in Subs : now < paid[s]
         \/ PastDueGrace /\ (stale \/ now < learnt[row.sub] - 1 + Grace)
         \/ row.sub \in dunned

\* There is one live subscription at most, unless two sessions were open at once, or one
\* was opened by a request that had looked for a subscription before there was one.
OneLiveSubscription == Cardinality({s \in Subs : Good(s) \/ Overdue(s)}) <= 1 \/ doubled

Settled ==
  /\ ~stale /\ ~doubled /\ events = {}
  /\ \A r \in Requests : req[r] = Idle

\* At rest, and if nothing was lost or written late, or over a live subscription, the
\* row is what Stripe has: a cancellation or a resumption, too, except that of a trial.
RowFollowsStripe ==
  Settled =>
    \A s \in LiveSubs :
      /\ row.sub = s /\ row.status = stripe[s].status /\ row.end = stripe[s].end
      /\ row.cape = stripe[s].cape \/ stripe[s].status = "trialing"

\* Who pays for one subscription has Pro in the end, whatever was lost, late or out of
\* order: the webhooks have no order of their own, and every look at a row that is not
\* paid mends it.
PayersGetPro == <>[](~doubled /\ (\E s \in Subs : Good(s) /\ now < paid[s]) => Pro)
=============================================================================
