----------------------------- MODULE Businesses -----------------------------
(***************************************************************************)
(* The businesses of one user, the subscription rows they hold and the     *)
(* subscription at Stripe that pays for them (routes/businesses.routes.js, *)
(* api/utils/resolveBusinessIdForUser.js, services/subscriptionService.js, *)
(* PATCH /additional-businesses).  A request reads through the pool, then  *)
(* opens a transaction; Stripe is called in the middle of it and is set    *)
(* back by a second call when the transaction fails.  Creation holds a     *)
(* lock of the user, deletion does not.  Every change at Stripe sends a    *)
(* snapshot of the subscription, and the snapshots arrive in any order.    *)
(* The user has Pro throughout: how a plan ends is module Subscription.    *)
(***************************************************************************)
EXTENDS Naturals, FiniteSets

CONSTANTS
  Requests,   \* requests of the user at one time
  None,       \* nobody
  MaxIds, MaxSlots, MaxFaults, MaxEdits  \* bounds: businesses, slots, faults,
              \* what the user asks for

ASSUME BusinessesConstants ==
  /\ None \notin Requests
  /\ MaxIds \in Nat \ {0} /\ MaxSlots \in Nat /\ MaxFaults \in Nat /\ MaxEdits \in Nat

Ids == 1..MaxIds  \* in the order of created_at

VARIABLES
  businesses, born,  \* those there are; how many there have been
  active,            \* users.active_business_id, 0 for NULL
  kind,   \* per business, its row in business_subscriptions: none, trial, copy
          \* (paid, seeded from another), customer (a trial with a Stripe
          \* customer) or stripe (holds the subscription's id)
  slots,             \* additional_businesses of that row
  quantity,          \* Stripe: the add-on item, additional businesses paid for
  meta, owner,       \* Stripe: metadata additional_businesses, business_id
  events,            \* snapshots of the subscription on their way to the row of a
                     \* business: events of Stripe, and what a handler has fetched
  opening,           \* the anchor a POST /checkout-session has found, 0 if none
  session,           \* the business an open checkout session names, 0 if none
  userLock,          \* who holds the advisory lock of the user
  rowLock,           \* per business, who holds its rows
  req,               \* what each request has read and where it is
  faults, edits,     \* how many faults, and requests of the user, there were
  bought,            \* history, until then: the quantity the last request that succeeded asked for
  overlapped,        \* history: a delete began while another was in flight
  midway,            \* history: a checkout found its anchor while a delete was in
                     \* flight, or a delete began before that checkout had its session
  bereft,            \* history: a delete found no other business left to bill
  strained           \* history: requests crossed each other or an event of Stripe, an
                     \* older snapshot was written after the newest, an answer of
                     \* Stripe or a compensation was lost, or PATCH gave up the add-on
                     \* and left its number in the metadata

tableVars == <<businesses, born, active, kind, slots>>
stripeVars == <<quantity, meta, owner, events>>
checkoutVars == <<opening, session>>
lockVars == <<userLock, rowLock>>
historyVars == <<overlapped, midway, bereft, bought, strained>>
vars == <<tableVars, stripeVars, checkoutVars, lockVars, req, faults, edits, historyVars>>

Kinds == {"none", "trial", "copy", "customer", "stripe"}
Steps == {"idle", "enter", "lock", "count", "successor", "begin", "stripe", "row",
          "commit", "undo", "sync"}
Snapshot == [slots : Nat, business : Ids]
NoUndo == [quantity |-> 0, owner |-> 0]
Idle == [step |-> "idle", op |-> "none", target |-> 0, anchor |-> 0, successor |-> 0,
         kind |-> "none", max |-> 0, next |-> 0, undo |-> NoUndo]

\* What a request is for, what it has read, and how to set Stripe back.
Asked ==
  [step : Steps, op : {"none", "enter", "create", "provision", "delete", "slots", "trial"},
   target : Ids \union {0}, anchor : Ids \union {0}, successor : Ids \union {0},
   kind : Kinds, max : Nat, next : Nat, undo : [quantity : Nat, owner : Ids \union {0}]]

TypeOK ==
  /\ businesses \subseteq Ids /\ born \in 0..MaxIds /\ active \in Ids \union {0}
  /\ kind \in [Ids -> Kinds] /\ slots \in [Ids -> Nat]
  /\ quantity \in Nat /\ meta \in Nat /\ owner \in Ids \union {0}
  /\ events \subseteq Snapshot
  /\ opening \in Ids \union {0} /\ session \in Ids \union {0}
  /\ userLock \in Requests \union {None} /\ rowLock \in [Ids -> Requests \union {None}]
  /\ req \in [Requests -> Asked]
  /\ faults \in Nat /\ edits \in Nat /\ bought \in Nat
  /\ overlapped \in BOOLEAN /\ midway \in BOOLEAN /\ bereft \in BOOLEAN
  /\ strained \in BOOLEAN

\* One business: in its trial, or with Pro and slots that are paid for.
Init ==
  /\ businesses = {1} /\ born = 1 /\ active = 1
  /\ owner \in {0, 1} /\ quantity \in IF owner = 1 THEN 0..MaxSlots ELSE {0}
  /\ kind = [b \in Ids |-> IF b # 1 THEN "none" ELSE IF owner = 1 THEN "stripe" ELSE "trial"]
  /\ slots = [b \in Ids |-> IF b = 1 THEN quantity ELSE 0]
  /\ meta = 0 /\ events = {} /\ opening = 0 /\ session = 0
  /\ userLock = None /\ rowLock = [b \in Ids |-> None]
  /\ req = [r \in Requests |-> Idle]
  /\ faults = 0 /\ edits = 0 /\ bought = quantity
  /\ overlapped = FALSE /\ midway = FALSE /\ bereft = FALSE /\ strained = FALSE

-----------------------------------------------------------------------------
Oldest(S) == IF S = {} THEN 0 ELSE CHOOSE b \in S : \A c \in S : b <= c
Minus(n, m) == IF n < m THEN 0 ELSE n - m

\* The order of findBillingAnchorBusinessIdForUser.
\* Mutant of Rank: the active business before the one with the subscription.
RankActiveFirst(b, preferred) ==
  IF b = preferred THEN 0 ELSE IF kind[b] = "stripe" THEN 1 ELSE 2
Rank(b, preferred) ==
  CASE kind[b] = "stripe" -> IF b = preferred THEN 0 ELSE 1
    [] kind[b] = "customer" -> IF b = preferred THEN 2 ELSE 3
    [] OTHER -> IF b = preferred THEN 4 ELSE 5
Anchor == CHOOSE b \in businesses : \A c \in businesses \ {b} :
            \/ Rank(b, active) < Rank(c, active)
            \/ Rank(b, active) = Rank(c, active) /\ b < c

Busy == {r \in Requests : req[r].step # "idle"}
Fault == faults < MaxFaults /\ faults' = faults + 1
Edit == edits < MaxEdits /\ edits' = edits + 1
\* What was bought is kept while nothing is strained.
Remember(strains, n) ==
  /\ strained' = (strained \/ strains)
  /\ bought' = IF strained' THEN 0 ELSE n

\* What a subscription says: the item, or else the metadata.
SlotsOf(q, m) == IF q # 0 THEN q ELSE m
\* The subscription as it is, for the row of the business that it names or that has
\* its customer.
Live == [slots |-> SlotsOf(quantity, meta), business |-> owner]
\* The subscription changes: Stripe has an event to deliver, with the new state.
Changes(q, m, o) ==
  /\ quantity' = q /\ meta' = m /\ owner' = o
  /\ events' = events \union {[slots |-> SlotsOf(q, m), business |-> o]}
\* setStripeBusinessSlotState: item and metadata.
SetStripe(q, o) == Changes(q, q, o)

Goto(r, s) == req' = [req EXCEPT ![r].step = s]
\* ensureBusinessSubscription: a row is made on first sight.
Ensured(a) == IF kind[a] = "none" THEN [kind EXCEPT ![a] = "trial"] ELSE kind

\* A request begins with resolveBusinessIdForUser, which has found the active
\* business, the anchor and its snapshot; what it has read it keeps.
Begins(r, asked) ==
  /\ Edit /\ req[r].step = "idle" /\ active \in businesses
  /\ req' = [req EXCEPT ![r] = asked]
  /\ kind' = Ensured(Anchor)
  /\ Remember(Busy # {} \/ events # {}, bought)
  /\ UNCHANGED <<businesses, born, active, slots, stripeVars, checkoutVars, lockVars, faults,
                 bereft>>

\* COMMIT or ROLLBACK: the locks go.
Release(r) ==
  /\ userLock' = IF userLock = r THEN None ELSE userLock
  /\ rowLock' = [b \in Ids |-> IF rowLock[b] = r THEN None ELSE rowLock[b]]

\* The rows of b are r's: nobody else has them.
Grab(r, b) ==
  /\ rowLock[b] \in {None, r}
  /\ rowLock' = [rowLock EXCEPT ![b] = r]

\* ROLLBACK; then, when Stripe was changed, the compensation.
\* Mutant of AfterRollback: the compensation is forgotten.
AfterRollbackNothing(r) == Idle
AfterRollback(r) == IF req[r].undo = NoUndo THEN Idle ELSE [req[r] EXCEPT !.step = "undo"]
Rollback(r) ==
  /\ Release(r)
  /\ req' = [req EXCEPT ![r] = AfterRollback(r)]
  /\ UNCHANGED <<tableVars, stripeVars, checkoutVars, edits, historyVars>>

-----------------------------------------------------------------------------
\* resolveBusinessIdForUser, with no active business.
Enter(r) ==
  /\ req[r].step = "idle" /\ active \notin businesses
  /\ IF businesses # {}
     THEN active' = Oldest(businesses) /\ UNCHANGED req
     ELSE /\ UNCHANGED active
          /\ req' = [req EXCEPT ![r] = [Idle EXCEPT !.step = "enter", !.op = "enter"]]
  /\ UNCHANGED <<businesses, born, kind, slots, stripeVars, checkoutVars, lockVars, faults, edits,
                 historyVars>>

New == born + 1
\* Under the lock, and not if somebody else has made one meanwhile.
Rechecked == active \in businesses
EnterCreates(r) ==
  /\ req[r].step = "enter" /\ userLock = None
  /\ IF Rechecked
     THEN UNCHANGED <<businesses, born, active>>
     ELSE /\ born < MaxIds
          /\ businesses' = businesses \union {New} /\ born' = New /\ active' = New
  /\ req' = [req EXCEPT ![r] = Idle]
  /\ UNCHANGED <<kind, slots, stripeVars, checkoutVars, lockVars, faults, edits, historyVars>>

\* POST /:id/activate.
Activate(b) ==
  /\ Edit /\ b \in businesses /\ b # active /\ active' = b
  /\ UNCHANGED <<businesses, born, kind, slots, stripeVars, checkoutVars, lockVars, req, faults, historyVars>>

-----------------------------------------------------------------------------
\* POST /businesses: the cap is read before the lock, the count under it.
ReadCreate(r) ==
  /\ Begins(r, [Idle EXCEPT !.step = "lock", !.op = "create", !.anchor = Anchor,
                   !.kind = IF kind[Anchor] \in {"stripe", "copy"} THEN "copy" ELSE "trial",
                   !.max = 1 + slots[Anchor]])
  /\ UNCHANGED <<overlapped, midway>>

\* POST /provision-add-on: no cap, one slot more is bought.
ReadProvision(r) ==
  /\ Begins(r, [Idle EXCEPT !.step = "lock", !.op = "provision", !.anchor = Anchor,
                   !.kind = Ensured(Anchor)[Anchor]])
  /\ UNCHANGED <<overlapped, midway>>

\* Mutant of LockFree: nobody waits for the lock.
LockFreeAlways == TRUE
LockFree == userLock = None
LockUser(r) ==
  /\ req[r].step = "lock" /\ LockFree
  /\ IF req[r].op = "create"
     THEN IF Cardinality(businesses) >= req[r].max
          THEN req' = [req EXCEPT ![r] = Idle] /\ UNCHANGED userLock  \* 402
          ELSE Goto(r, "commit") /\ userLock' = r
     ELSE /\ req' = [req EXCEPT ![r].step = "stripe", ![r].next = Cardinality(businesses)]
          /\ userLock' = r
  /\ UNCHANGED <<tableVars, stripeVars, checkoutVars, rowLock, faults, edits, historyVars>>

CommitCreate(r) ==
  /\ req[r].step = "commit" /\ req[r].op \in {"create", "provision"} /\ born < MaxIds
  /\ businesses' = businesses \union {New} /\ born' = New /\ active' = New
  /\ IF req[r].op = "create"
     THEN kind' = [kind EXCEPT ![New] = req[r].kind] /\ UNCHANGED <<slots, bought>>
     ELSE /\ UNCHANGED kind
          /\ slots' = IF req[r].anchor \in businesses
                      THEN [slots EXCEPT ![req[r].anchor] = req[r].next] ELSE slots
          /\ bought' = IF req[r].kind = "stripe" /\ ~strained THEN req[r].next ELSE bought
  /\ Release(r)
  /\ req' = [req EXCEPT ![r] = Idle]
  /\ UNCHANGED <<stripeVars, checkoutVars, faults, edits, overlapped, midway, bereft, strained>>

-----------------------------------------------------------------------------
\* DELETE /businesses/:id: the active business, the anchor and its snapshot, the
\* count, the successor and the password, each read by a statement of its own.
ReadDelete(r, b) ==
  /\ b \in businesses
  /\ Begins(r, [Idle EXCEPT !.step = "count", !.op = "delete", !.target = b, !.anchor = Anchor,
                   !.successor = active, !.kind = Ensured(Anchor)[Anchor]])
  /\ overlapped' = (overlapped \/ \E s \in Requests : req[s].op = "delete")
  /\ midway' = (midway \/ opening # 0)

\* Mutant of NextSlots: one too few, and not kept from going below zero.
NextSlotsRaw == Cardinality(businesses) - 3
NextSlots == Minus(Cardinality(businesses), 2)
\* The user's only business is refused (409).
\* Mutant of Deletable: the check is left out.
DeletableAlways == TRUE
Deletable == Cardinality(businesses) > 1
CountBusinesses(r) ==
  /\ req[r].step = "count"
  /\ req' = [req EXCEPT ![r] = IF Deletable THEN [@ EXCEPT !.step = "successor", !.next = NextSlots]
                               ELSE Idle]
  /\ UNCHANGED <<tableVars, stripeVars, checkoutVars, lockVars, faults, edits, historyVars>>

\* The active business it has read, or the oldest of the others, if there is one still.
FindSuccessor(r) ==
  LET others == businesses \ {req[r].target}
  IN  /\ req[r].step = "successor"
      /\ req' = [req EXCEPT ![r].step = "begin",
                            ![r].successor = IF @ \in others THEN @ ELSE Oldest(others)]
      /\ bereft' = (bereft \/ others = {})
      /\ UNCHANGED <<tableVars, stripeVars, checkoutVars, lockVars, faults, edits, overlapped,
                     midway, bought, strained>>

MovesAnchor(r) == req[r].target = req[r].anchor /\ req[r].successor # 0
Billing(r) == IF MovesAnchor(r) THEN req[r].successor ELSE req[r].anchor
\* nextBillingBusinessId: 0 when the anchor goes and there is no successor.
NextBilling(r) == IF req[r].target = req[r].anchor THEN req[r].successor ELSE req[r].anchor

\* migrateBillingAnchorSubscription.  stripe_customer_id and stripe_subscription_id
\* are UNIQUE and the old row is still there: a row that has them cannot be copied.
\* A source that is gone is no error: the successor keeps its row.
Copyable(r) == kind[req[r].target] \in {"trial", "copy"} /\ req[r].successor \in businesses
MigrateAnchor(r) ==
  /\ req[r].step = "begin" /\ MovesAnchor(r)
  /\ \/ /\ kind[req[r].target] = "none" /\ UNCHANGED rowLock
        /\ req' = [req EXCEPT ![r].step = "stripe",
                              ![r].kind = IF @ = "stripe" THEN @ ELSE "none"]
     \/ /\ Copyable(r) /\ Grab(r, req[r].successor)
        /\ req' = [req EXCEPT ![r].step = "stripe", ![r].kind = kind[req[r].target]]
  /\ UNCHANGED <<tableVars, stripeVars, checkoutVars, userLock, faults, edits, historyVars>>

\* The UNIQUE columns, or a successor that is gone (foreign key); or the successor is
\* to hold the subscription, and another row does.
Refused(r) ==
  /\ MovesAnchor(r)
  /\ \/ req[r].step = "begin" /\ kind[req[r].target] # "none" /\ ~Copyable(r)
     \/ /\ req[r].step = "row" /\ req[r].kind = "stripe" /\ req[r].successor \in businesses
        /\ \E c \in businesses \ {req[r].successor} : kind[c] = "stripe"
MigrateRefused(r) == Refused(r) /\ Rollback(r) /\ UNCHANGED faults

\* updateAnchorAdditionalBusinesses, syncStripeSubscriptionForBusinessInTransaction;
\* a row that is gone is no error.
UpdateAnchor(r) ==
  /\ \/ req[r].step = "begin" /\ ~MovesAnchor(r) /\ Goto(r, "stripe")
     \/ req[r].step = "row" /\ ~Refused(r) /\ Goto(r, "commit")
  /\ IF Billing(r) \in businesses THEN Grab(r, Billing(r)) ELSE UNCHANGED rowLock
  /\ UNCHANGED <<tableVars, stripeVars, checkoutVars, userLock, faults, edits, historyVars>>

-----------------------------------------------------------------------------
\* The call to Stripe in the middle of a delete or a provision, for a snapshot that
\* had the subscription: its quantity and its business; the old ones are kept.
AfterStripe(r) == IF req[r].op = "delete" /\ ~MovesAnchor(r) THEN "commit" ELSE "row"

CallsStripe(r) == req[r].step = "stripe" /\ req[r].kind = "stripe" /\ NextBilling(r) # 0
NoStripe(r) ==
  /\ req[r].step = "stripe" /\ ~CallsStripe(r)
  /\ Goto(r, AfterStripe(r))
  /\ UNCHANGED <<tableVars, stripeVars, checkoutVars, lockVars, faults, edits, historyVars>>

applyStripeBusinessSlotState(r) ==
  /\ CallsStripe(r)
  /\ SetStripe(req[r].next, NextBilling(r))
  /\ req' = [req EXCEPT ![r].step = AfterStripe(r),
                        ![r].undo = [quantity |-> SlotsOf(quantity, meta), owner |-> owner]]
  /\ UNCHANGED <<tableVars, checkoutVars, lockVars, faults, edits, historyVars>>

\* Stripe fails, perhaps after it has done it.  A delete goes on without, a
\* provision rolls back; neither has anything to set back.
StripeFails(r) ==
  /\ Fault /\ CallsStripe(r)
  /\ \/ UNCHANGED stripeVars
     \/ SetStripe(req[r].next, NextBilling(r))
  /\ IF req[r].op = "delete"
     THEN Goto(r, "commit") /\ UNCHANGED lockVars
     ELSE Release(r) /\ req' = [req EXCEPT ![r] = Idle]
  /\ Remember(TRUE, bought)
  /\ UNCHANGED <<tableVars, checkoutVars, edits, overlapped, midway, bereft>>

CommitDelete(r) ==
  LET b == req[r].target
      left == businesses \ {b}
      to == Billing(r)
      Written(c) == c = to /\ c # b /\ rowLock[c] = r
  IN  /\ req[r].step = "commit" /\ req[r].op = "delete"
      /\ rowLock[b] \in {None, r}  \* the cascade
      /\ businesses' = left
      /\ kind' = [c \in Ids |->
           CASE c = b -> "none"
             [] Written(c) /\ MovesAnchor(r) /\ req[r].kind # "none" -> req[r].kind
             [] OTHER -> kind[c]]
      /\ slots' = [c \in Ids |->
           CASE c = b -> 0 [] Written(c) -> req[r].next [] OTHER -> slots[c]]
      /\ active' = IF active = b THEN Oldest(left) ELSE active
      /\ Release(r)
      /\ req' = [req EXCEPT ![r] = Idle]
      /\ bought' = IF req[r].undo # NoUndo /\ ~strained THEN req[r].next ELSE bought
      /\ UNCHANGED <<born, stripeVars, checkoutVars, faults, edits, overlapped, midway, bereft,
                     strained>>

\* A statement of the transaction fails.
TransactionFails(r) ==
  /\ Fault /\ req[r].step \in {"begin", "stripe", "row", "commit"}
  /\ Rollback(r)

\* r needs rows that the other one has.
Needs(r) ==
  CASE req[r].step = "begin" -> {Billing(r)}
    [] req[r].step = "row" -> {Billing(r)}
    [] req[r].step = "commit" /\ req[r].op = "delete" -> {req[r].target}
    [] OTHER -> {}
WaitsFor(r, s) == \E b \in Needs(r) : rowLock[b] = s

\* Two transactions wait for each other: the database ends one of them.
DeadlockVictim(r) ==
  /\ \E s \in Requests \ {r} : WaitsFor(r, s) /\ WaitsFor(s, r)
  /\ Rollback(r)
  /\ UNCHANGED faults

\* The compensation: Stripe is set to what it was before the first call.
Compensate(r) ==
  /\ req[r].step = "undo"
  /\ SetStripe(req[r].undo.quantity, req[r].undo.owner)
  /\ req' = [req EXCEPT ![r] = Idle]
  /\ UNCHANGED <<tableVars, checkoutVars, lockVars, faults, edits, historyVars>>
CompensationFails(r) ==
  /\ Fault /\ req[r].step = "undo"
  /\ req' = [req EXCEPT ![r] = Idle] /\ Remember(TRUE, bought)
  /\ UNCHANGED <<tableVars, stripeVars, checkoutVars, lockVars, edits, overlapped, midway, bereft>>

Crash(r) ==
  /\ Fault /\ req[r].step # "idle"
  /\ Release(r) /\ req' = [req EXCEPT ![r] = Idle]
  /\ Remember(req[r].undo # NoUndo \/ req[r].step = "sync", bought)
  /\ UNCHANGED <<tableVars, stripeVars, checkoutVars, edits, overlapped, midway, bereft>>

-----------------------------------------------------------------------------
\* PATCH /additional-businesses.  A trial's row gets the number; otherwise the add-on
\* item is set, the metadata is not, and the row is synced from Stripe's answer.
PatchTrialSlots(r, n) ==
  /\ active \in businesses /\ Ensured(Anchor)[Anchor] \in {"trial", "customer"}
  /\ Begins(r, [Idle EXCEPT !.step = "sync", !.op = "trial", !.anchor = Anchor, !.next = n])
  /\ UNCHANGED <<overlapped, midway>>
PatchSlots(r, n) ==
  /\ Edit /\ req[r].step = "idle" /\ active \in businesses /\ kind[Anchor] = "stripe"
  /\ IF n = quantity THEN UNCHANGED stripeVars ELSE Changes(n, meta, owner)
  /\ req' = [req EXCEPT ![r] = [Idle EXCEPT !.step = "sync", !.op = "slots",
                                            !.anchor = Anchor, !.next = SlotsOf(n, meta)]]
  /\ Remember(Busy # {} \/ events # {} \/ SlotsOf(n, meta) # n, n)
  /\ UNCHANGED <<tableVars, checkoutVars, lockVars, faults, overlapped, midway, bereft>>
SyncSlots(r) ==
  /\ req[r].step = "sync" /\ rowLock[req[r].anchor] = None
  /\ slots' = IF req[r].anchor \in businesses
              THEN [slots EXCEPT ![req[r].anchor] = req[r].next] ELSE slots
  /\ req' = [req EXCEPT ![r] = Idle]
  /\ UNCHANGED <<businesses, born, active, kind, stripeVars, checkoutVars, lockVars, faults,
                 edits, historyVars>>

\* POST /additional-businesses/checkout: the user confirms n slots on Stripe's page.
ConfirmSlots(n) ==
  /\ Edit /\ owner # 0 /\ n # 0 /\ active \in businesses /\ kind[Anchor] = "stripe"
  /\ Changes(n, meta, owner)
  /\ Remember(Busy # {} \/ events # {}, n)
  /\ UNCHANGED <<tableVars, checkoutVars, lockVars, req, faults, overlapped, midway, bereft>>

Deleting == \E r \in Requests : req[r].op = "delete"
\* POST /checkout-session finds the anchor, gives its row a customer
\* (ensureStripeCustomer), and the session names the business.
\* Bound: one such request at a time; a second subscription is module Subscription's.
StartCheckout ==
  /\ opening = 0 /\ active \in businesses /\ owner = 0
  /\ Ensured(Anchor)[Anchor] \in {"trial", "customer"}
  /\ kind' = Ensured(Anchor) /\ opening' = Anchor
  /\ midway' = (midway \/ Deleting)
  /\ UNCHANGED <<businesses, born, active, slots, stripeVars, session, lockVars, req, faults,
                 edits, overlapped, bereft, bought, strained>>
OpenSession ==
  /\ opening # 0 /\ rowLock[opening] = None
  /\ opening' = 0
  /\ IF opening \in businesses /\ owner = 0
     THEN kind' = [kind EXCEPT ![opening] = "customer"] /\ session' = opening
     ELSE UNCHANGED <<kind, session>>
  /\ UNCHANGED <<businesses, born, active, slots, stripeVars, lockVars, req, faults, edits,
                 historyVars>>
\* The user pays for Pro, without slots (the session asks for none): Stripe has the
\* subscription, the row has not yet.
PayCheckout ==
  /\ session # 0 /\ owner = 0 /\ session' = 0
  /\ Changes(0, 0, session)
  /\ Remember(Busy # {}, 0)
  /\ UNCHANGED <<tableVars, opening, lockVars, req, faults, edits, overlapped, midway, bereft>>

\* checkout.session.completed and the invoices' events fetch the subscription, to
\* write it to the row later.
FetchSubscription ==
  /\ owner # 0 /\ events' = events \union {Live}
  /\ UNCHANGED <<tableVars, quantity, meta, owner, checkoutVars, lockVars, req, faults, edits,
                 historyVars>>
\* syncStripeSubscriptionForBusiness: the row gets the subscription's id, which no other
\* row may have, and the snapshot's slots, whatever has been written since it was
\* taken.  Two snapshots that say the same are one here.
\* Mutant of Takes: the row keeps its slots.
TakesNot(e) == slots[e.business]
Takes(e) == e.slots
SyncFromStripe(e) ==
  /\ e \in events /\ e.business \in businesses /\ rowLock[e.business] = None
  /\ \A c \in businesses \ {e.business} : kind[c] # "stripe"
  /\ kind' = [kind EXCEPT ![e.business] = "stripe"]
  /\ slots' = [slots EXCEPT ![e.business] = Takes(e)]
  /\ events' = events \ {e}
  /\ Remember(e # Live /\ Live \notin events, bought)
  /\ UNCHANGED <<businesses, born, active, quantity, meta, owner, checkoutVars, lockVars, req,
                 faults, edits, overlapped, midway, bereft>>
\* No business has the customer (any more): there is nothing to do.
EventForNobody(e) ==
  /\ e \in events /\ e.business \notin businesses /\ events' = events \ {e}
  /\ UNCHANGED <<tableVars, quantity, meta, owner, checkoutVars, lockVars, req, faults, edits,
                 historyVars>>

-----------------------------------------------------------------------------
Next ==
  \/ \E r \in Requests :
       \/ Enter(r) \/ EnterCreates(r)
       \/ ReadCreate(r) \/ ReadProvision(r) \/ LockUser(r) \/ CommitCreate(r)
       \/ \E b \in Ids : ReadDelete(r, b)
       \/ CountBusinesses(r) \/ FindSuccessor(r)
       \/ MigrateAnchor(r) \/ MigrateRefused(r) \/ UpdateAnchor(r)
       \/ NoStripe(r) \/ applyStripeBusinessSlotState(r) \/ StripeFails(r)
       \/ CommitDelete(r) \/ TransactionFails(r) \/ DeadlockVictim(r)
       \/ Compensate(r) \/ CompensationFails(r) \/ Crash(r)
       \/ \E n \in 0..MaxSlots : PatchTrialSlots(r, n) \/ PatchSlots(r, n)
       \/ SyncSlots(r)
  \/ \E b \in Ids : Activate(b)
  \/ \E n \in 0..MaxSlots : ConfirmSlots(n)
  \/ StartCheckout \/ OpenSession \/ PayCheckout \/ FetchSubscription
  \/ \E e \in events : SyncFromStripe(e) \/ EventForNobody(e)

Spec == Init /\ [][Next]_vars

-----------------------------------------------------------------------------
AtRest == Busy = {}

\* "Cannot delete the user's only business": the user always has one, unless two
\* deletes were in flight together, each of which had counted two.
KeepsOne == businesses # {} \/ overlapped

\* The subscription that is paid for has its row: whatever is deleted, fails or
\* crosses, the business Stripe names is there and holds the subscription's id, or
\* still the customer alone and a snapshot is on its way.  Except when a checkout and
\* a delete were in flight together, and one has an old anchor, or when a delete that
\* had counted two businesses found the other one gone.
HolderSurvives ==
  owner # 0 /\ ~midway /\ ~bereft =>
    /\ owner \in businesses
    /\ kind[owner] = "stripe" \/ (kind[owner] = "customer" /\ events # {})

\* A business is added only where there is room for it when it is committed: a POST
\* stays within the cap it has read, though another may have been added since, and
\* a default one is made once, for a user who has none.
NoExtraBusiness ==
  [][\A r \in Requests :
       New \in businesses' /\ req[r] # req'[r] =>
         /\ req[r].op = "create" => Cardinality(businesses') <= req[r].max
         /\ req[r].op = "enter" => businesses = {}]_vars

\* At rest Stripe charges what the last request that succeeded asked for, and once
\* all snapshots are in so does the row: a request that fails sets Stripe back, in
\* whatever order the snapshots come that end with the newest.  Except after requests
\* that crossed, or a lost answer or compensation.
ChargesWhatSucceeded ==
  AtRest /\ owner # 0 /\ ~strained =>
    quantity = bought /\ (events = {} => slots[owner] = bought)

\* A delete is refused for the user's only business, not for the one that holds the
\* subscription: alone and without a fault, no delete of another business rolls back.
DeleteOnlyRefusesTheLast ==
  [][\A r \in Requests :
       req[r].op = "delete" /\ ~strained' /\ ~midway /\ faults' = 0 /\ req[r]'.op # "delete" =>
         req[r].target \notin businesses' \/ Cardinality(businesses) = 1]_vars
=============================================================================
