------------------------- MODULE SubscriptionProofs -------------------------
(***************************************************************************)
(* A business's subscription, for every number of requests, subscriptions  *)
(* and days: Pro is time that was paid, promised or granted, one           *)
(* subscription at most is live, and a row at rest is what Stripe has.     *)
(*                                                                         *)
(* Nothing in a snapshot says how old it is, so the invariant says of all  *)
(* of them, the row's among them, what stays true of an old one (Genuine). *)
(* The rest relates what Stripe has to what is on its way: a change of a   *)
(* live subscription is in the row or in an event (Told).                  *)
(***************************************************************************)
EXTENDS Subscription, FiniteSetTheorems, WellFoundedInduction, TLAPS

\* A subscription that was made, in the order they are made.
Made(s) == stripe[s].status # "none"
Ordered == \A s, t \in Subs : s < t /\ Made(t) => Made(s)

\* What a snapshot of s, of now or of earlier, says of the time that was paid.
Genuine(s, x) ==
  /\ Made(s) /\ x.status # "none" /\ x.end <= stripe[s].end
  /\ x.status \in {"trialing", "active"} => x.end <= paid[s]
  /\ x.status = "canceled" \/ (x.status = "past_due" /\ x.cape) => x.end <= paid[s] \/ s \in dunned

Booked(s) ==
  /\ paid[s] <= stripe[s].end
  /\ Made(s) => Genuine(s, stripe[s])
  /\ ~Made(s) => stripe[s].end = 0 /\ learnt[s] = 0

\* The snapshots on their way to the row are genuine.
Carries(e) == Made(e.sub) /\ (e.kind # "fetch" => Genuine(e.sub, e.snap))
Holds(r) ==
  /\ req[r].step = "get" => req[r].sub \in Subs /\ Made(req[r].sub)
  /\ req[r].step = "write" => req[r].sub \in Subs /\ Genuine(req[r].sub, req[r].snap)
  /\ req[r].step = "act" /\ req[r].for \in {"cancel", "resume"} => req[r].sub \in Subs

\* So is the row, which may have lost its cancellation, or have become a trial's.
RowGenuine ==
  /\ row.sub = 0 => row.status \in {"free", "trialing"} /\ ~row.cape
  /\ row.sub # 0 =>
       /\ row.status \in Statuses
       /\ \/ Genuine(row.sub, [status |-> row.status, end |-> row.end, cape |-> row.cape])
          \/ row.status = "trialing" /\ ~row.cape
\* A trial of the row is the local one, or one that Stripe gave.
TrialKept == row.trialEnd <= Trial \/ \E s \in Subs : row.trialEnd <= paid[s]

\* The row counts its grace from when it learnt of the missed payment.
GraceKept ==
  /\ row.pastDue <= now + 1 /\ (row.status = "past_due" => row.pastDue # 0)
  /\ ~stale /\ row.status = "past_due" => row.pastDue <= learnt[row.sub]
  /\ ~stale => \A s \in Subs : learnt[s] # 0 /\ Live(s) => row.sub = s /\ row.status = "past_due"

\* An open session, or one live subscription.
OneAtATime ==
  ~doubled =>
    /\ \A j, k \in Subs : session[j] # 0 /\ session[k] # 0 => j = k
    /\ (\E k \in Subs : session[k] # 0) => \A s \in Subs : ~Live(s)
    /\ \A s, t \in Subs : Live(s) /\ Live(t) => s = t

\* The row is what Stripe has, or will be told.
InStep(s) ==
  /\ row.sub = s /\ row.status = stripe[s].status /\ row.end = stripe[s].end
  /\ row.cape = stripe[s].cape \/ stripe[s].status = "trialing"
Told ==
  ~stale => \A s \in Subs : Live(s) => InStep(s) \/ Event("updated", s, stripe[s]) \in events

IInv ==
  /\ TypeOK /\ Ordered
  /\ \A s \in Subs : Booked(s)
  /\ \A e \in events : Carries(e)
  /\ \A r \in Requests : Holds(r)
  /\ RowGenuine /\ TrialKept /\ GraceKept /\ OneAtATime /\ Told

-----------------------------------------------------------------------------
\* A set of subscriptions that is not empty has a newest one.
LEMMA NewestIn ==
  ASSUME NEW S \in SUBSET Subs, S # {}
  PROVE  Newest(S) \in S
<1> DEFINE R == {MaxSubs - s : s \in S}
<1>0. MaxSubs \in Nat /\ \A s \in S : s \in Nat /\ s <= MaxSubs /\ MaxSubs - s \in Nat
  BY SubscriptionConstants DEF Subs
<1>1. R \subseteq Nat /\ R # {}
  BY <1>0
<1>2. PICK n \in R : \A m \in R : ~(<<m, n>> \in OpToRel(<, Nat))
  <2> HIDE DEF R
  <2> QED BY <1>1, NatLessThanWellFounded, WFMin, Zenon
<1>3. \A m \in R : ~(m < n)
  BY <1>1, <1>2, Zenon DEF OpToRel
<1>4. PICK s \in S : n = MaxSubs - s
  OBVIOUS
<1>5. \A t \in S : t <= s
  <2> TAKE t \in S
  <2>1. ~(MaxSubs - t < MaxSubs - s)
    BY <1>3, <1>4
  <2> QED BY <1>0, <2>1
<1> QED BY <1>5 DEF Newest

\* There are n numbers from 1 to n.
LEMMA UpTo ==
  ASSUME NEW n \in Nat
  PROVE  IsFiniteSet(1..n) /\ Cardinality(1..n) = n
<1>1. 1 \in Int /\ n \in Int
  OBVIOUS
<1>2. IsFiniteSet(1..n) /\ Cardinality(1..n) = IF 1 > n THEN 0 ELSE n - 1 + 1
  BY <1>1, FS_Interval
<1>3. (IF 1 > n THEN 0 ELSE n - 1 + 1) = n
  OBVIOUS
<1> QED BY <1>2, <1>3

\* The subscriptions that were made are the first ones: the next is the one that
\* their number names.
LEMMA NextIsNew ==
  ASSUME TypeOK, Ordered, NEW s \in Subs,
         s = Cardinality({t \in Subs : stripe[t].status # "none"}) + 1
  PROVE  ~Made(s) /\ \A t \in Subs : t < s => Made(t)
<1> USE SubscriptionConstants
<1> DEFINE M == {t \in Subs : stripe[t].status # "none"}
<1>1. IsFiniteSet(Subs)
  BY FS_Interval DEF Subs
<1>2. M \subseteq Subs /\ IsFiniteSet(M)
  BY <1>1, FS_Subset
<1>3. Cardinality(M) \in Nat
  BY <1>2, FS_CardinalityType
<1>4. ASSUME Made(s) PROVE FALSE
  <2>1. \A t \in 1..s : t \in Subs /\ (t = s \/ t < s)
    BY DEF Subs
  <2>4. 1..s \subseteq M
    BY <1>4, <2>1 DEF Ordered, Made
  <2>2. IsFiniteSet(1..s) /\ Cardinality(1..s) = s
    BY UpTo DEF Subs
  <2>3. s <= Cardinality(M)
    <3> HIDE DEF M
    <3> QED BY <1>2, <2>4, <2>2, FS_Subset
  <2> QED BY <1>3, <2>3
<1>5. ASSUME NEW t \in Subs, t < s, ~Made(t) PROVE FALSE
  <2>1. \A u \in Subs : Made(u) => u < t
    <3> TAKE u \in Subs
    <3>1. t < u \/ t = u \/ u < t
      BY DEF Subs
    <3> QED BY <1>5, <3>1 DEF Ordered
  <2>4. M \subseteq 1..(t - 1)
    BY <2>1 DEF Made, Subs
  <2>5. t - 1 \in Nat
    BY DEF Subs
  <2>2. IsFiniteSet(1..(t - 1)) /\ Cardinality(1..(t - 1)) = t - 1
    BY <2>5, UpTo
  <2>3. Cardinality(M) <= t - 1
    <3> HIDE DEF M
    <3> QED BY <2>4, <2>2, FS_Subset
  <2> QED BY <1>3, <1>5, <2>3 DEF Subs
<1> QED BY <1>4, <1>5

\* What a snapshot says stays true while ends and payments grow and a debt is
\* forgotten only when it was paid.
Grows(s) ==
  /\ Made(s) => Made(s)'
  /\ stripe[s].end <= stripe'[s].end /\ paid[s] <= paid'[s]
  /\ s \in dunned => s \in dunned' \/ paid'[s] = stripe'[s].end
LEMMA GenuineLasts ==
  ASSUME TypeOK, TypeOK', NEW s \in Subs, NEW x \in Snapshot, Grows(s), Genuine(s, x)
  PROVE  Genuine(s, x)'
<1>1. stripe[s].end \in Nat /\ stripe'[s].end \in Nat /\ paid[s] \in Nat /\ paid'[s] \in Nat
  BY DEF TypeOK, Snapshot
<1>2. x.end \in Nat
  BY DEF Snapshot
<1> QED BY <1>1, <1>2 DEF Genuine, Grows

\* What a change of s at Stripe leaves: the snapshot is genuine, every event tells it,
\* and a live one is told.
Changed(s, snap, more) ==
  /\ snap \in Snapshot /\ stripe' = [stripe EXCEPT ![s] = snap] /\ events' = events \union more
  /\ \A e \in more : e.sub = s /\ (e.kind = "fetch" \/ e.snap = snap)
  /\ Live(s)' => (Live(s) \/ ~Made(s)) /\ Event("updated", s, snap) \in more
  /\ Genuine(s, snap)' /\ stripe[s].end <= snap.end
  /\ paid[s] <= paid'[s] /\ paid'[s] <= snap.end /\ (s \in dunned => s \in dunned' \/ paid'[s] = snap.end)
  /\ \A t \in Subs \ {s} : paid'[t] = paid[t] /\ (t \in dunned <=> t \in dunned')
  /\ \A t \in Subs : t < s => Made(t)
  /\ UNCHANGED <<now, row, learnt, stale>>

LEMMA ChangedOrderly ==
  ASSUME IInv, TypeOK', NEW s \in Subs, NEW snap, NEW more, Changed(s, snap, more)
  PROVE  /\ Ordered' /\ RowGenuine' /\ TrialKept' /\ GraceKept' /\ Told'
         /\ \A t \in Subs : Booked(t)' /\ Grows(t)
         /\ \A e \in events' : Carries(e)'
<1>1. TypeOK /\ Ordered /\ RowGenuine /\ TrialKept /\ GraceKept /\ Told /\ Booked(s)
  BY DEF IInv
<1>2. stripe'[s] = snap /\ \A t \in Subs \ {s} : stripe'[t] = stripe[t]
  BY <1>1 DEF Changed, TypeOK
<1>3. Made(s)' /\ snap.status # "none" /\ \A t \in Subs \ {s} : Made(t)' <=> Made(t)
  BY <1>2 DEF Changed, Genuine, Made
<1>4. \A t \in Subs : Grows(t)
  <2> TAKE t \in Subs
  <2>1. CASE t = s
    BY <1>2, <1>3, <2>1 DEF Changed, Grows
  <2>2. CASE t # s
    <3>1. stripe[t].end \in Nat /\ paid[t] \in Nat
      BY <1>1 DEF TypeOK, Snapshot
    <3> QED BY <1>2, <1>3, <2>2, <3>1 DEF Changed, Grows
  <2> QED BY <2>1, <2>2
<1>5. \A t \in Subs, x \in Snapshot : Genuine(t, x) => Genuine(t, x)'
  BY <1>1, <1>4, GenuineLasts
<1>6. Ordered'
  <2>1. \A t, u \in Subs : t < u /\ Made(u)' => Made(t)'
    BY <1>1, <1>3 DEF Changed, Ordered
  <2> QED BY <2>1 DEF Ordered
<1>7. ASSUME NEW t \in Subs PROVE Booked(t)'
  <2>1. CASE t = s
    BY <1>2, <1>3, <2>1 DEF Changed, Booked
  <2>2. CASE t # s
    <3>1. Booked(t) /\ stripe[t] \in Snapshot
      BY <1>1 DEF IInv, TypeOK
    <3>2. Made(t) => Genuine(t, stripe[t])'
      BY <1>2, <1>5, <2>2, <3>1 DEF Booked, Genuine
    <3> QED BY <1>2, <1>3, <2>2, <3>1, <3>2 DEF Changed, Booked
  <2> QED BY <2>1, <2>2
<1>8. ASSUME NEW e \in events' PROVE Carries(e)'
  <2>1. CASE e \in more
    BY <1>3, <2>1 DEF Changed, Carries
  <2>2. CASE e \in events
    <3>1. e.sub \in Subs /\ e.snap \in Snapshot /\ Carries(e)
      BY <1>1, <2>2 DEF IInv, TypeOK
    <3> QED BY <1>4, <1>5, <3>1 DEF Carries, Grows
  <2> QED BY <2>1, <2>2 DEF Changed
<1>9. RowGenuine'
  <2>1. row' = row
    BY DEF Changed
  <2>2. ASSUME row.sub # 0, Genuine(row.sub, [status |-> row.status, end |-> row.end, cape |-> row.cape])
        PROVE  Genuine(row.sub, [status |-> row.status, end |-> row.end, cape |-> row.cape])'
    <3> DEFINE x == [status |-> row.status, end |-> row.end, cape |-> row.cape]
    <3>1. row.sub \in Subs /\ x \in Snapshot /\ Genuine(row.sub, x)
      BY <1>1, <2>2 DEF TypeOK, Snapshot, RowGenuine
    <3> QED BY <1>5, <2>1, <3>1 DEF Genuine
  <2> QED BY <1>1, <2>1, <2>2 DEF RowGenuine
<1>12. TrialKept'
  <2>1. row' = row /\ row.trialEnd \in Nat
    BY <1>1 DEF Changed, TypeOK
  <2>2. ASSUME NEW t \in Subs, row.trialEnd <= paid[t] PROVE row.trialEnd <= paid'[t]
    <3>1. paid[t] \in Nat /\ paid'[t] \in Nat /\ paid[t] <= paid'[t]
      BY <1>1, <1>4 DEF TypeOK, Grows
    <3> QED BY <2>1, <2>2, <3>1
  <2> QED BY <1>1, <2>1, <2>2 DEF TrialKept
<1>10. GraceKept'
  <2>1. \A t \in Subs : learnt[t] # 0 /\ Live(t)' => Live(t)
    BY <1>1, <1>2 DEF Changed, Booked, Live
  <2> QED BY <1>1, <2>1 DEF Changed, GraceKept
<1>11. Told'
  <2>1. ASSUME ~stale, NEW t \in Subs, Live(t)'
        PROVE  InStep(t)' \/ Event("updated", t, stripe'[t]) \in events'
    <3>1. CASE t = s
      BY <1>2, <2>1, <3>1 DEF Changed
    <3>2. CASE t # s
      <4>1. Live(t)
        BY <1>2, <2>1, <3>2 DEF Live
      <4>2. InStep(t) \/ Event("updated", t, stripe[t]) \in events
        BY <1>1, <2>1, <4>1 DEF Told
      <4> QED BY <1>2, <3>2, <4>2 DEF Changed, InStep
    <3> QED BY <3>1, <3>2
  <2> QED BY <2>1 DEF Changed, Told
<1> QED BY <1>4, <1>6, <1>7, <1>8, <1>9, <1>10, <1>11, <1>12

\* The row's type, and what a snapshot makes of the row.
RowType == row \in [plan : {"free", "v1"}, status : Statuses \union {"free"}, end : Nat,
                    cape : BOOLEAN, sub : Subs \union {0}, trialEnd : Nat, pastDue : Nat,
                    customer : BOOLEAN]
LEMMA RowFields ==
  ASSUME TypeOK
  PROVE  /\ row.end \in Nat /\ row.trialEnd \in Nat /\ row.pastDue \in Nat /\ row.cape \in BOOLEAN
         /\ row.status \in Statuses \union {"free"} /\ row.sub \in Subs \union {0}
         /\ now \in Nat /\ Subs \subseteq Nat /\ 0 \notin Subs /\ Trial \in Nat
BY SubscriptionConstants DEF TypeOK, Subs

LEMMA SyncTypes ==
  ASSUME TypeOK, NEW s \in Subs, NEW snap \in Snapshot, Sync(s, snap)
  PROVE  RowType' /\ learnt' \in [Subs -> Nat] /\ stale' \in BOOLEAN
<1>1. now \in Nat /\ row.pastDue \in Nat
  BY RowFields
<1>2. PastDueStart(snap) \in Nat
  BY <1>1 DEF PastDueStart
<1>3. RowType'
  <2>1. RowType
    BY DEF TypeOK, RowType
  <2>2. snap.status \in Statuses /\ snap.end \in Nat /\ snap.cape \in BOOLEAN
    BY DEF Snapshot
  <2>3. row' = Synced(s, snap)
    BY DEF Sync
  <2>4. (IF snap.status = "trialing" THEN snap.end ELSE Trial) \in Nat
    BY <2>2, RowFields
  <2>5. "v1" \in {"free", "v1"} /\ snap.status \in Statuses \union {"free"} /\ s \in Subs \union {0}
        /\ TRUE \in BOOLEAN
    BY <2>2
  <2> DEFINE te == IF snap.status = "trialing" THEN snap.end ELSE Trial
  <2> DEFINE pd == PastDueStart(snap)
  <2>6. row' = [row EXCEPT !.plan = "v1", !.status = snap.status, !.end = snap.end, !.cape = snap.cape,
                           !.sub = s, !.trialEnd = te, !.pastDue = pd, !.customer = TRUE]
    BY <2>3 DEF Synced
  <2>7. te \in Nat /\ pd \in Nat
    BY <1>2, <2>4
  <2> HIDE DEF te, pd
  <2> QED BY <2>1, <2>2, <2>5, <2>6, <2>7 DEF RowType
<1>4. learnt' \in [Subs -> Nat]
  <2>1. learnt \in [Subs -> Nat]
    BY DEF TypeOK
  <2>2. (IF snap.status # "past_due" THEN 0 ELSE IF learnt[s] = 0 THEN now + 1 ELSE learnt[s]) \in Nat
    BY <1>1, <2>1
  <2> QED BY <2>1, <2>2 DEF Sync
<1>5. stale' \in BOOLEAN
  <2>1. stale' = (stale \/ snap # stripe[s] \/ LiveSubs \ {s} # {})
    BY DEF Sync
  <2>2. stale \in BOOLEAN
    BY DEF TypeOK
  <2> QED BY <2>1, <2>2, Zenon
<1> QED BY <1>3, <1>4, <1>5

LEMMA SyncedFields ==
  ASSUME TypeOK, NEW s \in Subs, NEW snap \in Snapshot, Sync(s, snap)
  PROVE  /\ row'.status = snap.status /\ row'.end = snap.end /\ row'.cape = snap.cape /\ row'.sub = s
         /\ row'.trialEnd = (IF snap.status = "trialing" THEN snap.end ELSE Trial)
         /\ row'.pastDue = PastDueStart(snap)
<1>1. RowType
  BY DEF TypeOK, RowType
<1> QED BY <1>1 DEF Sync, Synced, RowType

\* Where nothing happens at Stripe, what was genuine stays so.
LEMMA GenuineStays ==
  ASSUME UNCHANGED <<stripe, paid, dunned>>
  PROVE  \A s, x : (Genuine(s, x)' <=> Genuine(s, x)) /\ (Made(s)' <=> Made(s)) /\ (Live(s)' <=> Live(s))
BY DEF Genuine, Made, Live

\* A genuine snapshot makes a row in order.
LEMMA SyncOrderly ==
  ASSUME IInv, NEW s \in Subs, NEW snap \in Snapshot, Genuine(s, snap), Sync(s, snap),
         UNCHANGED <<now, stripe, paid, dunned>>
  PROVE  RowGenuine' /\ TrialKept' /\ GraceKept' /\ Told' /\ \A t \in Subs : Booked(t)'
<1>1. TypeOK /\ RowGenuine /\ GraceKept /\ Told
  BY DEF IInv
<1>2. row'.status = snap.status /\ row'.end = snap.end /\ row'.cape = snap.cape /\ row'.sub = s
      /\ row'.trialEnd = (IF snap.status = "trialing" THEN snap.end ELSE Trial)
      /\ row'.pastDue = PastDueStart(snap)
  BY <1>1, SyncedFields
<1>3. snap.status \in Statuses /\ snap.status # "none" /\ snap.end \in Nat /\ snap.cape \in BOOLEAN
  BY DEF Genuine, Snapshot
<1>4. now \in Nat /\ row.pastDue \in Nat /\ 0 \notin Subs /\ Trial \in Nat
  BY <1>1, RowFields
<1>5. learnt' = [learnt EXCEPT ![s] = IF snap.status # "past_due" THEN 0
                                       ELSE IF @ = 0 THEN now + 1 ELSE @]
      /\ learnt \in [Subs -> Nat]
  BY <1>1 DEF Sync, TypeOK
<1>6. ~stale' => ~stale /\ snap = stripe[s] /\ \A t \in Subs : Live(t) => t = s
  BY DEF Sync, LiveSubs
<1>7. RowGenuine'
  <2>1. Genuine(s, [status |-> snap.status, end |-> snap.end, cape |-> snap.cape])'
    BY DEF Genuine, Made
  <2>2. Genuine(row.sub, [status |-> row.status, end |-> row.end, cape |-> row.cape])'
    BY <1>2, <2>1 DEF Genuine, Made
  <2> QED BY <1>2, <1>3, <1>4, <2>2 DEF RowGenuine
<1>8. GraceKept'
  <2>1. row'.pastDue <= now + 1 /\ (row'.status = "past_due" => row'.pastDue # 0)
    BY <1>1, <1>2, <1>4 DEF GraceKept, PastDueStart
  <2>2. ASSUME ~stale', snap.status = "past_due" PROVE row'.pastDue <= learnt'[s]
    <3>1. CASE learnt[s] = 0
      BY <1>5, <2>1, <2>2, <3>1
    <3>2. CASE learnt[s] # 0
      <4>1. row.sub = s /\ row.status = "past_due"
        BY <1>1, <1>6, <2>2, <3>2 DEF GraceKept, Live
      <4>2. row.pastDue # 0 /\ row.pastDue <= learnt[s]
        BY <1>1, <1>6, <2>2, <4>1 DEF GraceKept
      <4> QED BY <1>2, <1>5, <2>2, <3>2, <4>1, <4>2 DEF PastDueStart
    <3> QED BY <3>1, <3>2
  <2>3. ASSUME ~stale', NEW t \in Subs, learnt'[t] # 0, Live(t)
        PROVE  t = s /\ snap.status = "past_due"
    <3>1. t = s
      BY <1>6, <2>3
    <3>2. snap.status # "past_due" => learnt'[s] = 0
      BY <1>5
    <3> QED BY <2>3, <3>1, <3>2
  <2>4. \A t \in Subs : Live(t)' <=> Live(t)
    BY DEF Live
  <2>5. now' + 1 = now + 1
    OBVIOUS
  <2> QED BY <1>2, <2>1, <2>2, <2>3, <2>4, <2>5 DEF GraceKept
<1>9. Told'
  <2>1. ASSUME ~stale', NEW t \in Subs, Live(t) PROVE InStep(t)'
    <3>1. t = s /\ snap = stripe'[t]
      BY <1>6, <2>1
    <3> QED BY <1>2, <3>1 DEF InStep
  <2>2. \A t \in Subs : Live(t)' <=> Live(t)
    BY DEF Live
  <2> QED BY <2>1, <2>2 DEF Told
<1>10. ASSUME NEW t \in Subs PROVE Booked(t)'
  <2>1. Booked(t)
    BY DEF IInv
  <2>2. ~Made(t) => learnt'[t] = 0
    BY <1>5, <2>1 DEF Booked, Genuine
  <2> QED BY <2>1, <2>2 DEF Booked, Genuine, Made
<1>11. TrialKept'
  BY <1>2, <1>3, <1>4 DEF Genuine, TrialKept
<1> QED BY <1>7, <1>8, <1>9, <1>10, <1>11

\* A change of one subscription, whoever makes it, and what the requests hold after it.
LEMMA ChangedIInv ==
  ASSUME IInv, TypeOK', NEW s \in Subs, NEW snap, NEW more, Changed(s, snap, more), OneAtATime',
         \A r \in Requests : req'[r] = req[r] \/ Holds(r)'
  PROVE  IInv'
<1>1. /\ Ordered' /\ RowGenuine' /\ TrialKept' /\ GraceKept' /\ Told'
      /\ \A t \in Subs : Booked(t)' /\ Grows(t)
      /\ \A e \in events' : Carries(e)'
  BY ChangedOrderly
<1>2. TypeOK
  BY DEF IInv
<1>3. \A t \in Subs, x \in Snapshot : Genuine(t, x) => Genuine(t, x)'
  BY <1>1, <1>2, GenuineLasts
<1>4. ASSUME NEW r \in Requests PROVE Holds(r)'
  <2>1. CASE req'[r] = req[r]
    <3>1. Holds(r) /\ req[r].snap \in Snapshot
      BY <1>2 DEF IInv, TypeOK
    <3> QED BY <1>1, <1>3, <2>1, <3>1 DEF Holds, Grows
  <2> QED BY <2>1
<1> QED BY <1>1, <1>4 DEF IInv

\* A step that changes nothing at Stripe.
LEMMA StillIInv ==
  ASSUME IInv, TypeOK', UNCHANGED <<stripe, paid, dunned>>, events' \subseteq events,
         \A r \in Requests : req'[r] = req[r] \/ Holds(r)',
         \A t \in Subs : Booked(t)',
         RowGenuine', TrialKept', GraceKept', OneAtATime', Told'
  PROVE  IInv'
<1>1. \A s, x : (Genuine(s, x)' <=> Genuine(s, x)) /\ (Made(s)' <=> Made(s))
  BY GenuineStays
<1>2. Ordered'
  BY <1>1 DEF IInv, Ordered
<1>3. ASSUME NEW e \in events' PROVE Carries(e)'
  <2>1. Carries(e)
    BY DEF IInv
  <2> QED BY <1>1, <2>1 DEF Carries
<1>4. ASSUME NEW r \in Requests PROVE Holds(r)'
  <2>1. CASE req'[r] = req[r]
    <3>1. Holds(r)
      BY DEF IInv
    <3> QED BY <2>1, <3>1 DEF Holds, Genuine, Made
  <2> QED BY <2>1
<1> QED BY <1>2, <1>3, <1>4 DEF IInv

\* The row is as it was, and so is what was known of it.
LEMMA RowStays ==
  ASSUME IInv, UNCHANGED <<now, stripe, row, paid, dunned, learnt, stale>>
  PROVE  /\ RowGenuine' /\ TrialKept' /\ GraceKept' /\ \A t \in Subs : Booked(t)'
         /\ events' = events => Told'
<1>1. \A s, x : (Genuine(s, x)' <=> Genuine(s, x)) /\ (Made(s)' <=> Made(s)) /\ (Live(s)' <=> Live(s))
  BY GenuineStays
<1>2. RowGenuine' /\ TrialKept'
  BY DEF IInv, RowGenuine, TrialKept, Genuine, Made
<1>3. GraceKept'
  BY <1>1 DEF IInv, GraceKept
<1>4. ASSUME NEW t \in Subs PROVE Booked(t)'
  <2>1. Booked(t)
    BY DEF IInv
  <2> QED BY <2>1 DEF Booked, Genuine, Made
<1>5. events' = events => Told'
  BY <1>1 DEF IInv, Told, InStep
<1> QED BY <1>2, <1>3, <1>4, <1>5

LEMMA OneStaysOpen ==
  ASSUME IInv, UNCHANGED <<session, doubled>>, \A s \in Subs : Live(s)' => Live(s)
  PROVE  OneAtATime'
BY DEF IInv, OneAtATime

-----------------------------------------------------------------------------
\* The type of the events, and of what a change at Stripe leaves.
EventType == [kind : {"updated", "deleted", "fetch"}, sub : Subs, snap : Snapshot]
LEMMA EventTyped ==
  ASSUME NEW k \in {"updated", "deleted", "fetch"}, NEW s \in Subs, NEW x \in Snapshot
  PROVE  /\ Event(k, s, x) \in EventType
         /\ Event(k, s, x).kind = k /\ Event(k, s, x).sub = s /\ Event(k, s, x).snap = x
BY DEF Event, EventType

LEMMA ChangeTyped ==
  ASSUME TypeOK, NEW s \in Subs, NEW x \in Snapshot, NEW more \in SUBSET EventType, Change(s, x, more)
  PROVE  stripe' \in [Subs -> Snapshot] /\ events' \subseteq EventType
<1>1. stripe \in [Subs -> Snapshot] /\ events \subseteq EventType
  BY DEF TypeOK, EventType
<1> QED BY <1>1 DEF Change

LEMMA NoSubTyped == NoSub \in Snapshot
BY DEF NoSub, Snapshot, Statuses

LEMMA InitIInv == Init => IInv
<1> SUFFICES ASSUME Init PROVE IInv
  OBVIOUS
<1> USE SubscriptionConstants
<1>1. now = 0 /\ events = {} /\ dunned = {} /\ ~doubled /\ ~stale
      /\ learnt = [s \in Subs |-> 0] /\ session = [k \in Subs |-> 0]
      /\ req = [r \in Requests |-> Idle]
  BY DEF Init
<1>2. 1 \in Subs /\ Subs \subseteq Nat /\ 0 \notin Subs
  BY DEF Subs
<1>3. Period \in Nat /\ Trial \in Nat
  BY DEF SubscriptionConstants
<1>4. row \in {FreeRow, TrialRow, PaidRow}
  BY DEF Init
<1> DEFINE Good1 == [status |-> "active", end |-> Period, cape |-> FALSE]
<1>5. Good1 \in Snapshot /\ NoSub \in Snapshot
  BY <1>3, NoSubTyped DEF Snapshot, Statuses
<1>6. stripe = [s \in Subs |-> IF s = row.sub THEN Good1 ELSE NoSub]
  BY DEF Init
<1>7. stripe \in [Subs -> Snapshot] /\ paid = [s \in Subs |-> stripe[s].end] /\ paid \in [Subs -> Nat]
  <2>1. stripe \in [Subs -> Snapshot]
    BY <1>5, <1>6
  <2>2. \A s \in Subs : stripe[s].end \in Nat
    BY <2>1 DEF Snapshot
  <2> QED BY <2>1, <2>2 DEF Init
<1>8. RowType
  <2> DEFINE T == [plan : {"free", "v1"}, status : Statuses \union {"free"}, end : Nat,
                   cape : BOOLEAN, sub : Subs \union {0}, trialEnd : Nat, pastDue : Nat,
                   customer : BOOLEAN]
  <2>1. FreeRow \in T
    BY DEF FreeRow, Statuses
  <2>2. {"trialing", "active"} \subseteq Statuses
    BY DEF Statuses
  <2>3. TrialRow \in T
    BY <1>3, <2>1, <2>2 DEF TrialRow
  <2>4. PaidRow \in T
    BY <1>2, <1>3, <2>1, <2>2 DEF PaidRow
  <2> QED BY <1>4, <2>1, <2>3, <2>4, Zenon DEF RowType
<1>19. /\ row.pastDue = 0 /\ row.cape = FALSE /\ row.sub \in {0, 1}
       /\ row.sub = 0 => row.status \in {"free", "trialing"}
       /\ row.sub = 1 => row.status = "active" /\ row.end = Period
       /\ row.trialEnd <= Trial
  <2>1. CASE row = FreeRow
    BY <1>3, <2>1 DEF FreeRow
  <2>2. CASE row = TrialRow
    BY <1>3, <2>2 DEF FreeRow, TrialRow
  <2>3. CASE row = PaidRow
    BY <1>3, <2>3 DEF FreeRow, PaidRow
  <2> QED BY <1>4, <2>1, <2>2, <2>3
<1>9. TypeOK
  <2>1. Idle \in [step : Steps, for : Purposes, sub : Subs \union {0}, snap : Snapshot, seen : Seen]
    BY NoSubTyped DEF Idle, Purposes, Steps, Seen, Nothing
  <2> HIDE DEF Good1
  <2>2. now \in 0..MaxTime /\ spent \in 0..MaxSpent
    BY DEF Init, SubscriptionConstants
  <2>3. learnt \in [Subs -> Nat] /\ session \in [Subs -> Nat] /\ req \in
          [Requests -> [step : Steps, for : Purposes, sub : Subs \union {0}, snap : Snapshot, seen : Seen]]
    BY <1>1, <2>1
  <2>4. doubled \in BOOLEAN
    BY DEF Init
  <2>5. stale \in BOOLEAN
    BY DEF Init
  <2>6. events \subseteq [kind : {"updated", "deleted", "fetch"}, sub : Subs, snap : Snapshot] /\ dunned \subseteq Subs
    BY <1>1
  <2> QED BY <1>7, <1>8, <2>2, <2>3, <2>4, <2>5, <2>6 DEF TypeOK, RowType
<1>10. \A s \in Subs : Made(s) <=> s = row.sub
  BY <1>6 DEF Made, NoSub
<1>12. Ordered
  BY <1>2, <1>10, <1>19 DEF Ordered, Subs
<1>13. ASSUME NEW s \in Subs PROVE Booked(s) /\ (s = row.sub => InStep(s))
  <2>1. CASE s = row.sub
    <3>1. stripe[s] = Good1 /\ paid[s] = Period /\ Made(s)
      BY <1>6, <1>7, <1>10, <2>1
    <3>2. row.status = "active" /\ row.end = Period /\ row.cape = FALSE
      BY <1>2, <1>19, <2>1
    <3>3. Genuine(s, stripe[s])
      BY <1>3, <3>1 DEF Genuine
    <3>4. paid[s] <= stripe[s].end
      BY <1>3, <3>1
    <3>5. stripe[s].status = "active" /\ stripe[s].end = Period /\ stripe[s].cape = FALSE
      BY <3>1
    <3> HIDE DEF Good1
    <3>6. InStep(s)
      BY <2>1, <3>2, <3>5 DEF InStep
    <3> QED BY <3>1, <3>3, <3>4, <3>6 DEF Booked
  <2>2. CASE s # row.sub
    <3>1. stripe[s] = NoSub /\ paid[s] = 0 /\ ~Made(s) /\ learnt[s] = 0
      BY <1>1, <1>6, <1>7, <1>10, <2>2 DEF NoSub
    <3> QED BY <2>2, <3>1 DEF Booked, NoSub
  <2> QED BY <2>1, <2>2
<1>14. RowGenuine
  <2>1. CASE row.sub = 0
    BY <1>19, <2>1 DEF RowGenuine
  <2>2. CASE row.sub = 1
    <3>1. stripe[1] = Good1 /\ paid[1] = Period /\ Made(1)
      BY <1>2, <1>6, <1>7, <1>10, <2>2
    <3> QED BY <1>3, <1>19, <2>2, <3>1 DEF RowGenuine, Genuine, Statuses
  <2> QED BY <1>19, <2>1, <2>2
<1>15. GraceKept
  <2>1. row.pastDue = 0 /\ row.status # "past_due"
    BY <1>19
  <2> QED BY <1>1, <2>1 DEF GraceKept
<1>16. \A s \in Subs : Live(s) => s = row.sub
  BY <1>10 DEF Live, Made
<1>17. OneAtATime /\ Told
  BY <1>1, <1>13, <1>16 DEF OneAtATime, Told
<1>18. \A r \in Requests : Holds(r)
  BY <1>1 DEF Holds, Idle
<1>20. TrialKept
  BY <1>19 DEF TrialKept
<1> QED BY <1>1, <1>9, <1>12, <1>13, <1>14, <1>15, <1>17, <1>18, <1>20 DEF IInv

-----------------------------------------------------------------------------
\* The types, variable by variable.
ReqType == [step : Steps, for : Purposes, sub : Subs \union {0}, snap : Snapshot, seen : Seen]
HistoryTypes ==
  paid \in [Subs -> Nat] /\ learnt \in [Subs -> Nat] /\ dunned \subseteq Subs
FlagTypes == doubled \in BOOLEAN /\ stale \in BOOLEAN
StripeTypes == stripe \in [Subs -> Snapshot] /\ session \in [Subs -> Nat] /\ events \subseteq EventType
Types ==
  /\ now \in 0..MaxTime /\ spent \in 0..MaxSpent
  /\ StripeTypes /\ RowType /\ req \in [Requests -> ReqType] /\ HistoryTypes /\ FlagTypes
LEMMA TypesAre == (TypeOK <=> Types) /\ (TypeOK' <=> Types')
<1>1. TypeOK <=> Types
  BY Zenon DEF TypeOK, Types, StripeTypes, RowType, HistoryTypes, FlagTypes, EventType, ReqType
<1>2. TypeOK' <=> Types'
  BY Zenon DEF TypeOK, Types, StripeTypes, RowType, HistoryTypes, FlagTypes, EventType, ReqType
<1> QED BY <1>1, <1>2

\* What the bounds allow: a request or a fault more.
LEMMA SpendTyped == ASSUME TypeOK, Spend PROVE spent' \in 0..MaxSpent
BY SubscriptionConstants DEF TypeOK, Spend

\* The facts of a snapshot.
LEMMA SnapFields ==
  ASSUME TypeOK, NEW s \in Subs
  PROVE  /\ stripe[s] \in Snapshot /\ stripe[s].end \in Nat /\ stripe[s].cape \in BOOLEAN
         /\ stripe[s].status \in Statuses
         /\ paid[s] \in Nat /\ learnt[s] \in Nat /\ session[s] \in Nat /\ now \in Nat
         /\ Period \in Nat \ {0} /\ Grace \in Nat
BY SubscriptionConstants DEF TypeOK, Snapshot

\* A change of s, if the snapshot is true of what was paid.
LEMMA ChangeIInv ==
  ASSUME IInv, NEW s \in Subs, NEW snap \in Snapshot, NEW more \in SUBSET EventType,
         Change(s, snap, more),
         \A e \in more : e.sub = s /\ (e.kind = "fetch" \/ e.snap = snap),
         snap.status = "canceled" \/ Event("updated", s, snap) \in more,
         snap.status # "none", Live(s) \/ ~Made(s),
         stripe[s].end <= snap.end,
         paid' \in [Subs -> Nat], dunned' \subseteq Subs,
         snap.status \in {"trialing", "active"} => snap.end <= paid'[s],
         snap.status = "canceled" \/ (snap.status = "past_due" /\ snap.cape) =>
           snap.end <= paid'[s] \/ s \in dunned',
         paid[s] <= paid'[s], paid'[s] <= snap.end,
         s \in dunned => s \in dunned' \/ paid'[s] = snap.end,
         \A t \in Subs \ {s} : paid'[t] = paid[t] /\ (t \in dunned <=> t \in dunned'),
         \A t \in Subs : t < s => Made(t),
         UNCHANGED <<now, row, spent, learnt, stale>>,
         session' \in [Subs -> Nat], doubled' \in BOOLEAN, OneAtATime',
         req' \in [Requests -> ReqType], \A r \in Requests : req'[r] = req[r] \/ Holds(r)'
  PROVE  IInv'
<1>1. TypeOK /\ Types
  BY TypesAre DEF IInv
<1>2. stripe' \in [Subs -> Snapshot] /\ events' \subseteq EventType
  BY <1>1, ChangeTyped
<1>3. stripe' = [stripe EXCEPT ![s] = snap] /\ events' = events \union more
  BY DEF Change
<1>4. stripe'[s] = snap
  BY <1>1, <1>3 DEF TypeOK
<1>5. TypeOK'
  <2>1. StripeTypes' /\ HistoryTypes' /\ RowType'
    BY <1>1, <1>2 DEF Types, StripeTypes, HistoryTypes, RowType
  <2>2. stale' \in BOOLEAN
    BY <1>1 DEF Types, FlagTypes
  <2>3. Types'
    BY <1>1, <2>1, <2>2 DEF Types, FlagTypes
  <2> QED BY <2>3, TypesAre
<1>6. Genuine(s, snap)'
  <2>1. snap.end \in Nat
    BY DEF Snapshot
  <2> QED BY <1>4, <2>1 DEF Genuine, Made
<1>7. Live(s)' => (Live(s) \/ ~Made(s)) /\ Event("updated", s, snap) \in more
  BY <1>4 DEF Live
<1>8. Changed(s, snap, more)
  BY <1>3, <1>6, <1>7, Zenon DEF Changed
<1> QED BY <1>5, <1>8, ChangedIInv

\* What Updates, Charges and Cancels tell.
LEMMA TellsTyped ==
  ASSUME NEW s \in Subs, NEW x \in Snapshot
  PROVE  /\ {Event("updated", s, x)} \in SUBSET EventType
         /\ {Event("updated", s, x), Event("fetch", s, NoSub)} \in SUBSET EventType
         /\ {Event("deleted", s, x)} \in SUBSET EventType
         /\ \A e \in {Event("updated", s, x), Event("fetch", s, NoSub)} :
              e.sub = s /\ (e.kind = "fetch" \/ e.snap = x)
         /\ \A e \in {Event("deleted", s, x)} : e.sub = s /\ e.snap = x
<1>1. Event("updated", s, x) \in EventType /\ Event("deleted", s, x) \in EventType
      /\ Event("fetch", s, NoSub) \in EventType
  BY EventTyped, NoSubTyped
<1>2. /\ Event("updated", s, x).sub = s /\ Event("updated", s, x).snap = x
      /\ Event("deleted", s, x).sub = s /\ Event("deleted", s, x).snap = x
      /\ Event("fetch", s, NoSub).sub = s /\ Event("fetch", s, NoSub).kind = "fetch"
  BY DEF Event
<1> QED BY <1>1, <1>2

LEMMA CheckoutPaidIInv ==
  ASSUME IInv, NEW k \in Subs, CheckoutPaid(k)
  PROVE  IInv'
<1>1. TypeOK /\ Types /\ Ordered /\ OneAtATime
  BY TypesAre DEF IInv
<1> DEFINE s == Cardinality({t \in Subs : stripe[t].status # "none"}) + 1
<1> DEFINE trial == session[k] - 1 > now
<1> DEFINE end == IF trial THEN session[k] - 1 ELSE now + Period
<1> DEFINE snap == [status |-> IF trial THEN "trialing" ELSE "active", end |-> end, cape |-> FALSE]
<1> DEFINE more == {Event("updated", s, snap), Event("fetch", s, NoSub)}
<1>2. /\ session[k] # 0 /\ s \in Subs
      /\ session' = [session EXCEPT ![k] = 0]
      /\ Change(s, snap, more)
      /\ paid' = [paid EXCEPT ![s] = end]
      /\ UNCHANGED <<now, row, req, spent, learnt, dunned, doubled, stale>>
  BY Zenon DEF CheckoutPaid, Charges
<1>3. end \in Nat /\ session[k] \in Nat
  BY <1>1, SnapFields
<1>4. snap \in Snapshot /\ snap.end = end /\ snap.status \in {"trialing", "active"}
  BY <1>3 DEF Snapshot, Statuses
<1>5. ~Made(s) /\ \A t \in Subs : t < s => Made(t)
  BY <1>1, <1>2, NextIsNew
<1>6. stripe[s].end = 0 /\ paid[s] = 0
  <2>1. Booked(s)
    BY <1>2 DEF IInv
  <2>2. paid[s] \in Nat
    BY <1>1, <1>2, SnapFields
  <2> QED BY <1>5, <2>1, <2>2 DEF Booked
<1> HIDE DEF s, trial, end, snap
<1>7. more \in SUBSET EventType /\ \A e \in more : e.sub = s /\ (e.kind = "fetch" \/ e.snap = snap)
  BY <1>2, <1>4, TellsTyped
<1>8. stripe' = [stripe EXCEPT ![s] = snap]
  BY <1>2 DEF Change
<1>9. OneAtATime'
  <2>1. ASSUME ~doubled
        PROVE  (\A j \in Subs : session'[j] = 0) /\ \A t \in Subs : Live(t)' => t = s
    <3>1. \A j \in Subs : session[j] # 0 => j = k
      BY <1>1, <1>2, <2>1 DEF OneAtATime
    <3>2. \A t \in Subs : ~Live(t)
      BY <1>1, <1>2, <2>1 DEF OneAtATime
    <3>3. \A j \in Subs : session'[j] = 0
      BY <1>1, <1>2, <3>1 DEF TypeOK
    <3>4. \A t \in Subs \ {s} : stripe'[t] = stripe[t]
      BY <1>1, <1>8 DEF TypeOK
    <3> QED BY <3>2, <3>3, <3>4 DEF Live
  <2> QED BY <1>2, <2>1 DEF OneAtATime
<1>10. /\ paid' \in [Subs -> Nat] /\ paid'[s] = end /\ \A t \in Subs \ {s} : paid'[t] = paid[t]
       /\ session' \in [Subs -> Nat]
  BY <1>1, <1>2, <1>3 DEF TypeOK
<1>11. doubled' \in BOOLEAN
  BY <1>1, <1>2 DEF Types, FlagTypes
<1>12. dunned' \subseteq Subs /\ req' \in [Requests -> ReqType]
  BY <1>1, <1>2 DEF Types, HistoryTypes
<1>13. stripe[s].end <= snap.end /\ paid[s] <= paid'[s] /\ paid'[s] <= snap.end
  BY <1>3, <1>4, <1>6, <1>10
<1>14. Event("updated", s, snap) \in more
  OBVIOUS
<1> HIDE DEF more
<1> QED BY <1>2, <1>4, <1>5, <1>7, <1>9, <1>10, <1>11, <1>12, <1>13, <1>14, ChangeIInv

LEMMA RenewIInv ==
  ASSUME IInv, NEW s \in Subs, Renew(s)
  PROVE  IInv'
<1>1. TypeOK /\ Types /\ Ordered /\ OneAtATime /\ Booked(s)
  BY TypesAre DEF IInv
<1>2. stripe[s] \in Snapshot /\ stripe[s].end \in Nat /\ paid[s] \in Nat /\ Period \in Nat
  BY <1>1, SnapFields
<1>3. Live(s) /\ Made(s) /\ ~stripe[s].cape
  BY DEF Renew, Good, Live, Made
<1>4. \A t \in Subs : t < s => Made(t)
  BY <1>1, <1>3 DEF Ordered
<1>5. paid[s] <= stripe[s].end
  BY <1>1 DEF Booked
<1> DEFINE end == stripe[s].end + Period
<1>6. end \in Nat /\ stripe[s].end <= end
  BY <1>2
<1>7. UNCHANGED <<now, session, row, req, spent, learnt, dunned, doubled, stale>>
  BY DEF Renew
<1>8. doubled' \in BOOLEAN
  BY <1>1, <1>7 DEF Types, FlagTypes
<1>9. dunned' \subseteq Subs /\ req' \in [Requests -> ReqType] /\ session' \in [Subs -> Nat]
  BY <1>1, <1>7 DEF Types, HistoryTypes, StripeTypes
<1>10. ASSUME NEW x, stripe' = [stripe EXCEPT ![s] = x] PROVE OneAtATime'
  <2>1. \A t \in Subs : Live(t)' => Live(t)
    BY <1>1, <1>3, <1>10 DEF TypeOK, Live
  <2> QED BY <1>7, <2>1, OneStaysOpen
<1>11. CASE /\ Charges(s, [stripe[s] EXCEPT !.status = "active", !.end = end])
            /\ paid' = [paid EXCEPT ![s] = end]
  <2> DEFINE snap == [stripe[s] EXCEPT !.status = "active", !.end = end]
  <2> DEFINE more == {Event("updated", s, snap), Event("fetch", s, NoSub)}
  <2>1. snap \in Snapshot /\ snap.status = "active" /\ snap.end = end
    BY <1>2, <1>6 DEF Snapshot, Statuses
  <2>2. Change(s, snap, more)
    BY <1>11 DEF Charges
  <2> HIDE DEF snap, end
  <2>3. more \in SUBSET EventType /\ \A e \in more : e.sub = s /\ (e.kind = "fetch" \/ e.snap = snap)
    BY <2>1, TellsTyped
  <2>4. Event("updated", s, snap) \in more
    OBVIOUS
  <2> HIDE DEF more
  <2>5. OneAtATime'
    BY <1>10, <2>2 DEF Change
  <2>6. paid' \in [Subs -> Nat] /\ paid'[s] = end /\ \A t \in Subs \ {s} : paid'[t] = paid[t]
    BY <1>1, <1>6, <1>11 DEF TypeOK
  <2>7. paid[s] <= paid'[s] /\ paid'[s] <= snap.end /\ snap.end <= paid'[s]
    BY <1>2, <1>5, <1>6, <2>1, <2>6
  <2> QED BY <1>3, <1>4, <1>6, <1>7, <1>8, <1>9, <2>1, <2>2, <2>3, <2>4, <2>5, <2>6, <2>7, ChangeIInv
<1>12. CASE /\ Updates(s, [stripe[s] EXCEPT !.status = "past_due", !.end = end])
            /\ UNCHANGED paid
  <2> DEFINE snap == [stripe[s] EXCEPT !.status = "past_due", !.end = end]
  <2> DEFINE more == {Event("updated", s, snap)}
  <2>1. snap \in Snapshot /\ snap.status = "past_due" /\ snap.end = end /\ ~snap.cape
    BY <1>2, <1>3, <1>6 DEF Snapshot, Statuses
  <2>2. Change(s, snap, more)
    BY <1>12 DEF Updates
  <2> HIDE DEF snap, end
  <2>3. more \in SUBSET EventType /\ \A e \in more : e.sub = s /\ (e.kind = "fetch" \/ e.snap = snap)
    BY <2>1, TellsTyped
  <2>4. Event("updated", s, snap) \in more
    OBVIOUS
  <2> HIDE DEF more
  <2>5. OneAtATime'
    BY <1>10, <2>2 DEF Change
  <2>6. paid' \in [Subs -> Nat] /\ paid' = paid
    BY <1>1, <1>12 DEF TypeOK
  <2>7. paid[s] <= paid'[s] /\ paid'[s] <= snap.end
    BY <1>2, <1>5, <1>6, <2>1, <2>6
  <2> QED BY <1>3, <1>4, <1>6, <1>7, <1>8, <1>9, <2>1, <2>2, <2>3, <2>4, <2>5, <2>6, <2>7, ChangeIInv
<1> QED BY <1>11, <1>12 DEF Renew

LEMMA RecoverIInv ==
  ASSUME IInv, NEW s \in Subs, Recover(s)
  PROVE  IInv'
<1>1. TypeOK /\ Types /\ Ordered /\ Booked(s)
  BY TypesAre DEF IInv
<1>2. stripe[s] \in Snapshot /\ stripe[s].end \in Nat /\ paid[s] \in Nat
  BY <1>1, SnapFields
<1>3. Live(s) /\ Made(s)
  BY DEF Recover, Overdue, Live, Made
<1>4. \A t \in Subs : t < s => Made(t)
  BY <1>1, <1>3 DEF Ordered
<1>5. paid[s] <= stripe[s].end
  BY <1>1 DEF Booked
<1> DEFINE snap == [stripe[s] EXCEPT !.status = "active"]
<1> DEFINE more == {Event("updated", s, snap), Event("fetch", s, NoSub)}
<1>6. snap \in Snapshot /\ snap.status = "active" /\ snap.end = stripe[s].end
  BY <1>2 DEF Snapshot, Statuses
<1>7. Change(s, snap, more)
  BY DEF Recover, Charges
<1>8. /\ paid' = [paid EXCEPT ![s] = stripe[s].end] /\ dunned' = dunned \ {s}
      /\ UNCHANGED <<now, session, row, req, spent, learnt, doubled, stale>>
  BY DEF Recover
<1> HIDE DEF snap
<1>9. more \in SUBSET EventType /\ \A e \in more : e.sub = s /\ (e.kind = "fetch" \/ e.snap = snap)
  BY <1>6, TellsTyped
<1>10. Event("updated", s, snap) \in more
  OBVIOUS
<1> HIDE DEF more
<1>11. OneAtATime'
  <2>1. \A t \in Subs : Live(t)' => Live(t)
    BY <1>1, <1>3, <1>7 DEF TypeOK, Live, Change
  <2> QED BY <1>8, <2>1, OneStaysOpen
<1>12. paid' \in [Subs -> Nat] /\ paid'[s] = stripe[s].end /\ \A t \in Subs \ {s} : paid'[t] = paid[t]
  BY <1>1, <1>2, <1>8 DEF TypeOK
<1>13. doubled' \in BOOLEAN
  BY <1>1, <1>8 DEF Types, FlagTypes
<1>14. /\ dunned' \subseteq Subs /\ req' \in [Requests -> ReqType] /\ session' \in [Subs -> Nat]
       /\ \A t \in Subs \ {s} : t \in dunned <=> t \in dunned'
  BY <1>1, <1>8 DEF Types, HistoryTypes, StripeTypes
<1>15. stripe[s].end <= snap.end /\ paid[s] <= paid'[s] /\ paid'[s] = snap.end /\ snap.end <= paid'[s]
       /\ paid'[s] <= snap.end
  BY <1>2, <1>5, <1>6, <1>12
<1> QED BY <1>3, <1>4, <1>6, <1>7, <1>8, <1>9, <1>10, <1>11, <1>12, <1>13, <1>14, <1>15, ChangeIInv

LEMMA StripeCancelsIInv ==
  ASSUME IInv, NEW s \in Subs, StripeCancels(s)
  PROVE  IInv'
<1>1. TypeOK /\ Types /\ Ordered /\ Booked(s)
  BY TypesAre DEF IInv
<1>2. stripe[s] \in Snapshot /\ stripe[s].end \in Nat /\ paid[s] \in Nat
  BY <1>1, SnapFields
<1>3. Live(s) /\ Made(s)
  BY DEF StripeCancels, Live, Made
<1>4. \A t \in Subs : t < s => Made(t)
  BY <1>1, <1>3 DEF Ordered
<1>5. paid[s] <= stripe[s].end /\ Genuine(s, stripe[s])
  BY <1>1, <1>3 DEF Booked
<1> DEFINE snap == [stripe[s] EXCEPT !.status = "canceled"]
<1> DEFINE more == {Event("deleted", s, snap)}
<1>6. snap \in Snapshot /\ snap.status = "canceled" /\ snap.end = stripe[s].end
  BY <1>2 DEF Snapshot, Statuses
<1>7. Change(s, snap, more)
  BY DEF StripeCancels, Cancels
<1>8. /\ dunned' = (IF Overdue(s) THEN dunned \union {s} ELSE dunned)
      /\ UNCHANGED <<now, session, row, req, spent, paid, learnt, doubled, stale>>
  BY DEF StripeCancels
<1> HIDE DEF snap
<1>9. more \in SUBSET EventType /\ \A e \in more : e.sub = s /\ (e.kind = "fetch" \/ e.snap = snap)
  BY <1>6, TellsTyped
<1> HIDE DEF more
<1>11. OneAtATime'
  <2>1. \A t \in Subs : Live(t)' => Live(t)
    BY <1>1, <1>3, <1>7 DEF TypeOK, Live, Change
  <2> QED BY <1>8, <2>1, OneStaysOpen
<1>12. paid' \in [Subs -> Nat] /\ paid' = paid
  BY <1>1, <1>8 DEF TypeOK
<1>13. doubled' \in BOOLEAN
  BY <1>1, <1>8 DEF Types, FlagTypes
<1>14. /\ dunned' \subseteq Subs /\ req' \in [Requests -> ReqType] /\ session' \in [Subs -> Nat]
       /\ \A t \in Subs \ {s} : t \in dunned <=> t \in dunned'
       /\ s \in dunned => s \in dunned'
  BY <1>1, <1>8 DEF Types, HistoryTypes, StripeTypes
<1>15. stripe[s].end <= snap.end /\ paid[s] <= paid'[s] /\ paid'[s] <= snap.end
  BY <1>2, <1>5, <1>6, <1>12
<1>16. snap.end <= paid'[s] \/ s \in dunned'
  BY <1>3, <1>5, <1>6, <1>8 DEF Genuine, Live, Overdue
<1> QED BY <1>3, <1>4, <1>6, <1>7, <1>8, <1>9, <1>11, <1>12, <1>13, <1>14, <1>15, <1>16, ChangeIInv

LEMMA TickIInv == ASSUME IInv, Tick PROVE IInv'
<1>1. TypeOK /\ Types /\ GraceKept
  BY TypesAre DEF IInv
<1>2. /\ now < MaxTime /\ now' = now + 1
      /\ UNCHANGED <<stripe, session, events, row, req, spent, paid, learnt, dunned, doubled, stale>>
  BY DEF Tick, stripeVars, historyVars
<1>3. now \in Nat /\ row.pastDue \in Nat
  BY <1>1, RowFields
<1>4. TypeOK'
  <2>1. now' \in 0..MaxTime
    BY <1>1, <1>2, SubscriptionConstants DEF Types
  <2>2. Types'
    BY <1>1, <1>2, <2>1, Zenon DEF Types, StripeTypes, RowType, HistoryTypes, FlagTypes
  <2> QED BY <2>2, TypesAre
<1>5. \A s, x : (Genuine(s, x)' <=> Genuine(s, x)) /\ (Made(s)' <=> Made(s)) /\ (Live(s)' <=> Live(s))
  BY <1>2, GenuineStays
<1>6. GraceKept'
  <2>1. row.pastDue <= now' + 1
    BY <1>1, <1>2, <1>3 DEF GraceKept
  <2>2. row' = row /\ learnt' = learnt /\ stale' = stale /\ \A s \in Subs : Live(s)' <=> Live(s)
    BY <1>2, <1>5
  <2> QED BY <1>1, <2>1, <2>2 DEF GraceKept
<1>7. RowGenuine' /\ TrialKept'
  BY <1>2 DEF IInv, RowGenuine, TrialKept, Genuine, Made
<1>8. Told'
  BY <1>2, <1>5 DEF IInv, Told, InStep
<1>9. OneAtATime'
  BY <1>2, <1>5, OneStaysOpen
<1>10. ASSUME NEW s \in Subs PROVE Booked(s)'
  <2>1. Booked(s)
    BY DEF IInv
  <2> QED BY <1>2, <2>1 DEF Booked, Genuine, Made
<1> QED BY <1>2, <1>4, <1>6, <1>7, <1>8, <1>9, <1>10, StillIInv

-----------------------------------------------------------------------------
\* An event is handled, or lost.
LEMMA SyncIInv ==
  ASSUME IInv, NEW s \in Subs, NEW x \in Snapshot, Genuine(s, x), Sync(s, x),
         UNCHANGED <<now, stripe, session, paid, dunned, doubled>>, spent' \in 0..MaxSpent,
         events' \subseteq events,
         req' \in [Requests -> ReqType], \A r \in Requests : req'[r] = req[r] \/ Holds(r)'
  PROVE  IInv'
<1>1. TypeOK /\ Types
  BY TypesAre DEF IInv
<1>2. RowType' /\ learnt' \in [Subs -> Nat] /\ stale' \in BOOLEAN
  BY <1>1, SyncTypes
<1>3. RowGenuine' /\ TrialKept' /\ GraceKept' /\ Told' /\ \A t \in Subs : Booked(t)'
  BY SyncOrderly
<1>4. TypeOK'
  <2>1. StripeTypes'
    BY <1>1 DEF Types, StripeTypes
  <2>2. paid' \in [Subs -> Nat] /\ dunned' \subseteq Subs /\ now' \in 0..MaxTime
    BY <1>1 DEF Types, HistoryTypes
  <2>3. doubled' \in BOOLEAN
    BY <1>1 DEF Types, FlagTypes
  <2>4. Types'
    BY <1>2, <2>1, <2>2, <2>3, Zenon DEF Types, HistoryTypes, FlagTypes
  <2> QED BY <2>4, TypesAre
<1>5. \A t \in Subs : Live(t)' <=> Live(t)
  BY GenuineStays
<1>6. OneAtATime'
  BY <1>5, OneStaysOpen
<1> QED BY <1>3, <1>4, <1>6, StillIInv

\* The row loses its subscription: that one is not live, or the row is stale.
LEMMA FreedIInv ==
  ASSUME IInv, row' = Freed, UNCHANGED <<now, stripe, session, paid, learnt, dunned, doubled, spent>>,
         stale' \in BOOLEAN, ~stale' => ~stale /\ row.sub \notin LiveSubs,
         events' \subseteq events, ~stale' /\ LiveSubs # {} => events' = events,
         req' \in [Requests -> ReqType], \A r \in Requests : req'[r] = req[r] \/ Holds(r)'
  PROVE  IInv'
<1>1. TypeOK /\ Types /\ GraceKept /\ RowGenuine /\ TrialKept /\ Told
  BY TypesAre DEF IInv
<1>2. RowType /\ now \in Nat /\ 0 \notin Subs
  BY <1>1, RowFields DEF Types
<1>3. /\ row'.status = "free" /\ row'.sub = 0 /\ ~row'.cape /\ row'.pastDue = 0
      /\ row'.trialEnd = row.trialEnd /\ RowType'
  <2>1. /\ row' = [plan |-> "free", status |-> "free", end |-> 0, cape |-> FALSE, sub |-> 0,
                   trialEnd |-> row.trialEnd, pastDue |-> 0, customer |-> row.customer]
        /\ row.trialEnd \in Nat /\ row.customer \in BOOLEAN
    BY <1>2 DEF Freed, FreeRow, RowType
  <2> QED BY <2>1 DEF RowType
<1>4. \A s \in Subs : ~stale' => ~stale /\ (Live(s) => row.sub # s)
  BY DEF LiveSubs
<1>5. \A t \in Subs : Live(t)' <=> Live(t)
  BY GenuineStays
<1>6. RowGenuine' /\ TrialKept'
  BY <1>1, <1>3 DEF RowGenuine, TrialKept
<1>7. GraceKept'
  <2>1. \A s \in Subs : ~stale' /\ learnt[s] # 0 /\ Live(s) => FALSE
    BY <1>1, <1>2, <1>4 DEF GraceKept
  <2>2. row'.pastDue <= now' + 1
    BY <1>2, <1>3
  <2> QED BY <1>3, <1>5, <2>1, <2>2 DEF GraceKept
<1>8. Told'
  <2>1. ASSUME ~stale', NEW s \in Subs, Live(s)
        PROVE  Event("updated", s, stripe'[s]) \in events'
    <3>1. ~stale /\ row.sub # s
      BY <1>4, <2>1
    <3>2. Event("updated", s, stripe[s]) \in events
      BY <1>1, <1>2, <2>1, <3>1 DEF Told, InStep
    <3> QED BY <2>1, <3>2 DEF LiveSubs
  <2> QED BY <1>5, <2>1 DEF Told
<1>9. OneAtATime'
  BY <1>5, OneStaysOpen
<1>10. ASSUME NEW t \in Subs PROVE Booked(t)'
  <2>1. Booked(t)
    BY DEF IInv
  <2> QED BY <2>1 DEF Booked, Genuine, Made
<1>12. TypeOK'
  <2>1. StripeTypes' /\ HistoryTypes' /\ now' \in 0..MaxTime /\ spent' \in 0..MaxSpent
    BY <1>1 DEF Types, StripeTypes, HistoryTypes
  <2>2. doubled' \in BOOLEAN
    BY <1>1 DEF Types, FlagTypes
  <2>3. Types'
    BY <1>3, <2>1, <2>2, Zenon DEF Types, FlagTypes
  <2> QED BY <2>3, TypesAre
<1> QED BY <1>6, <1>7, <1>8, <1>9, <1>10, <1>12, StillIInv

\* Only the requests change, and what they hold is genuine.
LEMMA RequestsIInv ==
  ASSUME IInv, UNCHANGED <<now, stripe, session, row, paid, learnt, dunned, doubled>>,
         spent' \in 0..MaxSpent, events' \subseteq events,
         stale' = TRUE \/ (stale' = stale /\ \A e \in events \ events' : e.kind = "fetch"),
         req' \in [Requests -> ReqType], \A r \in Requests : req'[r] = req[r] \/ Holds(r)'
  PROVE  IInv'
<1>1. TypeOK /\ Types /\ GraceKept /\ RowGenuine /\ Told
  BY TypesAre DEF IInv
<1>2. \A t \in Subs : Live(t)' <=> Live(t)
  BY GenuineStays
<1>3. RowGenuine' /\ TrialKept'
  BY <1>1 DEF IInv, RowGenuine, TrialKept, Genuine, Made
<1>4. GraceKept'
  BY <1>1, <1>2 DEF GraceKept
<1>5. Told'
  <2>1. ASSUME ~stale', NEW s \in Subs, Live(s)
        PROVE  InStep(s)' \/ Event("updated", s, stripe'[s]) \in events'
    <3>1. InStep(s) \/ Event("updated", s, stripe[s]) \in events
      BY <1>1, <2>1 DEF Told
    <3>2. Event("updated", s, stripe[s]).kind = "updated"
      BY DEF Event
    <3> QED BY <2>1, <3>1, <3>2 DEF InStep
  <2> QED BY <1>2, <2>1 DEF Told
<1>6. OneAtATime'
  BY <1>2, OneStaysOpen
<1>7. ASSUME NEW t \in Subs PROVE Booked(t)'
  <2>1. Booked(t)
    BY DEF IInv
  <2> QED BY <2>1 DEF Booked, Genuine, Made
<1>8. TypeOK'
  <2>1. StripeTypes' /\ HistoryTypes' /\ now' \in 0..MaxTime /\ RowType'
    BY <1>1 DEF Types, StripeTypes, HistoryTypes, RowType
  <2>2. doubled' \in BOOLEAN
    BY <1>1 DEF Types, FlagTypes
  <2>3. stale' \in BOOLEAN
    <3>1. stale \in BOOLEAN
      BY <1>1 DEF Types, FlagTypes
    <3> QED BY <3>1, Zenon
  <2>4. Types'
    BY <2>1, <2>2, <2>3, Zenon DEF Types, FlagTypes
  <2> QED BY <2>4, TypesAre
<1> QED BY <1>3, <1>4, <1>5, <1>6, <1>7, <1>8, StillIInv

\* A snapshot that was read at Stripe for a request, or none.
LEMMA AskedTyped ==
  ASSUME TypeOK, NEW r \in Requests, NEW x, req' = [req EXCEPT ![r] = x], x \in ReqType
  PROVE  /\ req' \in [Requests -> ReqType] /\ req'[r] = x
         /\ \A q \in Requests \ {r} : req'[q] = req[q]
<1>1. req \in [Requests -> ReqType]
  BY DEF TypeOK, ReqType
<1> QED BY <1>1

LEMMA IdleTyped ==
  ASSUME NEW s \in Subs \union {0}, NEW x \in Snapshot, NEW for \in Purposes,
         NEW step \in Steps, NEW z \in Seen
  PROVE  /\ Idle \in ReqType /\ Goes(step, for) \in ReqType
         /\ [Goes(step, for) EXCEPT !.sub = s, !.snap = x] \in ReqType
         /\ [Goes(step, for) EXCEPT !.sub = s] \in ReqType
         /\ [Goes(step, for) EXCEPT !.seen = z] \in ReqType
         /\ [Idle EXCEPT !.step = "write", !.sub = s, !.snap = x] \in ReqType
         /\ [Idle EXCEPT !.step = "get", !.sub = s] \in ReqType
<1>1. Idle \in ReqType /\ {"write", "get"} \subseteq Steps
  BY NoSubTyped DEF ReqType, Idle, Purposes, Steps, Seen, Nothing
<1>2. Goes(step, for) \in ReqType
  BY <1>1 DEF Goes, ReqType
<1> QED BY <1>1, <1>2 DEF ReqType

\* The fields of a request that takes its next step.
LEMMA GoesFields ==
  ASSUME NEW step, NEW for
  PROVE  /\ Goes(step, for).step = step /\ Goes(step, for).for = for /\ Idle.step = "idle"
         /\ \A s, x : /\ [Goes(step, for) EXCEPT !.sub = s, !.snap = x].step = step
                     /\ [Goes(step, for) EXCEPT !.sub = s, !.snap = x].sub = s
                     /\ [Goes(step, for) EXCEPT !.sub = s, !.snap = x].snap = x
         /\ \A s : /\ [Goes(step, for) EXCEPT !.sub = s].step = step
                  /\ [Goes(step, for) EXCEPT !.sub = s].sub = s
         /\ \A z : /\ [Goes(step, for) EXCEPT !.seen = z].step = step
                  /\ [Goes(step, for) EXCEPT !.seen = z].for = for
BY DEF Goes, Idle

LEMMA WebhookIInv ==
  ASSUME IInv, NEW e \in events, handleStripeWebhookEvent(e)
  PROVE  IInv'
<1>1. TypeOK /\ Types /\ Carries(e)
  BY TypesAre DEF IInv
<1>2. e.sub \in Subs /\ e.snap \in Snapshot /\ Made(e.sub)
  BY <1>1 DEF TypeOK, Carries
<1>3. /\ events' = events \ {e} /\ events' \subseteq events
      /\ UNCHANGED <<now, stripe, session, spent, paid, doubled>>
  BY DEF handleStripeWebhookEvent
<1>4. spent' \in 0..MaxSpent /\ req \in [Requests -> ReqType]
  BY <1>1, <1>3 DEF Types
<1>5. CASE e.kind # "fetch" /\ Sync(e.sub, e.snap) /\ UNCHANGED <<req, dunned>>
  <2>1. Genuine(e.sub, e.snap)
    BY <1>1, <1>5 DEF Carries
  <2>2. req' \in [Requests -> ReqType] /\ UNCHANGED <<paid, dunned>>
    BY <1>3, <1>4, <1>5
  <2> DEFINE s == e.sub
  <2> DEFINE x == e.snap
  <2>3. s \in Subs /\ x \in Snapshot /\ Genuine(s, x) /\ Sync(s, x)
    BY <1>2, <1>5, <2>1
  <2> HIDE DEF s, x
  <2> QED BY <1>3, <1>4, <1>5, <2>2, <2>3, SyncIInv
<1>6. CASE /\ e.kind = "deleted" /\ row' = Freed /\ stale' = (stale \/ LiveSubs # {})
           /\ UNCHANGED <<learnt, req, dunned>>
  <2>1. ~stale' /\ LiveSubs # {} => events' = events
    BY <1>6
  <2>2. req' \in [Requests -> ReqType]
    BY <1>4, <1>6
  <2>3. stale' \in BOOLEAN
    <3>1. stale \in BOOLEAN
      BY <1>1 DEF Types, FlagTypes
    <3> QED BY <1>6, <3>1, Zenon
  <2>4. ~stale' => ~stale /\ row.sub \notin LiveSubs
    BY <1>6
  <2> QED BY <1>3, <1>4, <1>6, <2>1, <2>2, <2>3, <2>4, FreedIInv
<1>7. ASSUME NEW r \in Requests, syncInvoiceSubscription(r, e) PROVE IInv'
  <2> DEFINE x == [Idle EXCEPT !.step = "write", !.sub = e.sub, !.snap = stripe[e.sub]]
  <2>1. stripe[e.sub] \in Snapshot
    BY <1>1, <1>2, SnapFields
  <2>2. x \in ReqType
    <3>1. "none" \in Purposes /\ "idle" \in Steps /\ Nothing \in Seen
      BY DEF Purposes, Steps, Nothing, Seen
    <3> QED BY <1>2, <2>1, <3>1, IdleTyped
  <2>3. req' = [req EXCEPT ![r] = x] /\ e.kind = "fetch" /\ UNCHANGED <<row, learnt, stale, dunned>>
    BY <1>7 DEF syncInvoiceSubscription
  <2>4. x.step = "write" /\ x.sub = e.sub /\ x.snap = stripe[e.sub]
    BY DEF Idle
  <2> HIDE DEF x
  <2>5. req' \in [Requests -> ReqType] /\ req'[r] = x /\ \A q \in Requests \ {r} : req'[q] = req[q]
    BY <1>1, <2>2, <2>3, AskedTyped
  <2>6. Genuine(e.sub, stripe[e.sub])
    BY <1>2 DEF IInv, Booked
  <2>7. Holds(r)'
    BY <1>2, <1>3, <2>3, <2>4, <2>5, <2>6 DEF Holds, Genuine, Made
  <2>8. \A q \in Requests : req'[q] = req[q] \/ Holds(q)'
    BY <2>5, <2>7
  <2>9. \A d \in events \ events' : d.kind = "fetch"
    BY <1>3, <2>3
  <2> QED BY <1>3, <1>4, <2>3, <2>5, <2>8, <2>9, RequestsIInv
<1>8. syncSubscriptionEvent(e) \/ handleSubscriptionDeleted(e)
      \/ \E r \in Requests : syncInvoiceSubscription(r, e)
  BY DEF handleStripeWebhookEvent
<1>9. CASE syncSubscriptionEvent(e)
  BY <1>5, <1>9 DEF syncSubscriptionEvent
<1>10. CASE handleSubscriptionDeleted(e)
  <2>1. CASE e.snap.end > now
    <3>1. Sync(e.sub, e.snap) /\ e.kind = "deleted" /\ UNCHANGED <<req, dunned>>
      BY <1>10, <2>1 DEF handleSubscriptionDeleted
    <3> QED BY <1>5, <3>1
  <2>2. CASE ~(e.snap.end > now)
    <3>1. row' = Freed /\ stale' = (stale \/ LiveSubs # {}) /\ UNCHANGED learnt /\ e.kind = "deleted"
          /\ UNCHANGED <<req, dunned>>
      BY <1>10, <2>2, Zenon DEF handleSubscriptionDeleted
    <3> QED BY <1>6, <3>1
  <2> QED BY <2>1, <2>2
<1> QED BY <1>7, <1>8, <1>9, <1>10

LEMMA EventLostIInv ==
  ASSUME IInv, NEW e \in events, EventLost(e)
  PROVE  IInv'
<1>1. TypeOK /\ Types
  BY TypesAre DEF IInv
<1>2. /\ events' \subseteq events /\ stale' = TRUE
      /\ UNCHANGED <<now, stripe, session, row, req, paid, learnt, dunned, doubled>>
  BY DEF EventLost
<1>3. spent' \in 0..MaxSpent
  BY <1>1, SpendTyped DEF EventLost
<1>4. req' \in [Requests -> ReqType]
  BY <1>1, <1>2 DEF Types
<1> QED BY <1>2, <1>3, <1>4, RequestsIInv

-----------------------------------------------------------------------------
\* What a request holds after it has read the newest live subscription, or nothing.
LEMMA ReadsNewest ==
  ASSUME IInv, LiveSubs # {}
  PROVE  /\ Newest(LiveSubs) \in Subs /\ Live(Newest(LiveSubs))
         /\ stripe[Newest(LiveSubs)] \in Snapshot
         /\ Genuine(Newest(LiveSubs), stripe[Newest(LiveSubs)])
<1>1. LiveSubs \in SUBSET Subs
  BY DEF LiveSubs
<1>2. Newest(LiveSubs) \in LiveSubs
  BY <1>1, NewestIn
<1>3. Newest(LiveSubs) \in Subs /\ Live(Newest(LiveSubs))
  BY <1>2 DEF LiveSubs
<1>4. Made(Newest(LiveSubs)) /\ TypeOK
  BY <1>3 DEF Live, Made, IInv
<1> QED BY <1>3, <1>4, SnapFields DEF IInv, Booked

\* One request takes its step, and the others stay.
LEMMA OneHolds ==
  ASSUME IInv, NEW r \in Requests, NEW x \in ReqType, req' = [req EXCEPT ![r] = x],
         UNCHANGED <<stripe, paid, dunned>>,
         x.step \in {"write", "get"} => x.sub \in Subs /\ Made(x.sub),
         x.step = "write" => Genuine(x.sub, x.snap),
         x.step = "act" /\ x.for \in {"cancel", "resume"} => x.sub \in Subs
  PROVE  req' \in [Requests -> ReqType] /\ \A q \in Requests : req'[q] = req[q] \/ Holds(q)'
<1>1. TypeOK
  BY DEF IInv
<1>2. req' \in [Requests -> ReqType] /\ req'[r] = x /\ \A q \in Requests \ {r} : req'[q] = req[q]
  BY <1>1, AskedTyped
<1>3. Holds(r)'
  BY <1>2 DEF Holds, Genuine, Made
<1> QED BY <1>2, <1>3

\* What a request knows after it has read the row.
LEMMA ReadsTyped ==
  ASSUME TypeOK, NEW what \in {"cancel", "resume", "checkout"}, NEW q \in Reads(what) \union {ReadCheckout}
  PROVE  /\ q \in ReqType /\ q.step \notin {"write", "get"}
         /\ q.step = "act" /\ q.for \in {"cancel", "resume"} => q.sub \in Subs
<1>1. row.sub \in Subs \union {0} /\ row.trialEnd \in Nat
  BY RowFields
<1>2. /\ Nothing \in Seen /\ NoSub \in Snapshot
      /\ {"idle", "act", "select", "free", "norm"} \subseteq Steps
      /\ {"none", "cancel", "resume", "checkout"} \subseteq Purposes
  BY NoSubTyped DEF Nothing, Seen, Steps, Purposes
<1>3. CASE q = Idle
  <2>1. Idle \in ReqType
    BY <1>2, IdleTyped
  <2> QED BY <1>3, <2>1 DEF Idle
<1>4. ASSUME NEW t \in {"select", "free", "norm"}, NEW f \in {"cancel", "resume", "checkout"}, q = Goes(t, f)
      PROVE  q \in ReqType /\ q.step = t
  <2>1. t \in Steps /\ f \in Purposes
    BY <1>2
  <2> QED BY <1>2, <1>4, <2>1, IdleTyped, GoesFields
<1>5. ASSUME NEW f \in {"cancel", "resume"}, row.sub # 0, q = [Goes("act", f) EXCEPT !.sub = row.sub]
      PROVE  q \in ReqType /\ q.step = "act" /\ q.sub \in Subs
  <2>1. "act" \in Steps /\ f \in Purposes /\ row.sub \in Subs
    BY <1>1, <1>2, <1>5
  <2>2. q \in ReqType
    BY <1>2, <1>5, <2>1, IdleTyped
  <2>3. q.step = "act" /\ q.sub = row.sub
    BY <1>5 DEF Goes, Idle
  <2> QED BY <2>1, <2>2, <2>3
<1>6. CASE q = ReadCheckout /\ q # Idle
  <2> DEFINE t == IF Trialing THEN row.trialEnd ELSE 0
  <2> DEFINE p == IsPaid
  <2> DEFINE z == [trial |-> t, paid |-> p]
  <2>1. q = [Goes("act", "checkout") EXCEPT !.seen = z]
    BY <1>6 DEF ReadCheckout
  <2>2. z \in Seen
    <3>1. t \in Nat
      BY <1>1
    <3>2. p \in BOOLEAN
      BY <1>1 DEF IsPaid, ActivePaid, PastDueGrace, GracePeriod, CanceledWithRemainingAccess, Lasts
    <3> HIDE DEF t, p
    <3> QED BY <3>1, <3>2 DEF Seen
  <2> HIDE DEF z
  <2>3. q \in ReqType
    BY <1>2, <2>1, <2>2, IdleTyped
  <2>4. q.step = "act" /\ q.for = "checkout"
    BY <2>1 DEF Goes, Idle
  <2> QED BY <2>3, <2>4
<1>7. \/ q \in {Idle, ReadCheckout}
      \/ \E t \in {"select", "free", "norm"}, f \in {"cancel", "resume", "checkout"} : q = Goes(t, f)
      \/ \E f \in {"cancel", "resume"} : row.sub # 0 /\ q = [Goes("act", f) EXCEPT !.sub = row.sub]
  <2>1. q \in {ReadCancel, ReadResume, ReadCheckout, Goes("norm", "checkout")}
    BY DEF Reads
  <2> QED BY <2>1 DEF ReadCancel, ReadResume
<1> QED BY <1>3, <1>4, <1>5, <1>6, <1>7

LEMMA BeginIInv ==
  ASSUME IInv, NEW r \in Requests, NEW what \in {"view", "cancel", "resume", "checkout"}, Begin(r, what)
  PROVE  IInv'
<1>1. TypeOK /\ Types
  BY TypesAre DEF IInv
<1>2. UNCHANGED <<now, stripe, session, events, row, paid, learnt, dunned, doubled, stale>>
  BY DEF Begin, stripeVars, historyVars
<1>3. spent' \in 0..MaxSpent
  <2>1. spent' = spent \/ Spend
    BY DEF Begin
  <2> QED BY <1>1, <2>1, SpendTyped DEF Types
<1>4. what \in Purposes /\ "write" \in Steps /\ Nothing \in Seen
  BY DEF Purposes, Steps, Nothing, Seen
<1>5. events' \subseteq events /\ events \ events' = {}
  BY <1>2
<1>6. ASSUME LiveSubs # {},
             req' = [req EXCEPT ![r] = [Goes("write", what) EXCEPT
                       !.sub = Newest(LiveSubs), !.snap = stripe[Newest(LiveSubs)]]]
      PROVE  IInv'
  <2> DEFINE s == Newest(LiveSubs)
  <2> DEFINE x == [Goes("write", what) EXCEPT !.sub = s, !.snap = stripe[s]]
  <2>1. s \in Subs /\ stripe[s] \in Snapshot /\ Genuine(s, stripe[s])
    BY <1>6, ReadsNewest
  <2>2. req' = [req EXCEPT ![r] = x] /\ x.sub = s /\ x.snap = stripe[s] /\ x.step = "write"
    BY <1>6, GoesFields
  <2>3. x \in ReqType
    BY <1>4, <2>1, IdleTyped
  <2>4. Made(s)
    BY <2>1 DEF Genuine
  <2> HIDE DEF x
  <2>5. req' \in [Requests -> ReqType] /\ \A q \in Requests : req'[q] = req[q] \/ Holds(q)'
    BY <1>2, <2>1, <2>2, <2>3, <2>4, OneHolds
  <2> QED BY <1>2, <1>3, <1>5, <2>5, RequestsIInv
<1>7. ASSUME what # "view", NEW x \in Reads(what), req' = [req EXCEPT ![r] = x]
      PROVE  IInv'
  <2>1. /\ x \in ReqType /\ x.step \notin {"write", "get"}
        /\ x.step = "act" /\ x.for \in {"cancel", "resume"} => x.sub \in Subs
    BY <1>1, <1>7, ReadsTyped
  <2>2. req' \in [Requests -> ReqType] /\ \A q \in Requests : req'[q] = req[q] \/ Holds(q)'
    BY <1>2, <1>7, <2>1, OneHolds
  <2> QED BY <1>2, <1>3, <1>5, <2>2, RequestsIInv
<1> QED BY <1>6, <1>7 DEF Begin

LEMMA ReadRowIInv ==
  ASSUME IInv, NEW r \in Requests, ReadRow(r)
  PROVE  IInv'
<1>1. TypeOK /\ Types
  BY TypesAre DEF IInv
<1>2. UNCHANGED <<now, stripe, session, events, row, spent, paid, learnt, dunned, doubled, stale>>
  BY DEF ReadRow, stripeVars, historyVars
<1>3. PICK x \in IF req[r].step = "read" THEN Reads(req[r].for) ELSE {ReadCheckout} :
        req' = [req EXCEPT ![r] = x]
  BY DEF ReadRow
<1>4. \E what \in {"cancel", "resume", "checkout"} : x \in Reads(what) \union {ReadCheckout}
  BY <1>3 DEF Reads
<1>5. /\ x \in ReqType /\ x.step \notin {"write", "get"}
      /\ x.step = "act" /\ x.for \in {"cancel", "resume"} => x.sub \in Subs
  BY <1>1, <1>4, ReadsTyped
<1>6. req' \in [Requests -> ReqType] /\ \A q \in Requests : req'[q] = req[q] \/ Holds(q)'
  BY <1>2, <1>3, <1>5, OneHolds
<1>7. spent' \in 0..MaxSpent /\ events' \subseteq events /\ events \ events' = {}
  BY <1>1, <1>2 DEF Types
<1> QED BY <1>2, <1>6, <1>7, RequestsIInv

LEMMA WriteIInv ==
  ASSUME IInv, NEW r \in Requests, Write(r)
  PROVE  IInv'
<1>1. TypeOK /\ Types /\ Holds(r)
  BY TypesAre DEF IInv
<1>2. /\ req[r].step = "write" /\ Sync(req[r].sub, req[r].snap)
      /\ req' = [req EXCEPT ![r] = IF req[r].for \in {"cancel", "checkout"}
                                   THEN Goes("read", req[r].for) ELSE Idle]
      /\ UNCHANGED <<now, stripe, session, events, spent, paid, dunned, doubled>>
  BY DEF Write, stripeVars
<1>3. req[r].sub \in Subs /\ Genuine(req[r].sub, req[r].snap) /\ req[r].snap \in Snapshot
  BY <1>1, <1>2 DEF Holds, TypeOK
<1> DEFINE x == IF req[r].for \in {"cancel", "checkout"} THEN Goes("read", req[r].for) ELSE Idle
<1>4. x \in ReqType /\ x.step \in {"idle", "read"}
  <2>1. Nothing \in Seen /\ "read" \in Steps /\ {"cancel", "checkout"} \subseteq Purposes
    BY DEF Nothing, Seen, Steps, Purposes
  <2>2. Idle \in ReqType /\ \A f \in {"cancel", "checkout"} : Goes("read", f) \in ReqType
    BY <2>1, NoSubTyped, IdleTyped
  <2>3. Idle.step = "idle" /\ \A f \in {"cancel", "checkout"} : Goes("read", f).step = "read"
    BY GoesFields
  <2> QED BY <2>2, <2>3
<1>5. req' = [req EXCEPT ![r] = x]
  BY <1>2
<1> HIDE DEF x
<1>6. req' \in [Requests -> ReqType] /\ \A q \in Requests : req'[q] = req[q] \/ Holds(q)'
  BY <1>2, <1>4, <1>5, OneHolds
<1>7. spent' \in 0..MaxSpent /\ events' \subseteq events
  BY <1>1, <1>2 DEF Types
<1> DEFINE s == req[r].sub
<1> DEFINE snap == req[r].snap
<1>8. s \in Subs /\ snap \in Snapshot /\ Genuine(s, snap) /\ Sync(s, snap)
  BY <1>2, <1>3
<1> HIDE DEF s, snap
<1> QED BY <1>2, <1>6, <1>7, <1>8, SyncIInv

LEMMA ReadBackIInv ==
  ASSUME IInv, NEW r \in Requests, ReadBack(r)
  PROVE  IInv'
<1>1. TypeOK /\ Types /\ Holds(r)
  BY TypesAre DEF IInv
<1>2. /\ req[r].step = "get"
      /\ req' = [req EXCEPT ![r].step = "write", ![r].snap = stripe[req[r].sub]]
      /\ UNCHANGED <<now, stripe, session, events, row, spent, paid, learnt, dunned, doubled, stale>>
  BY DEF ReadBack, stripeVars, historyVars
<1>3. req[r].sub \in Subs /\ Made(req[r].sub)
  BY <1>1, <1>2 DEF Holds
<1>4. Genuine(req[r].sub, stripe[req[r].sub]) /\ stripe[req[r].sub] \in Snapshot
  BY <1>1, <1>3, SnapFields DEF IInv, Booked
<1> DEFINE x == [req[r] EXCEPT !.step = "write", !.snap = stripe[req[r].sub]]
<1>5. req \in [Requests -> ReqType] /\ req[r] \in ReqType
  BY <1>1 DEF Types
<1>6. x \in ReqType /\ x.step = "write" /\ x.sub = req[r].sub /\ x.snap = stripe[req[r].sub]
  BY <1>4, <1>5 DEF ReqType, Steps
<1>7. req' = [req EXCEPT ![r] = x]
  BY <1>2, <1>5
<1> HIDE DEF x
<1>8. req' \in [Requests -> ReqType] /\ \A q \in Requests : req'[q] = req[q] \/ Holds(q)'
  BY <1>2, <1>3, <1>4, <1>6, <1>7, OneHolds
<1>9. spent' \in 0..MaxSpent /\ events' \subseteq events /\ events \ events' = {}
  BY <1>1, <1>2 DEF Types
<1> QED BY <1>2, <1>8, <1>9, RequestsIInv

LEMMA RequestFailsIInv ==
  ASSUME IInv, NEW r \in Requests, RequestFails(r)
  PROVE  IInv'
<1>1. TypeOK /\ Types
  BY TypesAre DEF IInv
<1>2. /\ req' = [req EXCEPT ![r] = Idle]
      /\ UNCHANGED <<now, stripe, session, events, row, paid, learnt, dunned, doubled, stale>>
  BY DEF RequestFails, Ends, stripeVars, historyVars
<1>3. Idle \in ReqType /\ Idle.step = "idle"
  BY NoSubTyped DEF Idle, ReqType, Purposes, Steps, Seen, Nothing
<1>4. req' \in [Requests -> ReqType] /\ \A q \in Requests : req'[q] = req[q] \/ Holds(q)'
  BY <1>2, <1>3, OneHolds
<1>5. spent' \in 0..MaxSpent
  BY <1>1, SpendTyped DEF RequestFails
<1>6. events' \subseteq events /\ events \ events' = {}
  BY <1>2
<1> QED BY <1>2, <1>4, <1>5, <1>6, RequestsIInv

\* The row loses no more than a cancellation that a trial does not show, or becomes a
\* trial's without one; over a live subscription that is not in a trial, it is stale.
LEMMA CapeIInv ==
  ASSUME IInv, RowType',
         row'.end = row.end, row'.sub = row.sub,
         row'.trialEnd = row.trialEnd, row'.pastDue = row.pastDue,
         \/ row'.status = row.status /\ row'.cape = row.cape
         \/ row'.status = "trialing" /\ row'.cape = FALSE,
         stale' \in BOOLEAN,
         ~stale' => ~stale /\ (row'.status = row.status \/ row.sub \notin LiveSubs),
         UNCHANGED <<now, stripe, events, spent, paid, learnt, dunned>>,
         session' \in [Subs -> Nat], doubled' \in BOOLEAN, OneAtATime',
         req' \in [Requests -> ReqType], \A r \in Requests : req'[r] = req[r] \/ Holds(r)'
  PROVE  IInv'
<1>1. TypeOK /\ Types /\ GraceKept /\ RowGenuine /\ TrialKept /\ Told
  BY TypesAre DEF IInv
<1>2. \A t \in Subs : Live(t)' <=> Live(t)
  BY GenuineStays
<1>3. 0 \notin Subs /\ row.sub \in Subs \union {0} /\ row.cape \in BOOLEAN
  BY <1>1, RowFields
<1>4. RowGenuine'
  <2>1. CASE row.sub = 0
    BY <1>1, <2>1 DEF RowGenuine
  <2>2. CASE row.sub # 0
    <3>1. CASE row'.status = row.status /\ row'.cape = row.cape
      <4>1. row.status \in Statuses
            /\ (\/ Genuine(row.sub, [status |-> row.status, end |-> row.end, cape |-> row.cape])
                \/ row.status = "trialing" /\ ~row.cape)
        BY <1>1, <2>2 DEF RowGenuine
      <4>2. ASSUME Genuine(row.sub, [status |-> row.status, end |-> row.end, cape |-> row.cape])
            PROVE  Genuine(row.sub, [status |-> row.status, end |-> row.end, cape |-> row.cape])'
        BY <3>1, <4>2 DEF Genuine, Made
      <4> QED BY <2>2, <3>1, <4>1, <4>2 DEF RowGenuine
    <3>2. CASE row'.status = "trialing" /\ row'.cape = FALSE
      BY <2>2, <3>2 DEF RowGenuine, Statuses
    <3> QED BY <3>1, <3>2
  <2> QED BY <2>1, <2>2
<1>10. TrialKept'
  BY <1>1 DEF TrialKept
<1>5. GraceKept'
  <2>1. ~stale' => ~stale /\ (row'.status = row.status \/ row.sub \notin LiveSubs)
    OBVIOUS
  <2>2. ASSUME ~stale', NEW s \in Subs, learnt[s] # 0, Live(s)
        PROVE  row.sub = s /\ row'.status = "past_due"
    <3>1. row.sub = s /\ row.status = "past_due"
      BY <1>1, <2>1, <2>2 DEF GraceKept
    <3>2. row.sub \in LiveSubs
      BY <2>2, <3>1 DEF LiveSubs
    <3> QED BY <2>1, <2>2, <3>1, <3>2
  <2>3. row'.status = "past_due" => row.status = "past_due"
    OBVIOUS
  <2> QED BY <1>1, <1>2, <2>1, <2>2, <2>3 DEF GraceKept
<1>6. Told'
  <2>1. ASSUME ~stale', NEW s \in Subs, Live(s)
        PROVE  InStep(s)' \/ Event("updated", s, stripe[s]) \in events'
    <3>1. InStep(s) \/ Event("updated", s, stripe[s]) \in events
      BY <1>1, <2>1 DEF Told
    <3>2. ASSUME InStep(s) PROVE InStep(s)'
      <4>1. row'.status = row.status
        BY <2>1, <3>2 DEF InStep, LiveSubs
      <4>2. row'.cape = row.cape \/ stripe[s].status = "trialing"
        BY <3>2, <4>1 DEF InStep
      <4> QED BY <3>2, <4>1, <4>2 DEF InStep
    <3> QED BY <3>1, <3>2
  <2> QED BY <1>2, <2>1 DEF Told
<1>7. ASSUME NEW t \in Subs PROVE Booked(t)'
  <2>1. Booked(t)
    BY DEF IInv
  <2> QED BY <2>1 DEF Booked, Genuine, Made
<1>8. TypeOK'
  <2>1. StripeTypes' /\ HistoryTypes' /\ now' \in 0..MaxTime /\ spent' \in 0..MaxSpent
    BY <1>1 DEF Types, StripeTypes, HistoryTypes
  <2>3. Types'
    BY <2>1, Zenon DEF Types, FlagTypes
  <2> QED BY <2>3, TypesAre
<1>9. events' \subseteq events
  OBVIOUS
<1> QED BY <1>4, <1>5, <1>6, <1>7, <1>8, <1>9, <1>10, StillIInv

LEMMA EndsHolds ==
  ASSUME IInv, NEW r \in Requests, Ends(r), UNCHANGED <<stripe, paid, dunned>>
  PROVE  req' \in [Requests -> ReqType] /\ \A q \in Requests : req'[q] = req[q] \/ Holds(q)'
<1>1. Idle \in ReqType /\ Idle.step = "idle"
  BY NoSubTyped DEF Idle, ReqType, Purposes, Steps, Seen, Nothing
<1>2. req' = [req EXCEPT ![r] = Idle]
  BY DEF Ends
<1> QED BY <1>1, <1>2, OneHolds

\* The cancellation, or the resumption, of a subscription at Stripe.
LEMMA SetCapeIInv ==
  ASSUME IInv, NEW r \in Requests, NEW s \in Subs, NEW b \in BOOLEAN, SetCape(r, s, b)
  PROVE  IInv'
<1>1. /\ TypeOK /\ Types /\ Ordered
      /\ UNCHANGED <<now, session, row, spent, paid, learnt, doubled, stale>>
  BY TypesAre DEF IInv, SetCape
<1>2. s \in Subs /\ Booked(s)
  BY DEF IInv
<1>3. stripe[s] \in Snapshot /\ stripe[s].end \in Nat /\ paid[s] \in Nat
  BY <1>1, <1>2, SnapFields
<1>4. CASE ~Live(s)
  <2>1. Ends(r) /\ UNCHANGED <<stripe, events, dunned>>
    BY <1>4 DEF SetCape
  <2>2. req' \in [Requests -> ReqType] /\ \A q \in Requests : req'[q] = req[q] \/ Holds(q)'
    BY <1>1, <2>1, EndsHolds
  <2>3. events' \subseteq events /\ events \ events' = {} /\ spent' \in 0..MaxSpent
    BY <1>1, <2>1 DEF Types
  <2> QED BY <1>1, <2>1, <2>2, <2>3, RequestsIInv
<1>5. CASE Live(s)
  <2> DEFINE snap == [stripe[s] EXCEPT !.cape = b]
  <2> DEFINE more == {Event("updated", s, snap)}
  <2> DEFINE x == [Idle EXCEPT !.step = "get", !.sub = s]
  <2>1. /\ Change(s, snap, more) /\ req' = [req EXCEPT ![r] = x]
        /\ dunned' = (IF b /\ Overdue(s) THEN dunned \union {s} ELSE dunned)
    BY <1>5 DEF SetCape, Updates
  <2>2. snap \in Snapshot /\ snap.status = stripe[s].status /\ snap.end = stripe[s].end /\ snap.cape = b
    BY <1>3 DEF Snapshot
  <2>3. x \in ReqType /\ x.step = "get" /\ x.sub = s
    <3>1. "none" \in Purposes /\ "idle" \in Steps /\ Nothing \in Seen
      BY DEF Purposes, Steps, Nothing, Seen
    <3>2. x \in ReqType
      BY <3>1, NoSubTyped, IdleTyped
    <3> QED BY <3>2 DEF Idle
  <2>4. Made(s)
    BY <1>5 DEF Live, Made
  <2> HIDE DEF x, snap
  <2>5. \A t \in Subs : t < s => Made(t)
    BY <1>1, <1>2, <2>4 DEF Ordered
  <2>6. paid[s] <= stripe[s].end /\ Genuine(s, stripe[s])
    BY <1>2, <2>4 DEF Booked
  <2>7. more \in SUBSET EventType /\ \A e \in more : e.sub = s /\ (e.kind = "fetch" \/ e.snap = snap)
    BY <1>2, <2>2, TellsTyped
  <2>8. Event("updated", s, snap) \in more
    OBVIOUS
  <2> HIDE DEF more
  <2>9. stripe' = [stripe EXCEPT ![s] = snap] /\ stripe'[s] = snap
    BY <1>1, <1>2, <2>1 DEF Change, TypeOK
  <2>10. OneAtATime'
    <3>1. \A t \in Subs : Live(t)' => Live(t)
      BY <1>1, <1>5, <2>9 DEF TypeOK, Live
    <3> QED BY <1>1, <3>1, OneStaysOpen
  <2>11. req' \in [Requests -> ReqType] /\ req'[r] = x /\ \A q \in Requests \ {r} : req'[q] = req[q]
    BY <1>1, <2>1, <2>3, AskedTyped
  <2>12. stripe'[s].status # "none"
    BY <2>2, <2>4, <2>9 DEF Made
  <2>13. \A q \in Requests : req'[q] = req[q] \/ Holds(q)'
    BY <1>2, <2>3, <2>11, <2>12 DEF Holds, Made
  <2>14. paid' \in [Subs -> Nat] /\ paid' = paid /\ session' \in [Subs -> Nat]
    BY <1>1 DEF TypeOK
  <2>15. doubled' \in BOOLEAN
    BY <1>1 DEF Types, FlagTypes
  <2>16. /\ dunned' \subseteq Subs /\ (s \in dunned => s \in dunned')
         /\ \A t \in Subs \ {s} : t \in dunned <=> t \in dunned'
    BY <1>1, <1>2, <2>1 DEF TypeOK
  <2>17. stripe[s].end <= snap.end /\ paid[s] <= paid'[s] /\ paid'[s] <= snap.end
    BY <1>3, <2>2, <2>6, <2>14
  <2>18. /\ snap.status \in {"trialing", "active"} => snap.end <= paid'[s]
         /\ snap.status = "canceled" \/ (snap.status = "past_due" /\ snap.cape) =>
              snap.end <= paid'[s] \/ s \in dunned'
    BY <1>5, <2>1, <2>2, <2>6, <2>14 DEF Genuine, Live, Overdue
  <2>19. snap.status # "none"
    BY <2>2, <2>4 DEF Made
  <2> QED BY <1>1, <1>2, <1>5, <2>1, <2>2, <2>5, <2>7, <2>8, <2>10, <2>11, <2>13, <2>14, <2>15, <2>16,
             <2>17, <2>18, <2>19, ChangeIInv
<1> QED BY <1>4, <1>5

LEMMA CancelIInv ==
  ASSUME IInv, NEW r \in Requests, Cancel(r) \/ Resume(r)
  PROVE  IInv'
<1>1. PICK b \in BOOLEAN : SetCape(r, req[r].sub, b)
  BY DEF Cancel, Resume
<1>2. req[r].step = "act" /\ req[r].for \in {"cancel", "resume"} /\ Holds(r)
  BY DEF Cancel, Resume, IInv
<1>3. req[r].sub \in Subs
  BY <1>2 DEF Holds
<1> QED BY <1>1, <1>3, SetCapeIInv

\* The trial, or the free plan, is written over what the row has become.
LEMMA SelectTrialIInv ==
  ASSUME IInv, NEW r \in Requests, SelectTrial(r)
  PROVE  IInv'
<1>1. TypeOK /\ Types
  BY TypesAre DEF IInv
<1>2. /\ Ends(r) /\ row' = [row EXCEPT !.plan = "v1", !.status = "trialing", !.cape = FALSE]
      /\ stale' = (stale \/ (Overwrites /\ row.status # "trialing"))
      /\ UNCHANGED <<now, stripe, session, events, spent, paid, learnt, dunned, doubled>>
  BY DEF SelectTrial, stripeVars
<1>3. RowType'
  BY <1>1, <1>2 DEF Types, RowType, Statuses
<1>4. /\ row'.status = "trialing" /\ row'.cape = FALSE /\ row'.end = row.end /\ row'.sub = row.sub
      /\ row'.trialEnd = row.trialEnd /\ row'.pastDue = row.pastDue
  BY <1>1, <1>2 DEF Types, RowType
<1>5. stale' \in BOOLEAN
  <2>1. stale \in BOOLEAN
    BY <1>1 DEF Types, FlagTypes
  <2> QED BY <1>2, <2>1, Zenon
<1>6. ~stale' => ~stale /\ (row'.status = row.status \/ row.sub \notin LiveSubs)
  BY <1>2, <1>4 DEF Overwrites
<1>7. OneAtATime' /\ session' \in [Subs -> Nat]
  <2>1. \A t \in Subs : Live(t)' => Live(t)
    BY <1>2 DEF Live
  <2> QED BY <1>1, <1>2, <2>1, OneStaysOpen DEF TypeOK
<1>8. doubled' \in BOOLEAN
  BY <1>1, <1>2 DEF Types, FlagTypes
<1>9. req' \in [Requests -> ReqType] /\ \A q \in Requests : req'[q] = req[q] \/ Holds(q)'
  BY <1>2, EndsHolds
<1> QED BY <1>2, <1>3, <1>4, <1>5, <1>6, <1>7, <1>8, <1>9, CapeIInv

LEMMA SetFreeIInv ==
  ASSUME IInv, NEW r \in Requests, SetFree(r)
  PROVE  IInv'
<1>1. TypeOK /\ Types
  BY TypesAre DEF IInv
<1>2. /\ Ends(r) /\ row' = Freed /\ stale' = (stale \/ Overwrites)
      /\ UNCHANGED <<now, stripe, session, events, spent, paid, learnt, dunned, doubled>>
  BY DEF SetFree, stripeVars
<1>3. stale' \in BOOLEAN
  <2>1. stale \in BOOLEAN
    BY <1>1 DEF Types, FlagTypes
  <2> QED BY <1>2, <2>1, Zenon
<1>4. ~stale' => ~stale /\ row.sub \notin LiveSubs
  BY <1>2 DEF Overwrites
<1>5. req' \in [Requests -> ReqType] /\ \A q \in Requests : req'[q] = req[q] \/ Holds(q)'
  BY <1>2, EndsHolds
<1>6. events' \subseteq events /\ (~stale' /\ LiveSubs # {} => events' = events)
  BY <1>2
<1> QED BY <1>2, <1>3, <1>4, <1>5, <1>6, FreedIInv

\* A declined trial is put right before its checkout.
LEMMA NormalizeIInv ==
  ASSUME IInv, NEW r \in Requests, Normalize(r)
  PROVE  IInv'
<1>1. TypeOK /\ Types
  BY TypesAre DEF IInv
<1> DEFINE c == row.cape /\ row.status # "trialing"
<1>2. /\ row' = [row EXCEPT !.cape = c] /\ req' = [req EXCEPT ![r].step = "again"]
      /\ UNCHANGED <<now, stripe, session, events, spent, paid, learnt, dunned, doubled, stale>>
  <2>1. row' = [row EXCEPT !.cape = row.cape /\ row.status # "trialing"]
    BY <1>1 DEF Normalize, Types, RowType
  <2> QED BY <2>1 DEF Normalize, stripeVars, historyVars
<1>3. c \in BOOLEAN /\ (c = row.cape \/ (c = FALSE /\ row.status = "trialing"))
  <2>1. row.cape \in BOOLEAN
    BY <1>1, RowFields
  <2> QED BY <2>1
<1> HIDE DEF c
<1>4. RowType'
  BY <1>1, <1>2, <1>3 DEF Types, RowType
<1>5. /\ row'.status = row.status /\ row'.cape = c /\ row'.end = row.end /\ row'.sub = row.sub
      /\ row'.trialEnd = row.trialEnd /\ row'.pastDue = row.pastDue
  BY <1>1, <1>2 DEF Types, RowType
<1>6. stale' \in BOOLEAN
  BY <1>1, <1>2 DEF Types, FlagTypes
<1>7. OneAtATime' /\ session' \in [Subs -> Nat]
  <2>1. \A t \in Subs : Live(t)' => Live(t)
    BY <1>2 DEF Live
  <2> QED BY <1>1, <1>2, <2>1, OneStaysOpen DEF TypeOK
<1>8. doubled' \in BOOLEAN
  BY <1>1, <1>2 DEF Types, FlagTypes
<1>9. req' \in [Requests -> ReqType] /\ \A q \in Requests : req'[q] = req[q] \/ Holds(q)'
  <2> DEFINE x == [req[r] EXCEPT !.step = "again"]
  <2>1. req \in [Requests -> ReqType] /\ req[r] \in ReqType
    BY <1>1 DEF Types
  <2>2. x \in ReqType /\ x.step = "again"
    BY <2>1 DEF ReqType, Steps
  <2>3. req' = [req EXCEPT ![r] = x]
    BY <1>2, <2>1
  <2> HIDE DEF x
  <2> QED BY <1>2, <2>2, <2>3, OneHolds
<1> QED BY <1>2, <1>3, <1>4, <1>5, <1>6, <1>7, <1>8, <1>9, CapeIInv

\* A checkout that finds a live subscription, or that goes on to its session.
LEMMA CheckoutIInv ==
  ASSUME IInv, NEW r \in Requests, Checkout(r)
  PROVE  IInv'
<1>1. TypeOK /\ Types
  BY TypesAre DEF IInv
<1>2. /\ row' = [row EXCEPT !.customer = TRUE]
      /\ UNCHANGED <<now, stripe, session, events, spent, paid, learnt, dunned, doubled, stale>>
  BY DEF Checkout, stripeVars, historyVars
<1>3. RowType'
  BY <1>1, <1>2 DEF Types, RowType
<1>4. /\ row'.status = row.status /\ row'.cape = row.cape /\ row'.end = row.end /\ row'.sub = row.sub
      /\ row'.trialEnd = row.trialEnd /\ row'.pastDue = row.pastDue
  BY <1>1, <1>2 DEF Types, RowType
<1>5. stale' \in BOOLEAN
  BY <1>1, <1>2 DEF Types, FlagTypes
<1>6. OneAtATime' /\ session' \in [Subs -> Nat]
  <2>1. \A t \in Subs : Live(t)' => Live(t)
    BY <1>2 DEF Live
  <2> QED BY <1>1, <1>2, <2>1, OneStaysOpen DEF TypeOK
<1>7. doubled' \in BOOLEAN
  BY <1>1, <1>2 DEF Types, FlagTypes
<1>8. req \in [Requests -> ReqType] /\ req[r] \in ReqType
  BY <1>1 DEF Types
<1>9. req' \in [Requests -> ReqType] /\ \A q \in Requests : req'[q] = req[q] \/ Holds(q)'
  <2> DEFINE s == Newest(LiveSubs)
  <2> DEFINE opens == [req[r] EXCEPT !.step = "open"]
  <2> DEFINE reads == [Goes("write", "view") EXCEPT !.sub = s, !.snap = stripe[s]]
  <2> DEFINE x == IF LiveSubs = {} THEN opens ELSE IF req[r].seen.paid THEN Idle ELSE reads
  <2>1. req' = [req EXCEPT ![r] = x]
    BY <1>8 DEF Checkout
  <2>2. opens \in ReqType /\ opens.step = "open"
    BY <1>8 DEF ReqType, Steps
  <2>3. "view" \in Purposes /\ "write" \in Steps /\ Nothing \in Seen
    BY DEF Purposes, Steps, Nothing, Seen
  <2>4. Idle \in ReqType /\ Idle.step = "idle"
    BY NoSubTyped DEF Idle, ReqType, Purposes, Steps, Seen, Nothing
  <2>5. ASSUME LiveSubs # {}
        PROVE  /\ reads \in ReqType /\ reads.step = "write" /\ reads.sub \in Subs
               /\ Made(reads.sub) /\ Genuine(reads.sub, reads.snap)
    <3>1. s \in Subs /\ stripe[s] \in Snapshot /\ Genuine(s, stripe[s])
      BY <2>5, ReadsNewest
    <3>2. reads \in ReqType
      BY <2>3, <3>1, IdleTyped
    <3>3. reads.step = "write" /\ reads.sub = s /\ reads.snap = stripe[s]
      BY GoesFields
    <3> HIDE DEF reads, s
    <3> QED BY <3>1, <3>2, <3>3 DEF Genuine
  <2> HIDE DEF opens, reads
  <2>6. /\ x \in ReqType
        /\ x.step \in {"write", "get"} => x.sub \in Subs /\ Made(x.sub)
        /\ x.step = "write" => Genuine(x.sub, x.snap)
        /\ x.step # "act"
    BY <2>2, <2>4, <2>5
  <2> HIDE DEF x
  <2> QED BY <1>2, <2>1, <2>6, OneHolds
<1> QED BY <1>2, <1>3, <1>4, <1>5, <1>6, <1>7, <1>9, CapeIInv

\* A session is opened: it is the only one, and nobody is live, or it is a second one.
LEMMA OpenSessionIInv ==
  ASSUME IInv, NEW r \in Requests, OpenSession(r)
  PROVE  IInv'
<1>1. TypeOK /\ Types /\ OneAtATime
  BY TypesAre DEF IInv
<1>2. /\ Ends(r)
      /\ doubled' = (doubled \/ LiveSubs # {} \/ \E k \in Subs : session[k] # 0)
      /\ UNCHANGED <<now, stripe, events, row, spent, paid, learnt, dunned, stale>>
  BY DEF OpenSession
<1> DEFINE n == IF req[r].seen.trial > now THEN 1 + req[r].seen.trial ELSE 1
<1>3. PICK k \in Subs : session' = [session EXCEPT ![k] = n]
  BY DEF OpenSession
<1>4. session' \in [Subs -> Nat] /\ \A j \in Subs \ {k} : session'[j] = session[j]
  <2>1. n \in Nat
    BY <1>1 DEF Types, ReqType, Seen
  <2> HIDE DEF n
  <2> QED BY <1>1, <1>3, <2>1 DEF TypeOK
<1>5. OneAtATime'
  <2>1. ASSUME ~doubled' PROVE \A j \in Subs : session'[j] # 0 => j = k
    BY <1>2, <1>4, <2>1
  <2>2. ASSUME ~doubled' PROVE \A t \in Subs : ~Live(t)'
    BY <1>2, <2>2 DEF LiveSubs, Live
  <2> QED BY <2>1, <2>2 DEF OneAtATime
<1>6. doubled' \in BOOLEAN
  <2>1. doubled \in BOOLEAN
    BY <1>1 DEF Types, FlagTypes
  <2> QED BY <1>2, <2>1, Zenon
<1>7. RowType' /\ row' = row
  BY <1>1, <1>2 DEF Types, RowType
<1>8. stale' \in BOOLEAN /\ (~stale' => ~stale)
  BY <1>1, <1>2 DEF Types, FlagTypes
<1>9. req' \in [Requests -> ReqType] /\ \A q \in Requests : req'[q] = req[q] \/ Holds(q)'
  BY <1>2, EndsHolds
<1> QED BY <1>2, <1>4, <1>5, <1>6, <1>7, <1>8, <1>9, CapeIInv

-----------------------------------------------------------------------------
LEMMA NextIInv == IInv /\ [Next]_vars => IInv'
<1> SUFFICES ASSUME IInv, [Next]_vars PROVE IInv'
  OBVIOUS
<1>1. ASSUME NEW s \in Subs, CheckoutPaid(s) \/ Renew(s) \/ Recover(s) \/ StripeCancels(s)
      PROVE  IInv'
  BY <1>1, CheckoutPaidIInv, RenewIInv, RecoverIInv, StripeCancelsIInv
<1>2. ASSUME NEW e \in events, handleStripeWebhookEvent(e) \/ EventLost(e) PROVE IInv'
  BY <1>2, WebhookIInv, EventLostIInv
<1>3. ASSUME NEW r \in Requests, Works(r) \/ RequestFails(r) PROVE IInv'
  BY <1>3, WriteIInv, ReadRowIInv, SelectTrialIInv, SetFreeIInv, CancelIInv, ReadBackIInv,
     NormalizeIInv, CheckoutIInv, OpenSessionIInv, RequestFailsIInv DEF Works
<1>4. ASSUME NEW r \in Requests, NEW what \in {"view", "cancel", "resume", "checkout"}, Begin(r, what)
      PROVE  IInv'
  BY <1>4, BeginIInv
<1>5. CASE UNCHANGED vars
  <2>1. UNCHANGED <<now, stripe, session, events, row, req, spent, paid, learnt, dunned, doubled, stale>>
    BY <1>5 DEF vars, stripeVars, historyVars
  <2>2. TypeOK /\ Types
    BY TypesAre DEF IInv
  <2>3. spent' \in 0..MaxSpent /\ req' \in [Requests -> ReqType] /\ events' \subseteq events
        /\ events \ events' = {}
    BY <2>1, <2>2 DEF Types
  <2> QED BY <2>1, <2>3, RequestsIInv
<1> QED BY <1>1, <1>2, <1>3, <1>4, <1>5, TickIInv DEF Next, StripeDoes

\* Every state the program reaches is in order.
THEOREM Inductive == Spec => []IInv
<1> QED BY InitIInv, NextIInv, PTL DEF Spec

\* The variables keep their types.
THEOREM TypeCorrect == Spec => []TypeOK
<1>1. IInv => TypeOK
  BY DEF IInv
<1> QED BY <1>1, Inductive, PTL

-----------------------------------------------------------------------------
LEMMA PaidForInv == IInv => ProIsPaidFor
<1> SUFFICES ASSUME IInv, Pro PROVE ProIsPaidFor
  BY DEF ProIsPaidFor
<1>1. TypeOK /\ RowGenuine /\ TrialKept /\ GraceKept
  BY DEF IInv
<1>2. /\ row.end \in Nat /\ row.trialEnd \in Nat /\ row.pastDue \in Nat /\ row.cape \in BOOLEAN
      /\ row.status \in Statuses \union {"free"} /\ row.sub \in Subs \union {0}
      /\ now \in Nat /\ 0 \notin Subs /\ Trial \in Nat
  BY <1>1, RowFields
<1>5. ASSUME Trialing PROVE ProIsPaidFor
  <2>1. row.trialEnd > now
    BY <1>5 DEF Trialing
  <2>2. CASE row.trialEnd <= Trial
    BY <1>2, <1>5, <2>1, <2>2 DEF ProIsPaidFor
  <2>3. ASSUME NEW s \in Subs, row.trialEnd <= paid[s] PROVE ProIsPaidFor
    <3>1. paid[s] \in Nat
      BY <1>1, SnapFields
    <3>2. now < paid[s]
      BY <1>2, <2>1, <2>3, <3>1
    <3> QED BY <3>2 DEF ProIsPaidFor
  <2> QED BY <1>1, <2>2, <2>3 DEF TrialKept
<1>3. CASE row.sub = 0
  <2>1. row.status \in {"free", "trialing"} /\ ~row.cape
    BY <1>1, <1>3 DEF RowGenuine
  <2>2. ~IsPaid
    BY <2>1 DEF IsPaid, ActivePaid, PastDueGrace, GracePeriod, CanceledWithRemainingAccess
  <2>3. Trialing
    BY <2>2 DEF Pro
  <2> QED BY <1>5, <2>3
<1>4. CASE row.sub # 0
  <2> DEFINE s == row.sub
  <2>1. s \in Subs /\ paid[s] \in Nat /\ learnt[s] \in Nat /\ Grace \in Nat
    BY <1>1, <1>2, <1>4, SnapFields
  <2>2. /\ row.status \in Statuses
        /\ row.status = "active" => row.end <= paid[s]
        /\ row.status = "trialing" /\ row.cape => row.end <= paid[s]
        /\ row.status = "canceled" \/ (row.status = "past_due" /\ row.cape) =>
             row.end <= paid[s] \/ s \in dunned
        /\ row.status # "none"
    BY <1>1, <1>4 DEF RowGenuine, Genuine
  <2>3. CASE PastDueGrace
    <3>1. row.status = "past_due" /\ row.pastDue # 0 /\ row.pastDue - 1 + Grace > now
      BY <2>3 DEF PastDueGrace
    <3>2. ~stale => row.pastDue <= learnt[s]
      BY <1>1, <3>1 DEF GraceKept
    <3>3. ~stale => now < learnt[s] - 1 + Grace
      BY <1>2, <2>1, <3>1, <3>2
    <3> QED BY <2>3, <3>3 DEF ProIsPaidFor
  <2>5. CASE ActivePaid \/ GracePeriod \/ CanceledWithRemainingAccess
    <3>1. row.end > now /\ (row.status \in {"active", "canceled"} \/ row.cape)
      BY <2>5 DEF ActivePaid, GracePeriod, CanceledWithRemainingAccess, Lasts
    <3>2. row.end <= paid[s] \/ s \in dunned
      BY <2>2, <3>1 DEF Statuses
    <3>3. now < paid[s] \/ s \in dunned
      BY <1>2, <2>1, <3>1, <3>2
    <3> QED BY <2>1, <3>3 DEF ProIsPaidFor
  <2> QED BY <1>5, <2>3, <2>5 DEF Pro, IsPaid
<1> QED BY <1>3, <1>4

\* ProIsPaidFor: Pro is time that was paid or promised, the grace of a missed payment,
\* or a canceled subscription's unpaid period, whatever order its news came in.
THEOREM ProIsEarned == Spec => []ProIsPaidFor
BY PaidForInv, Inductive, PTL

\* OneLiveSubscription: two are live only where two sessions were open at a time, or one
\* was opened after a subscription had come.
THEOREM OneSubscription == Spec => []OneLiveSubscription
<1>1. IInv => OneLiveSubscription
  <2> SUFFICES ASSUME IInv, ~doubled
               PROVE  Cardinality({s \in Subs : Good(s) \/ Overdue(s)}) <= 1
    BY DEF OneLiveSubscription
  <2> DEFINE L == {s \in Subs : Good(s) \/ Overdue(s)}
  <2>1. \A s, t \in L : s = t
    BY DEF IInv, OneAtATime, Live, Good, Overdue
  <2>2. CASE L = {}
    BY <2>2, FS_EmptySet
  <2>3. CASE L # {}
    <3>1. PICK s \in L : L = {s}
      BY <2>1, <2>3
    <3>2. Cardinality(L) = 1
      <4> HIDE DEF L
      <4> QED BY <3>1, FS_Singleton
    <3> QED BY <3>2
  <2> QED BY <2>2, <2>3
<1> QED BY <1>1, Inductive, PTL

\* RowFollowsStripe: when all events are handled, none was lost or applied late, and no
\* request wrote over a live subscription, the row says what Stripe says of it.
THEOREM RowIsStripes == Spec => []RowFollowsStripe
<1>1. IInv => RowFollowsStripe
  <2> SUFFICES ASSUME IInv, Settled, NEW s \in Subs, Live(s)
               PROVE  InStep(s)
    BY DEF RowFollowsStripe, LiveSubs, InStep
  <2> QED BY DEF IInv, Told, Settled
<1> QED BY <1>1, Inductive, PTL
=============================================================================
