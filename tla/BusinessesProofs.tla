-------------------------- MODULE BusinessesProofs --------------------------
(***************************************************************************)
(* One user's businesses, for every number of requests, ids and slots: the *)
(* user keeps a business, the row that holds the subscription survives,    *)
(* and Stripe charges what succeeded, outside the races the flags record.  *)
(*                                                                         *)
(* The invariant follows a request from its read to its end.  The business *)
(* Stripe bills (Holder) is the anchor of whoever reads one, so a delete   *)
(* in flight either spares it or is still to move its row (KeepsHolder);   *)
(* a quantity that has been changed can be put back (Trusts); a room that  *)
(* was counted under the user's lock is still there (Room).                *)
(***************************************************************************)
EXTENDS Businesses, FiniteSetTheorems, WellFoundedInduction, TLAPS

\* The types, the flags apart.
Flags == overlapped \in BOOLEAN /\ midway \in BOOLEAN /\ bereft \in BOOLEAN /\
  strained \in BOOLEAN
Numbers ==
  /\ businesses \subseteq Ids /\ born \in 0..MaxIds /\ active \in Ids \union {0}
  /\ kind \in [Ids -> Kinds] /\ slots \in [Ids -> Nat]
  /\ quantity \in Nat /\ meta \in Nat /\ owner \in Ids \union {0}
  /\ events \subseteq Snapshot
  /\ opening \in Ids \union {0} /\ session \in Ids \union {0}
  /\ userLock \in Requests \union {None} /\ rowLock \in [Ids -> Requests \union {None}]
  /\ req \in [Requests -> Asked]
  /\ faults \in Nat /\ edits \in Nat /\ bought \in Nat

\* The ids given out; a user with a business has an active one; what is gone has no row.
Located ==
  /\ businesses \subseteq 1..born /\ owner <= born /\ session <= born /\ opening <= born
  /\ active \in businesses \/ (active = 0 /\ businesses = {})
Gone == \A b \in Ids : b \notin businesses => slots[b] = 0

\* Before there is a subscription nothing speaks of one.
Backed ==
  /\ owner # 0 => session = 0
  /\ owner = 0 => events = {} /\ \A b \in Ids : kind[b] # "stripe"

\* Which steps belong to which request, and what each of them has.
Shaped(r) ==
  /\ req[r].op = "none" <=> req[r].step = "idle"
  /\ req[r].op = "enter" <=> req[r].step = "enter"
  /\ req[r].op \in {"slots", "trial"} <=> req[r].step = "sync"
  /\ req[r].op = "create" => req[r].step \in {"lock", "commit"}
  /\ req[r].op = "provision" => req[r].step \in {"lock", "stripe", "row", "commit", "undo"}
  /\ req[r].op = "delete" =>
       req[r].step \in {"count", "successor", "begin", "stripe", "row", "commit", "undo"}
  /\ req[r].op = "delete" => req[r].target \in 1..born
  /\ req[r].op # "delete" => req[r].target = 0 /\ req[r].successor = 0
  /\ req[r].anchor <= born /\ req[r].successor <= born /\ req[r].undo.owner <= born
  /\ req[r].step \notin {"row", "commit", "undo"} => req[r].undo = NoUndo
  /\ req[r].op \notin {"delete", "provision"} => req[r].undo = NoUndo
  /\ req[r].step = "undo" => req[r].undo # NoUndo
  /\ req[r].undo # NoUndo => req[r].undo.owner # 0
  /\ owner = 0 => req[r].kind # "stripe" /\ req[r].undo = NoUndo
  /\ req[r].op = "create" => req[r].kind \in {"copy", "trial"}
  /\ MovesAnchor(r) /\ req[r].step \in {"stripe", "row", "commit"} => req[r].kind # "customer"
  /\ req[r].op \in {"create", "provision"} /\ req[r].step \in {"stripe", "row", "commit"} =>
       userLock = r

\* Rows that are locked are there, and are those the transaction is to write.
Locked(b) ==
  rowLock[b] # None =>
    LET r == rowLock[b] IN
    /\ b \in businesses /\ b = Billing(r)
    /\ \/ req[r].op = "delete" /\ req[r].step \in {"stripe", "row", "commit"}
       \/ req[r].op = "provision" /\ req[r].step = "commit"

\* One business holds the subscription, the one that Stripe names, for ever: as long as
\* no request crossed another, or no checkout crossed a delete and none took the last
\* business.
Orderly == ~midway /\ ~bereft
Reliable == ~strained \/ Orderly
Single ==
  Reliable =>
    /\ \A b \in Ids : kind[b] = "stripe" => b = owner
    /\ \A e \in events : e.business = owner
Billed(r) ==
  Reliable =>
    /\ req[r].kind = "stripe" => req[r].anchor = owner
    /\ req[r].undo # NoUndo =>
         req[r].undo.owner = owner /\ req[r].kind = "stripe" /\ ~MovesAnchor(r)

\* A delete that is alone spares one business.
Left == ~overlapped => businesses # {}
Spares(r) ==
  ~overlapped /\ req[r].op = "delete" =>
    /\ req[r].target \in businesses
    /\ req[r].step # "count" => businesses # {req[r].target}
    /\ \A s \in Requests : req[s].op = "delete" => s = r

\* The room that a creation has found is still there.
Room(r) ==
  req[r].op = "create" /\ req[r].step = "commit" => Cardinality(businesses) < req[r].max

\* The business that has, or is about to get, the subscription: it stays, and
\* the deletes in flight know it as the anchor.
Holder == IF owner # 0 THEN owner ELSE session
Standing ==
  Orderly /\ Holder # 0 =>
    /\ Holder \in businesses
    /\ \/ owner # 0 /\ kind[Holder] = "stripe"
       \/ (owner # 0 => events # {}) /\ kind[Holder] = "customer"
OneCustomer == Orderly => \A b \in Ids : kind[b] = "customer" => b = Holder
Opening ==
  Orderly /\ opening # 0 =>
    /\ opening \in businesses /\ (Holder # 0 => opening = Holder)
    /\ \A r \in Requests : req[r].op # "delete"
Early(r) ==  \* a delete that has not begun its transaction, and will not succeed
  /\ req[r].step \in {"count", "successor", "begin"}
  /\ req[r].step = "begin" => req[r].successor # 0
KeepsHolder(r) ==
  Orderly /\ Holder # 0 /\ req[r].op = "delete" =>
    /\ req[r].anchor = Holder
    /\ req[r].target = Holder => Early(r)

\* Nothing strained: one request at a time, and Stripe is where the last one that
\* succeeded left it, or where the one at work has set it.
Quiet ==
  ~strained =>
    /\ ~overlapped
    /\ \A r, s \in Requests : req[r].step # "idle" /\ req[s].step # "idle" => r = s
Level == quantity = bought /\ (Live \in events \/ slots[owner] = bought)
Stands ==
  ~strained /\ owner # 0 =>
    /\ quantity # 0 \/ meta = 0
    /\ owner \in businesses => kind[owner] = "stripe" \/ Live \in events
    /\ owner \notin businesses => quantity = 0 /\ bought = 0
    /\ (\A r \in Requests : req[r].undo = NoUndo) => Level
Trusts(r) ==
  ~strained /\ owner # 0 =>
    /\ req[r].undo # NoUndo =>
         /\ quantity = req[r].next /\ (Live \in events \/ slots[owner] = req[r].next)
         /\ req[r].undo.quantity = bought
    /\ req[r].op \in {"delete", "provision"} =>
         /\ req[r].anchor = owner => req[r].kind = "stripe" /\ kind[owner] = "stripe"
         /\ req[r].kind = "stripe" => owner \in businesses
         /\ owner \in businesses => req[r].anchor = owner
    /\ req[r].op = "delete" /\ req[r].target = owner => Early(r)
    /\ req[r].step \in {"row", "commit"} /\ req[r].kind = "stripe" /\ ~MovesAnchor(r) =>
         req[r].undo # NoUndo
    /\ req[r].op = "slots" => req[r].anchor = owner /\ req[r].next = bought /\
         owner \in businesses
    /\ req[r].op = "trial" => req[r].anchor # owner

Asks(r) == Shaped(r) /\ Billed(r) /\ Spares(r) /\ Room(r) /\ KeepsHolder(r) /\ Trusts(r)
IInv ==
  /\ TypeOK /\ Located /\ Gone /\ Backed /\ Single /\ Left /\ Standing /\ OneCustomer
  /\ Opening /\ Quiet /\ Stands
  /\ \A b \in Ids : Locked(b)
  /\ \A r \in Requests : Asks(r)

-----------------------------------------------------------------------------
\* A set of numbers that is not empty has a least one.
LEMMA LeastIn ==
  ASSUME NEW S \in SUBSET Nat, S # {}
  PROVE  \E n \in S : \A m \in S : n <= m
<1>1. PICK n \in S : \A m \in S : ~(<<m, n>> \in OpToRel(<, Nat))
  BY NatLessThanWellFounded, WFMin, Zenon
<1>2. \A m \in S : ~(m < n)
  BY <1>1, Zenon DEF OpToRel
<1> QED BY <1>2

\* The oldest of some businesses is one of them.
LEMMA OldestIn ==
  ASSUME NEW S \in SUBSET Ids
  PROVE  IF S = {} THEN Oldest(S) = 0 ELSE Oldest(S) \in S
<1> USE BusinessesConstants
<1>1. S # {} => \E n \in S : \A m \in S : n <= m
  BY LeastIn DEF Ids
<1> QED BY <1>1 DEF Oldest

\* Of any set, one comes first by rank and then by age.
LEMMA FirstIn ==
  ASSUME NEW S \in SUBSET Nat, S # {}, NEW f \in [S -> Nat]
  PROVE  \E a \in S : \A c \in S \ {a} : f[a] < f[c] \/ (f[a] = f[c] /\ a < c)
<1> DEFINE R == {f[b] : b \in S}
<1>1. R \subseteq Nat /\ R # {}
  OBVIOUS
<1>2. PICK n \in R : \A m \in R : n <= m
  <2> HIDE DEF R
  <2> QED BY <1>1, LeastIn
<1>3. n \in Nat /\ \A c \in S : n <= f[c]
  BY <1>1, <1>2
<1> DEFINE F == {b \in S : f[b] = n}
<1>4. F \subseteq Nat /\ F # {}
  BY <1>2
<1>5. PICK a \in F : \A b \in F : a <= b
  <2> HIDE DEF F
  <2> QED BY <1>4, LeastIn
<1>6. a \in S /\ f[a] = n
  OBVIOUS
<1>7. \A c \in S \ {a} : f[a] < f[c] \/ (f[a] = f[c] /\ a < c)
  <2> TAKE c \in S \ {a}
  <2>1. c \in Nat /\ n <= f[c] /\ f[c] \in Nat /\ a \in Nat
    BY <1>3, <1>6
  <2>2. f[c] = n => a <= c
    BY <1>5
  <2> QED BY <1>3, <1>6, <2>1, <2>2
<1> QED BY <1>6, <1>7

\* The anchor is one of the businesses, and none ranks before it.
LEMMA AnchorIn ==
  ASSUME TypeOK, businesses # {}
  PROVE  /\ Anchor \in businesses
         /\ \A c \in businesses : Rank(Anchor, active) <= Rank(c, active)
<1>1. businesses \in SUBSET Nat
  BY BusinessesConstants DEF TypeOK, Ids
<1>2. \A b \in businesses : Rank(b, active) \in Nat
  BY DEF Rank
<1> DEFINE f == [b \in businesses |-> Rank(b, active)]
<1>3. f \in [businesses -> Nat]
  BY <1>2
<1>4. PICK a \in businesses : \A c \in businesses \ {a} : f[a] < f[c] \/ (f[a] = f[c] /\ a < c)
  <2> HIDE DEF f
  <2> QED BY <1>1, <1>3, FirstIn
<1>5. \A c \in businesses \ {a} : \/ Rank(a, active) < Rank(c, active)
                                  \/ Rank(a, active) = Rank(c, active) /\ a < c
  <2> TAKE c \in businesses \ {a}
  <2>1. f[a] = Rank(a, active) /\ f[c] = Rank(c, active)
    OBVIOUS
  <2>2. f[a] < f[c] \/ (f[a] = f[c] /\ a < c)
    BY <1>4, Zenon
  <2> QED BY <2>1, <2>2, Zenon
<1>7. Anchor \in businesses /\ \A c \in businesses \ {Anchor} :
        \/ Rank(Anchor, active) < Rank(c, active)
        \/ Rank(Anchor, active) = Rank(c, active) /\ Anchor < c
  BY <1>5, Zenon DEF Anchor
<1>8. \A c \in businesses : Rank(Anchor, active) <= Rank(c, active)
  <2> TAKE c \in businesses
  <2> HIDE DEF f
  <2> QED BY <1>2, <1>7
<1> QED BY <1>7, <1>8

\* The row that has the subscription, or a customer, is the anchor.
LEMMA HolderIsAnchor ==
  ASSUME TypeOK, NEW h \in businesses, kind[h] \in {"stripe", "customer"},
         \A b \in Ids \ {h} : kind[b] # "stripe",
         kind[h] = "stripe" \/ \A b \in Ids \ {h} : kind[b] # "customer"
  PROVE  Anchor = h
<1>1. Anchor \in businesses /\ Rank(Anchor, active) <= Rank(h, active)
  BY AnchorIn
<1> QED BY <1>1 DEF Rank, TypeOK, Ids

-----------------------------------------------------------------------------
\* What a step makes of its request; the others are left alone.
Others(r) == \A q \in Requests \ {r} : req'[q] = req[q]
Becomes(r, s, o, t, a, u, k, m, n, z) ==
  /\ req' \in [Requests -> Asked] /\ Others(r)
  /\ req'[r].step = s /\ req'[r].op = o /\ req'[r].target = t /\ req'[r].anchor = a
  /\ req'[r].successor = u /\ req'[r].kind = k /\ req'[r].max = m /\ req'[r].next = n
  /\ req'[r].undo = z
StepsTo(r, s) ==
  Becomes(r, s, req[r].op, req[r].target, req[r].anchor, req[r].successor, req[r].kind,
          req[r].max, req[r].next, req[r].undo)
Ends(r) == Becomes(r, "idle", "none", 0, 0, 0, "none", 0, 0, NoUndo)

\* The types of the fields of a request.
LEMMA AskedFields ==
  ASSUME TypeOK, NEW r \in Requests
  PROVE  /\ req[r] \in Asked
         /\ req[r].step \in Steps
         /\ req[r].op \in {"none", "enter", "create", "provision", "delete", "slots", "trial"}
         /\ req[r].target \in Ids \union {0} /\ req[r].anchor \in Ids \union {0}
         /\ req[r].successor \in Ids \union {0} /\ req[r].kind \in Kinds
         /\ req[r].max \in Nat /\ req[r].next \in Nat
         /\ req[r].undo \in [quantity : Nat, owner : Ids \union {0}]
         /\ req[r].undo.quantity \in Nat /\ req[r].undo.owner \in Ids \union {0}
<1>1. req[r] \in Asked
  BY DEF TypeOK
<1> QED BY <1>1 DEF Asked

\* A Goto changes the step only.
LEMMA StepTo ==
  ASSUME TypeOK, NEW r \in Requests, NEW s \in Steps, Goto(r, s)
  PROVE  StepsTo(r, s)
<1>1. [req[r] EXCEPT !.step = s] \in Asked
  BY AskedFields DEF Asked
<1>2. req \in [Requests -> Asked]
  BY DEF TypeOK
<1>3. req' = [req EXCEPT ![r] = [req[r] EXCEPT !.step = s]]
  BY DEF Goto
<1>4. req' \in [Requests -> Asked] /\ Others(r) /\ req'[r] = [req[r] EXCEPT !.step = s]
  BY <1>1, <1>2, <1>3 DEF Others
<1>5. req[r] \in Asked
  BY AskedFields
<1> QED BY <1>4, <1>5 DEF StepsTo, Becomes, Asked

\* A request that ends is idle again.
LEMMA EndTo ==
  ASSUME TypeOK, NEW r \in Requests, req' = [req EXCEPT ![r] = Idle]
  PROVE  Ends(r)
<1>1. Idle \in Asked
  BY DEF Idle, NoUndo, Asked, Steps, Kinds
<1>2. req' \in [Requests -> Asked] /\ Others(r) /\ req'[r] = Idle
  BY <1>1 DEF TypeOK, Others
<1> QED BY <1>2 DEF Ends, Becomes, Idle

\* The locks of r are gone, those of the others are not.
Frees(r) ==
  /\ userLock' \in Requests \union {None} /\ (userLock # r => userLock' = userLock)
  /\ rowLock' \in [Ids -> Requests \union {None}]
  /\ \A c \in Ids : rowLock'[c] # None => rowLock'[c] = rowLock[c] /\ rowLock[c] # r

\* COMMIT and ROLLBACK free the locks of their request.
LEMMA Freed ==
  ASSUME TypeOK, NEW r \in Requests, Release(r)
  PROVE  Frees(r)
BY DEF TypeOK, Release, Frees

\* SELECT ... FOR UPDATE takes the lock of one row.
LEMMA Grabbed ==
  ASSUME TypeOK, NEW r \in Requests, NEW b \in Ids, Grab(r, b)
  PROVE  /\ rowLock' \in [Ids -> Requests \union {None}]
         /\ rowLock'[b] = r /\ \A c \in Ids \ {b} : rowLock'[c] = rowLock[c]
BY DEF TypeOK, Grab

\* ROLLBACK ends the request, or leaves it the compensation.
LEMMA RolledBack ==
  ASSUME TypeOK, NEW r \in Requests, Rollback(r)
  PROVE  IF req[r].undo = NoUndo THEN Ends(r) ELSE StepsTo(r, "undo")
<1>1. CASE req[r].undo = NoUndo
  BY <1>1, EndTo DEF Rollback, AfterRollback
<1>2. CASE req[r].undo # NoUndo
  <2>1. req' = [req EXCEPT ![r] = [req[r] EXCEPT !.step = "undo"]]
    BY <1>2 DEF Rollback, AfterRollback
  <2>2. Goto(r, "undo")
    BY <2>1 DEF Goto
  <2> QED BY <1>2, <2>2, StepTo DEF Steps
<1> QED BY <1>1, <1>2

\* The anchor is the holder, where there is one; a row is made for it.
Anchored ==
  /\ Anchor \in businesses /\ Anchor \in Ids
  /\ Orderly /\ Holder # 0 => Anchor = Holder
  /\ ~strained /\ events = {} /\ owner \in businesses => Anchor = owner
  /\ kind[Anchor] = "stripe" => owner # 0 /\ (Reliable => Anchor = owner)
Ensures(a) ==
  /\ kind' \in [Ids -> Kinds] /\ kind'[a] # "none" /\ kind'[a] = Ensured(a)[a]
  /\ \A c \in Ids : kind'[c] = kind[c] \/ (kind[c] = "none" /\ kind'[c] = "trial")

\* Who reads the anchor reads the business that holds the subscription.
LEMMA AnchorHeld ==
  ASSUME IInv, active \in businesses
  PROVE  Anchored
<1>1. TypeOK /\ businesses # {} /\ businesses \subseteq Ids
  BY DEF IInv, TypeOK
<1>2. Anchor \in businesses /\ Anchor \in Ids
  BY <1>1, AnchorIn
<1>3. kind[Anchor] = "stripe" => owner # 0 /\ (Reliable => Anchor = owner)
  BY <1>2 DEF IInv, Single, Backed
<1>4. ~strained /\ events = {} /\ owner \in businesses => Anchor = owner
  <2> SUFFICES ASSUME ~strained, events = {}, owner \in businesses PROVE Anchor = owner
    OBVIOUS
  <2>0. owner # 0
    BY <1>1, BusinessesConstants DEF Ids
  <2>1. kind[owner] = "stripe"
    BY <2>0 DEF IInv, Stands
  <2>2. \A b \in Ids \ {owner} : kind[b] # "stripe"
    BY DEF IInv, Single, Reliable
  <2> QED BY <1>1, <2>1, <2>2, HolderIsAnchor
<1>5. Orderly /\ Holder # 0 => Anchor = Holder
  <2> SUFFICES ASSUME Orderly, Holder # 0 PROVE Anchor = Holder
    OBVIOUS
  <2>1. Holder \in businesses /\ kind[Holder] \in {"stripe", "customer"}
    BY DEF IInv, Standing
  <2>2. \A b \in Ids \ {Holder} : kind[b] # "stripe"
    BY DEF IInv, Single, Reliable, Holder, Backed
  <2>3. \A b \in Ids \ {Holder} : kind[b] # "customer"
    BY DEF IInv, OneCustomer
  <2> QED BY <1>1, <2>1, <2>2, <2>3, HolderIsAnchor
<1> QED BY <1>2, <1>3, <1>4, <1>5 DEF Anchored

\* Ensuring a row makes at most one, a trial.
LEMMA EnsuredRow ==
  ASSUME TypeOK, NEW a \in Ids, kind' = Ensured(a)
  PROVE  Ensures(a)
<1>1. kind' = IF kind[a] = "none" THEN [kind EXCEPT ![a] = "trial"] ELSE kind
  BY DEF Ensured
<1>2. kind \in [Ids -> Kinds]
  BY DEF TypeOK
<1>3. kind' \in [Ids -> Kinds] /\ kind'[a] # "none"
  BY <1>1, <1>2 DEF Kinds
<1>4. \A c \in Ids : kind'[c] = kind[c] \/ (kind[c] = "none" /\ kind'[c] = "trial")
  BY <1>1, <1>2
<1> QED BY <1>3, <1>4 DEF Ensures

\* What a request finds when it begins.
LEMMA Began ==
  ASSUME IInv, NEW r \in Requests, NEW asked \in Asked, Begins(r, asked)
  PROVE  /\ req' \in [Requests -> Asked] /\ Others(r) /\ req'[r] = asked
         /\ Anchored /\ Ensures(Anchor)
         /\ kind'[Anchor] = "stripe" => owner # 0 /\ (Reliable => Anchor = owner)
<1>1. TypeOK /\ active \in businesses
  BY DEF IInv, Begins
<1>2. req' \in [Requests -> Asked] /\ Others(r) /\ req'[r] = asked
  BY <1>1 DEF TypeOK, Begins, Others
<1>3. Anchored /\ Anchor \in Ids
  BY <1>1, AnchorHeld DEF Anchored
<1>4. Ensures(Anchor)
  BY <1>1, <1>3, EnsuredRow DEF Begins
<1> QED BY <1>2, <1>3, <1>4 DEF Anchored, Ensures

\* The businesses are finitely many.
LEMMA SomeBusinesses ==
  ASSUME TypeOK
  PROVE  IsFiniteSet(businesses) /\ Cardinality(businesses) \in Nat
<1>1. IsFiniteSet(Ids)
  BY FS_Interval, BusinessesConstants DEF Ids
<1> QED BY <1>1, FS_Subset, FS_CardinalityType DEF TypeOK

IsOp(o) == o \in {"none", "enter", "create", "provision", "delete", "slots", "trial"}
\* What the parts of the invariant need of the types.
Typed ==
  /\ businesses \subseteq Ids /\ born \in 0..MaxIds
  /\ active \in Ids \union {0} /\ owner \in Ids \union {0}
  /\ opening \in Ids \union {0} /\ session \in Ids \union {0}
  /\ \A b \in Ids : rowLock[b] \in Requests \union {None} /\ kind[b] \in Kinds
  /\ \A r \in Requests : /\ req[r].max \in Nat /\ req[r].next \in Nat /\ IsOp(req[r].op)
                         /\ req[r].target \in Ids \union {0} /\ req[r].anchor \in Ids \union {0}
                         /\ req[r].successor \in Ids \union {0}

\* The types that the steps below need.
LEMMA WellTyped ==
  ASSUME TypeOK
  PROVE  Typed
<1>1. \A r \in Requests : /\ req[r].max \in Nat /\ req[r].next \in Nat /\ IsOp(req[r].op)
                         /\ req[r].target \in Ids \union {0} /\ req[r].anchor \in Ids \union {0}
                         /\ req[r].successor \in Ids \union {0}
  BY AskedFields DEF IsOp
<1> QED BY <1>1 DEF TypeOK, Typed

\* The next id is free, and comes after all others.
Fits(i) ==
  /\ i \in Ids /\ i \in 0..MaxIds /\ i \notin businesses
  /\ businesses \union {i} \subseteq Ids /\ businesses \union {i} \subseteq 1..i
  /\ owner <= i /\ session <= i /\ opening <= i /\ owner # i /\ session # i /\ opening # i
  /\ 1..born \subseteq 1..i /\ \A n \in Nat : n <= born => n <= i

\* The id of a new business is not in use anywhere.
LEMMA NextId ==
  ASSUME TypeOK, Located, born < MaxIds
  PROVE  Fits(born + 1)
BY BusinessesConstants DEF TypeOK, Located, Ids, Fits

-----------------------------------------------------------------------------
\* What most steps leave alone is as sound as it was.
Grows ==
  /\ overlapped => overlapped'
  /\ midway => midway'
  /\ bereft => bereft'
  /\ strained => strained'
Rows == Located /\ Gone /\ Backed /\ Single /\ Left /\ Standing /\ OneCustomer

\* The flags that only grow weaken what is promised.
LEMMA FlagsGrow ==
  ASSUME Grows
  PROVE  (Orderly' => Orderly) /\ (Reliable' => Reliable)
BY DEF Grows, Orderly, Reliable

\* No row, nothing at Stripe and no checkout is changed.
LEMMA RowsKept ==
  ASSUME IInv, UNCHANGED <<tableVars, stripeVars, checkoutVars>>, Grows
  PROVE  Rows'
<1> USE DEF tableVars, stripeVars, checkoutVars
<1>1. (Located /\ Gone /\ Backed)'
  BY DEF IInv, Located, Gone, Backed
<1>2. (Single /\ Left)'
  BY FlagsGrow DEF IInv, Single, Left, Grows
<1>3. (Standing /\ OneCustomer)'
  BY FlagsGrow DEF IInv, Standing, OneCustomer, Holder
<1> QED BY <1>1, <1>2, <1>3 DEF Rows

\* No delete begins while a checkout opens.
LEMMA OpeningKept ==
  ASSUME IInv, UNCHANGED <<businesses, owner, opening, session>>, Grows,
         \A q \in Requests : req'[q].op = "delete" => req[q].op = "delete"
  PROVE  Opening'
BY FlagsGrow DEF IInv, Opening, Holder

\* Who was quiet still is, when nobody begins.
LEMMA QuietKept ==
  ASSUME IInv, UNCHANGED overlapped, Grows,
         \A q \in Requests : req[q].step = "idle" => req'[q].step = "idle"
  PROVE  Quiet'
BY DEF IInv, Quiet, Grows

\* What Stripe has now.
LEMMA LiveKept ==
  ASSUME UNCHANGED <<quantity, meta, owner>>
  PROVE  Live' = Live
BY DEF Live, SlotsOf

\* What Stripe charges is what it did, unless a change is lost.
LEMMA StandsKept ==
  ASSUME IInv, UNCHANGED <<businesses, kind, slots, stripeVars>>, Grows,
         bought' = bought \/ strained',
         \A q \in Requests : req'[q].undo = NoUndo => req[q].undo = NoUndo \/ strained'
  PROVE  Stands'
<1>1. UNCHANGED <<quantity, meta, owner, events>> /\ Live' = Live
  BY LiveKept DEF stripeVars
<1> QED BY <1>1 DEF IInv, Stands, Level, Grows

\* The other requests see nothing of a step of r.
LEMMA OthersKept ==
  ASSUME IInv, NEW r \in Requests, Others(r),
         UNCHANGED <<businesses, born, slots, stripeVars, session>>, Grows,
         kind[owner] = "stripe" => kind'[owner] = "stripe",
         bought' = bought \/ strained',
         \A q \in Requests \ {r} : userLock = q => userLock' = q,
         req'[r].op = "delete" => req[r].op = "delete"
  PROVE  \A q \in Requests \ {r} : Asks(q)'
<1> TAKE q \in Requests \ {r}
<1>1. UNCHANGED <<quantity, meta, owner, events>> /\ Live' = Live /\ req'[q] = req[q]
  BY LiveKept DEF stripeVars, Others
<1>2. Asks(q)
  BY DEF IInv
<1>3. (Shaped(q) /\ Room(q))'
  BY <1>1, <1>2 DEF Asks, Shaped, Room, MovesAnchor
<1>4. (Billed(q) /\ KeepsHolder(q))'
  BY <1>1, <1>2, FlagsGrow DEF Asks, Billed, KeepsHolder, Early, MovesAnchor, Holder
<1>5. Spares(q)'
  BY <1>1, <1>2 DEF Asks, Spares, Others, Grows
<1>6. Trusts(q)'
  BY <1>1, <1>2 DEF Asks, Trusts, Early, MovesAnchor, Grows
<1> QED BY <1>3, <1>4, <1>5, <1>6 DEF Asks

\* A step of a request that changes neither a row nor Stripe.
LEMMA StepKeeps ==
  ASSUME IInv, TypeOK', NEW r \in Requests, req[r].step # "idle", Others(r),
         UNCHANGED <<tableVars, stripeVars, checkoutVars, overlapped>>, Grows,
         bought' = bought \/ strained',
         req'[r].op \in {req[r].op, "none"},
         req'[r].undo = NoUndo => req[r].undo = NoUndo \/ strained',
         \A q \in Requests \ {r} : userLock = q => userLock' = q,
         \A b \in Ids : Locked(b)', Asks(r)'
  PROVE  IInv'
<1> USE DEF tableVars, checkoutVars
<1>1. Rows'
  BY RowsKept
<1>2. Opening'
  BY OpeningKept DEF Others, stripeVars
<1>3. Quiet'
  BY QuietKept DEF Others
<1>4. Stands'
  BY StandsKept DEF Others
<1>5. \A q \in Requests \ {r} : Asks(q)'
  BY OthersKept
<1> QED BY <1>1, <1>2, <1>3, <1>4, <1>5 DEF IInv, Rows

\* An idle request has nothing to keep.
LEMMA IdleAsks ==
  ASSUME NEW r \in Requests, Ends(r), born' \in Nat
  PROVE  Asks(r)'
BY DEF Ends, Becomes, Asks, Shaped, Billed, Spares, Room, KeepsHolder, Trusts, MovesAnchor,
   NoUndo

\* The locks of the others stand when r ends or rolls back.
LEMMA LocksKept ==
  ASSUME IInv, NEW r \in Requests, Frees(r), Others(r), UNCHANGED businesses
  PROVE  /\ \A q \in Requests \ {r} : userLock = q => userLock' = q
         /\ \A b \in Ids : Locked(b)'
<1>1. \A q \in Requests \ {r} : userLock = q => userLock' = q
  BY DEF Frees
<1>2. \A b \in Ids : Locked(b)'
  <2> TAKE b \in Ids
  <2> SUFFICES ASSUME rowLock'[b] # None PROVE Locked(b)'
    BY DEF Locked
  <2>1. rowLock'[b] = rowLock[b] /\ rowLock[b] # r /\ rowLock[b] # None
    BY DEF Frees
  <2>2. rowLock[b] \in Requests
    BY <2>1 DEF IInv, TypeOK
  <2> QED BY <2>1, <2>2 DEF IInv, Locked, Billing, MovesAnchor, Others
<1> QED BY <1>1, <1>2

-----------------------------------------------------------------------------
\* The lock of the user, and the count under it.
LEMMA LockUserKeeps ==
  ASSUME IInv, NEW r \in Requests, LockUser(r)
  PROVE  IInv'
<1> USE BusinessesConstants
<1>0. TypeOK /\ Typed /\ Asks(r)
  BY WellTyped DEF IInv
<1>1. /\ UNCHANGED <<tableVars, stripeVars, checkoutVars, rowLock, faults, edits, historyVars>>
      /\ req[r].step = "lock" /\ req[r].op \in {"create", "provision"} /\ req[r].undo = NoUndo
  BY <1>0 DEF LockUser, Asks, Shaped, Typed, IsOp
<1>2. \/ Ends(r) /\ UNCHANGED userLock
      \/ req[r].op = "create" /\ StepsTo(r, "commit") /\ userLock = None /\ userLock' = r
           /\ ~(Cardinality(businesses) >= req[r].max)
      \/ /\ req[r].op # "create" /\ userLock = None /\ userLock' = r
         /\ Becomes(r, "stripe", req[r].op, req[r].target, req[r].anchor, req[r].successor,
              req[r].kind, req[r].max, Cardinality(businesses), req[r].undo)
  <2>1. CASE req[r].op = "create" /\ Cardinality(businesses) >= req[r].max
    <3>1. req' = [req EXCEPT ![r] = Idle] /\ UNCHANGED userLock
      BY <2>1 DEF LockUser
    <3> QED BY <1>0, <2>1, <3>1, EndTo
  <2>2. CASE req[r].op = "create" /\ ~(Cardinality(businesses) >= req[r].max)
    BY <1>0, <2>2, StepTo DEF LockUser, LockFree, Steps
  <2>3. CASE req[r].op # "create"
    <3>1. Cardinality(businesses) \in Nat
      BY <1>0, SomeBusinesses
    <3>2. [req[r] EXCEPT !.step = "stripe", !.next = Cardinality(businesses)] \in Asked
      BY <1>0, <3>1, AskedFields DEF Asked, Steps
    <3>3. req' = [req EXCEPT ![r] = [req[r] EXCEPT !.step = "stripe",
            !.next = Cardinality(businesses)]]
      BY <2>3 DEF LockUser
    <3>4. req[r] \in Asked
      BY <1>0, AskedFields
    <3>5. req' \in [Requests -> Asked] /\ Others(r)
          /\ req'[r] = [req[r] EXCEPT !.step = "stripe", !.next = Cardinality(businesses)]
      BY <1>0, <3>2, <3>3 DEF TypeOK, Others
    <3> QED BY <2>3, <3>4, <3>5 DEF LockUser, LockFree, Becomes, Asked
  <2> QED BY <2>1, <2>2, <2>3
<1>3. Cardinality(businesses) \in Nat
  BY <1>0, SomeBusinesses
<1> USE DEF Becomes, StepsTo, Ends, tableVars, stripeVars, checkoutVars, historyVars
<1>4. TypeOK'
  BY <1>0, <1>1, <1>2 DEF TypeOK
<1>5. Others(r) /\ Grows /\ bought' = bought /\ req'[r].op \in {req[r].op, "none"}
      /\ req'[r].undo = NoUndo
  BY <1>1, <1>2 DEF Grows
<1>6. \A b \in Ids : Locked(b)'
  BY <1>0, <1>1, <1>5 DEF IInv, Locked, Billing, MovesAnchor, Others, Typed
<1>7. Asks(r)'
  <2>1. CASE Ends(r)
    BY <1>0, <1>1, <2>1, IdleAsks DEF Typed
  <2>2. CASE ~Ends(r)
    BY <1>0, <1>1, <1>2, <1>3, <2>2 DEF Asks, Shaped, MovesAnchor, Billed, Spares, Room,
       KeepsHolder, Trusts, Typed, Reliable, Orderly, Live
  <2> QED BY <2>1, <2>2
<1>8. \A q \in Requests \ {r} : userLock = q => userLock' = q
  BY <1>2
<1> QED BY <1>1, <1>4, <1>5, <1>6, <1>7, <1>8, StepKeeps

\* A delete counts the businesses, and stops when there is one.
LEMMA CountBusinessesKeeps ==
  ASSUME IInv, NEW r \in Requests, CountBusinesses(r)
  PROVE  IInv'
<1> USE BusinessesConstants
<1>0. TypeOK /\ Typed /\ Asks(r)
  BY WellTyped DEF IInv
<1>1. /\ UNCHANGED <<tableVars, stripeVars, checkoutVars, lockVars, faults, edits, historyVars>>
      /\ req[r].step = "count" /\ req[r].op = "delete" /\ req[r].undo = NoUndo
  BY <1>0 DEF CountBusinesses, Asks, Shaped, Typed, IsOp
<1>2. \/ Ends(r)
      \/ /\ Deletable
         /\ Becomes(r, "successor", req[r].op, req[r].target, req[r].anchor, req[r].successor,
              req[r].kind, req[r].max, NextSlots, req[r].undo)
  <2>1. CASE ~Deletable
    <3>1. req' = [req EXCEPT ![r] = Idle]
      BY <2>1 DEF CountBusinesses
    <3> QED BY <1>0, <3>1, EndTo
  <2>2. CASE Deletable
    <3>1. NextSlots \in Nat
      BY <1>0, SomeBusinesses DEF NextSlots, Minus
    <3>2. req[r] \in Asked
      BY <1>0, AskedFields
    <3>3. [req[r] EXCEPT !.step = "successor", !.next = NextSlots] \in Asked
      BY <3>1, <3>2 DEF Asked, Steps
    <3>4. req' = [req EXCEPT ![r] = [req[r] EXCEPT !.step = "successor", !.next = NextSlots]]
      BY <2>2 DEF CountBusinesses
    <3>5. req' \in [Requests -> Asked] /\ Others(r)
          /\ req'[r] = [req[r] EXCEPT !.step = "successor", !.next = NextSlots]
      BY <1>0, <3>3, <3>4 DEF TypeOK, Others
    <3> QED BY <2>2, <3>2, <3>5 DEF Becomes, Asked
  <2> QED BY <2>1, <2>2
<1>3. Deletable => businesses # {req[r].target}
  <2>1. Cardinality({req[r].target}) = 1
    BY FS_Singleton
  <2> QED BY <2>1 DEF Deletable
<1> USE DEF Becomes, Ends, tableVars, stripeVars, checkoutVars, historyVars, lockVars
<1>4. TypeOK'
  BY <1>0, <1>1, <1>2 DEF TypeOK
<1>5. Others(r) /\ Grows /\ bought' = bought /\ req'[r].op \in {req[r].op, "none"}
      /\ req'[r].undo = NoUndo
  BY <1>1, <1>2 DEF Grows
<1>6. \A b \in Ids : Locked(b)'
  BY <1>0, <1>1, <1>5 DEF IInv, Locked, Billing, MovesAnchor, Others, Typed
<1>7. Asks(r)'
  <2>1. CASE Ends(r)
    BY <1>0, <1>1, <2>1, IdleAsks DEF Typed
  <2>2. CASE ~Ends(r)
    <3>1. Spares(r)'
      BY <1>0, <1>1, <1>2, <1>3, <2>2 DEF Asks, Spares, Others
    <3>2. (Shaped(r) /\ Billed(r) /\ Room(r) /\ KeepsHolder(r) /\ Trusts(r))'
      BY <1>0, <1>1, <1>2, <2>2 DEF Asks, Shaped, MovesAnchor, Billed, Room,
         KeepsHolder, Early, Holder, Trusts, Typed, Reliable, Orderly, Live
    <3> QED BY <3>1, <3>2 DEF Asks
  <2> QED BY <2>1, <2>2
<1> QED BY <1>1, <1>4, <1>5, <1>6, <1>7, StepKeeps

\* A delete finds the successor: there is one, or the history says that there was none.
LEMMA FindSuccessorKeeps ==
  ASSUME IInv, NEW r \in Requests, FindSuccessor(r)
  PROVE  IInv'
<1> USE BusinessesConstants
<1>0. TypeOK /\ Typed /\ Asks(r)
  BY WellTyped DEF IInv
<1>1. /\ UNCHANGED <<tableVars, stripeVars, checkoutVars, lockVars, faults, edits, overlapped,
           midway, bought, strained>>
      /\ req[r].step = "successor" /\ req[r].op = "delete" /\ req[r].undo = NoUndo
  BY <1>0 DEF FindSuccessor, Asks, Shaped, Typed, IsOp
<1>2. PICK u \in Ids \union {0} :
        /\ u \in businesses \/ (u = 0 /\ businesses \ {req[r].target} = {})
        /\ Becomes(r, "begin", req[r].op, req[r].target, req[r].anchor, u,
             req[r].kind, req[r].max, req[r].next, req[r].undo)
  <2> DEFINE others == businesses \ {req[r].target}
             u == IF req[r].successor \in others THEN req[r].successor ELSE Oldest(others)
  <2>1. others \in SUBSET Ids
    BY <1>0 DEF Typed
  <2>2. IF others = {} THEN Oldest(others) = 0 ELSE Oldest(others) \in others
    BY <2>1, OldestIn
  <2>3. u \in Ids \union {0} /\ (u \in businesses \/ (u = 0 /\ others = {}))
    BY <2>1, <2>2
  <2>4. req[r] \in Asked
    BY <1>0, AskedFields
  <2>5. req' = [req EXCEPT ![r] = [req[r] EXCEPT !.step = "begin", !.successor = u]]
    BY <1>0, <2>4 DEF FindSuccessor, TypeOK, Asked
  <2> HIDE DEF u, others
  <2>6. [req[r] EXCEPT !.step = "begin", !.successor = u] \in Asked
    BY <2>3, <2>4 DEF Asked, Steps
  <2>7. req' \in [Requests -> Asked] /\ Others(r)
        /\ req'[r] = [req[r] EXCEPT !.step = "begin", !.successor = u]
    BY <1>0, <2>5, <2>6 DEF TypeOK, Others
  <2>8. Becomes(r, "begin", req[r].op, req[r].target, req[r].anchor, u,
             req[r].kind, req[r].max, req[r].next, req[r].undo)
    BY <2>4, <2>7 DEF Becomes, Asked
  <2> QED BY <2>3, <2>8 DEF others
<1>3. bereft' \in BOOLEAN /\ (bereft => bereft')
      /\ (u = 0 => bereft' /\ (businesses = {} \/ businesses = {req[r].target}))
  <2>1. bereft' = (bereft \/ businesses \ {req[r].target} = {})
    BY DEF FindSuccessor
  <2>2. u = 0 => businesses \ {req[r].target} = {}
    BY <1>0, <1>2 DEF Typed, Ids
  <2>3. bereft' \in BOOLEAN /\ (bereft => bereft')
    BY <1>0, <2>1, Zenon DEF TypeOK
  <2>4. u = 0 => bereft'
    BY <2>1, <2>2, Zenon
  <2>5. u = 0 => businesses = {} \/ businesses = {req[r].target}
    BY <2>2
  <2> QED BY <2>3, <2>4, <2>5
<1>4. u <= born /\ (u = 0 => overlapped)
  <2>0. born \in Nat /\ businesses \subseteq 1..born
    BY <1>0 DEF IInv, Located, Typed
  <2>1. u <= born
    <3>1. u \in 1..born \/ u = 0
      BY <1>2, <2>0, Zenon
    <3> QED BY <2>0, <3>1
  <2>2. u = 0 => overlapped
    BY <1>0, <1>1, <1>3 DEF IInv, Left, Asks, Spares
  <2> QED BY <2>1, <2>2
<1> USE DEF Becomes, tableVars, stripeVars, checkoutVars, historyVars, lockVars
<1>5. TypeOK'
  <2>1. Numbers'
    BY <1>0, <1>1, <1>2 DEF TypeOK, Numbers
  <2>2. (bereft \in BOOLEAN)' /\ overlapped' = overlapped /\ midway' = midway /\ strained' = strained
    BY <1>1, <1>3
  <2>3. Flags'
    BY <1>0, <2>2, Zenon DEF TypeOK, Flags
  <2> QED BY <2>1, <2>3, Zenon DEF TypeOK, Flags, Numbers
<1>6. Others(r) /\ Grows /\ req'[r].op = req[r].op
  BY <1>1, <1>2, <1>3 DEF Grows
<1>7. \A b \in Ids : Locked(b)'
  BY <1>0, <1>1, <1>6 DEF IInv, Locked, Billing, MovesAnchor, Others, Typed
<1>8. Live' = Live
  BY <1>1, LiveKept
<1>9. Asks(r)'
  <2>1. Spares(r)'
    BY <1>0, <1>1, <1>2 DEF Asks, Spares, Others
  <2>2. (Shaped(r) /\ Room(r))'
    BY <1>0, <1>1, <1>2, <1>4 DEF Asks, Shaped, MovesAnchor, Room, Typed
  <2>3. (Billed(r) /\ KeepsHolder(r))'
    BY <1>0, <1>1, <1>2, <1>3, <1>6, FlagsGrow DEF Asks, Billed, KeepsHolder, Early, Holder,
       Orderly
  <2>4. Trusts(r)'
    BY <1>0, <1>1, <1>2, <1>4, <1>8 DEF IInv, Asks, Trusts, Early, Quiet
  <2> QED BY <2>1, <2>2, <2>3, <2>4 DEF Asks
<1> QED BY <1>1, <1>2, <1>5, <1>6, <1>7, <1>9, StepKeeps

\* ROLLBACK, for any of its reasons; Stripe may be left to set back.
LEMMA RollbackKeeps ==
  ASSUME IInv, NEW r \in Requests, req[r].step \in {"begin", "stripe", "row", "commit"},
         Rollback(r), faults' \in Nat
  PROVE  IInv'
<1> USE BusinessesConstants
<1>0. TypeOK /\ Typed /\ Asks(r)
  BY WellTyped DEF IInv
<1>1. IF req[r].undo = NoUndo THEN Ends(r) ELSE StepsTo(r, "undo")
  BY <1>0, RolledBack
<1>2. Frees(r)
  BY <1>0, Freed DEF Rollback
<1>3. /\ UNCHANGED <<tableVars, stripeVars, checkoutVars, edits, historyVars>>
      /\ Live' = Live
  BY LiveKept DEF Rollback, stripeVars
<1> USE DEF Becomes, StepsTo, Ends, tableVars, stripeVars, checkoutVars, historyVars
<1>4. TypeOK'
  BY <1>0, <1>1, <1>2, <1>3 DEF TypeOK, Frees
<1>5. Others(r) /\ Grows /\ bought' = bought /\ req'[r].op \in {req[r].op, "none"}
      /\ (req'[r].undo = NoUndo => req[r].undo = NoUndo)
  BY <1>1, <1>3 DEF Grows
<1>6. /\ \A q \in Requests \ {r} : userLock = q => userLock' = q
      /\ \A b \in Ids : Locked(b)'
  BY <1>2, <1>3, <1>5, LocksKept
<1>7. Asks(r)'
  <2>1. CASE Ends(r)
    BY <1>0, <1>3, <2>1, IdleAsks DEF Typed
  <2>2. CASE ~Ends(r)
    <3>1. StepsTo(r, "undo") /\ req[r].undo # NoUndo /\ Others(r)
      BY <1>1, <1>5, <2>2
    <3>2. req[r].op \in {"delete", "provision"}
      BY <1>0, <3>1 DEF Asks, Shaped, Typed, IsOp
    <3>3. (Spares(r) /\ Room(r))'
      BY <1>0, <1>3, <3>1 DEF Asks, Spares, Room, Others
    <3>4. (Shaped(r) /\ Billed(r))'
      BY <1>0, <1>3, <3>1, <3>2 DEF Asks, Shaped, MovesAnchor, Billed, Reliable, Orderly
    <3>5. (KeepsHolder(r) /\ Trusts(r))'
      BY <1>0, <1>3, <3>1, <3>2 DEF Asks, MovesAnchor, KeepsHolder, Shaped, Early, Holder,
         Trusts, Orderly
    <3> QED BY <3>3, <3>4, <3>5 DEF Asks
  <2> QED BY <2>1, <2>2
<1> QED BY <1>3, <1>4, <1>5, <1>6, <1>7, StepKeeps

\* A request whose snapshot has no subscription, or nobody to move it to, skips the call.
LEMMA NoStripeKeeps ==
  ASSUME IInv, NEW r \in Requests, NoStripe(r)
  PROVE  IInv'
<1> USE BusinessesConstants
<1>0. TypeOK /\ Typed /\ Asks(r)
  BY WellTyped DEF IInv
<1>1. StepsTo(r, AfterStripe(r))
  BY <1>0, StepTo DEF NoStripe, AfterStripe, Steps
<1>2. /\ UNCHANGED <<tableVars, stripeVars, checkoutVars, lockVars, faults, edits, historyVars>>
      /\ req[r].step = "stripe" /\ req[r].undo = NoUndo /\ req[r].op \in {"delete", "provision"}
      /\ Live' = Live
  BY <1>0, LiveKept DEF NoStripe, stripeVars, Asks, Shaped, Typed, IsOp
<1>3. AfterStripe(r) \in {"row", "commit"} /\ (req[r].op # "delete" => AfterStripe(r) = "row")
  BY DEF AfterStripe
<1>4. req[r].kind # "stripe" \/ NextBilling(r) = 0
  BY <1>2 DEF NoStripe, CallsStripe
<1> USE DEF Becomes, StepsTo, tableVars, stripeVars, checkoutVars, lockVars, historyVars
<1>5. TypeOK'
  BY <1>0, <1>1, <1>2 DEF TypeOK
<1>6. Others(r) /\ Grows /\ bought' = bought /\ req'[r].op = req[r].op
  BY <1>1, <1>2 DEF Grows
<1>7. \A b \in Ids : Locked(b)'
  BY <1>0, <1>1, <1>2, <1>3, <1>6 DEF IInv, Locked, Billing, MovesAnchor, Others, Typed
<1>8. ~strained /\ owner # 0 => req[r].kind # "stripe" \/ MovesAnchor(r)
  <2> SUFFICES ASSUME ~strained, owner # 0, req[r].kind = "stripe" PROVE FALSE
    OBVIOUS
  <2>1. req[r].anchor = owner
    BY <1>0 DEF Asks, Billed, Reliable
  <2>2. req[r].op = "delete" => req[r].target # owner
    BY <1>0, <1>2 DEF Asks, Trusts, Early
  <2>3. req[r].op # "delete" => req[r].target = 0
    BY <1>0 DEF Asks, Shaped
  <2> QED BY <1>4, <2>1, <2>2, <2>3 DEF NextBilling
<1>9. Asks(r)'
  <2>1. (Spares(r) /\ Room(r))'
    BY <1>0, <1>1, <1>2, <1>6 DEF Asks, Spares, Room, Others
  <2>2. (Shaped(r) /\ Billed(r))'
    BY <1>0, <1>1, <1>2, <1>3 DEF Asks, Shaped, MovesAnchor, Billed, Reliable, Orderly
  <2>3. KeepsHolder(r)'
    BY <1>0, <1>1, <1>2 DEF Asks, MovesAnchor, KeepsHolder, Early, Holder, Orderly
  <2>4. Trusts(r)'
    BY <1>0, <1>1, <1>2, <1>8 DEF Asks, MovesAnchor, Trusts, Early
  <2> QED BY <2>1, <2>2, <2>3, <2>4 DEF Asks
<1> QED BY <1>1, <1>2, <1>5, <1>6, <1>7, <1>9, StepKeeps

\* The row that the request is to write is locked, when it is there.
LEMMA UpdateAnchorKeeps ==
  ASSUME IInv, NEW r \in Requests, UpdateAnchor(r)
  PROVE  IInv'
<1> USE BusinessesConstants
<1>0. TypeOK /\ Typed /\ Asks(r)
  BY WellTyped DEF IInv
<1>1. /\ UNCHANGED <<tableVars, stripeVars, checkoutVars, userLock, faults, edits, historyVars>>
      /\ Live' = Live
  BY LiveKept DEF UpdateAnchor, stripeVars
<1>2. \/ req[r].step = "begin" /\ ~MovesAnchor(r) /\ StepsTo(r, "stripe")
      \/ req[r].step = "row" /\ StepsTo(r, "commit")
  BY <1>0, StepTo DEF UpdateAnchor, Steps
<1>3. req[r].op \in {"delete", "provision"} /\ (req[r].step = "begin" => req[r].op = "delete")
  BY <1>0, <1>2 DEF Asks, Shaped, Typed, IsOp
<1>4. \/ UNCHANGED rowLock
      \/ /\ Billing(r) \in businesses /\ rowLock' \in [Ids -> Requests \union {None}]
         /\ rowLock'[Billing(r)] = r /\ \A c \in Ids \ {Billing(r)} : rowLock'[c] = rowLock[c]
  <2>1. CASE Billing(r) \in businesses
    <3>1. Billing(r) \in Ids /\ Grab(r, Billing(r))
      BY <1>0, <2>1 DEF Typed, UpdateAnchor
    <3> QED BY <1>0, <2>1, <3>1, Grabbed
  <2>2. CASE Billing(r) \notin businesses
    BY <2>2 DEF UpdateAnchor
  <2> QED BY <2>1, <2>2
<1> USE DEF Becomes, StepsTo, tableVars, stripeVars, checkoutVars, historyVars
<1>5. TypeOK'
  BY <1>0, <1>1, <1>2, <1>4 DEF TypeOK
<1>6. Others(r) /\ Grows /\ bought' = bought /\ req'[r].op = req[r].op /\ req'[r].undo = req[r].undo
  BY <1>1, <1>2 DEF Grows
<1>7. Billing(r)' = Billing(r) /\ (MovesAnchor(r)' <=> MovesAnchor(r))
  BY <1>2 DEF Billing, MovesAnchor
<1>8. \A b \in Ids : Locked(b)'
  <2> TAKE b \in Ids
  <2>1. CASE rowLock'[b] = rowLock[b] /\ rowLock[b] # r
    BY <1>0, <1>1, <1>6, <2>1 DEF IInv, Locked, Billing, MovesAnchor, Others, Typed
  <2>2. CASE rowLock'[b] = r
    <3>1. b \in businesses /\ b = Billing(r)
      BY <1>4, <2>2 DEF IInv, Locked, Typed
    <3> QED BY <1>1, <1>2, <1>3, <1>7, <2>2, <3>1 DEF Locked
  <2> QED BY <1>4, <2>1, <2>2
<1>9. Asks(r)'
  <2>1. (Spares(r) /\ Room(r))'
    BY <1>0, <1>1, <1>2, <1>3, <1>6 DEF Asks, Spares, Room, Others
  <2>2. (Shaped(r) /\ Billed(r))'
    BY <1>0, <1>1, <1>2, <1>3 DEF Asks, Shaped, MovesAnchor, Billed, Reliable, Orderly
  <2>3. KeepsHolder(r)'
    BY <1>0, <1>1, <1>2 DEF Asks, MovesAnchor, KeepsHolder, Early, Holder, Orderly
  <2>4. Trusts(r)'
    BY <1>0, <1>1, <1>2, <1>3 DEF IInv, Asks, MovesAnchor, Trusts, Early, Spares, Quiet
  <2> QED BY <2>1, <2>2, <2>3, <2>4 DEF Asks
<1> QED BY <1>1, <1>2, <1>5, <1>6, <1>8, <1>9, StepKeeps

\* The successor is to take over the row of an anchor that Stripe does not bill.
LEMMA MigrateAnchorKeeps ==
  ASSUME IInv, NEW r \in Requests, MigrateAnchor(r)
  PROVE  IInv'
<1> USE BusinessesConstants
<1>0. TypeOK /\ Typed /\ Asks(r)
  BY WellTyped DEF IInv
<1>1. /\ UNCHANGED <<tableVars, stripeVars, checkoutVars, userLock, faults, edits, historyVars>>
      /\ req[r].step = "begin" /\ MovesAnchor(r) /\ Live' = Live
      /\ kind[req[r].target] \in {"none", "trial", "copy"}
  BY LiveKept DEF MigrateAnchor, Copyable, stripeVars
<1>2. req[r].op = "delete" /\ req[r].undo = NoUndo
  BY <1>0, <1>1 DEF Asks, Shaped, Typed, IsOp, MovesAnchor
<1>3. PICK k \in Kinds \ {"customer"} :
      /\ Becomes(r, "stripe", req[r].op, req[r].target, req[r].anchor, req[r].successor, k,
                  req[r].max, req[r].next, req[r].undo)
      /\ k = "stripe" => req[r].kind = "stripe"
  <2> DEFINE k == IF kind[req[r].target] # "none" THEN kind[req[r].target]
                  ELSE IF req[r].kind = "stripe" THEN "stripe" ELSE "none"
  <2>1. k \in Kinds \ {"customer"} /\ (k = "stripe" => req[r].kind = "stripe")
    BY <1>1 DEF Kinds
  <2>2. req[r] \in Asked
    BY <1>0, AskedFields
  <2>3. req' = [req EXCEPT ![r] = [req[r] EXCEPT !.step = "stripe", !.kind = k]]
    <3>1. CASE kind[req[r].target] = "none"
      <4>1. req' = [req EXCEPT ![r].step = "stripe",
                               ![r].kind = IF @ = "stripe" THEN @ ELSE "none"]
        BY <3>1 DEF MigrateAnchor, Copyable
      <4> QED BY <1>0, <2>2, <3>1, <4>1 DEF TypeOK, Asked
    <3>2. CASE kind[req[r].target] # "none"
      BY <3>2 DEF MigrateAnchor
    <3> QED BY <3>1, <3>2
  <2> HIDE DEF k
  <2>4. [req[r] EXCEPT !.step = "stripe", !.kind = k] \in Asked
    BY <2>1, <2>2 DEF Asked, Steps
  <2>5. req' \in [Requests -> Asked] /\ Others(r) /\
          req'[r] = [req[r] EXCEPT !.step = "stripe", !.kind = k]
    BY <1>0, <2>3, <2>4 DEF TypeOK, Others
  <2> QED BY <2>1, <2>2, <2>5 DEF Becomes, Asked
<1>4. \/ UNCHANGED rowLock
      \/ /\ req[r].successor \in businesses /\ rowLock' \in [Ids -> Requests \union {None}]
         /\ rowLock'[req[r].successor] = r
         /\ \A c \in Ids \ {req[r].successor} : rowLock'[c] = rowLock[c]
  <2>1. CASE Copyable(r) /\ Grab(r, req[r].successor)
    <3>1. req[r].successor \in Ids /\ req[r].successor \in businesses
      BY <1>0, <2>1 DEF Typed, Copyable
    <3> QED BY <1>0, <2>1, <3>1, Grabbed
  <2>2. CASE UNCHANGED rowLock
    BY <2>2
  <2> QED BY <2>1, <2>2 DEF MigrateAnchor
<1> USE DEF Becomes, StepsTo, tableVars, stripeVars, checkoutVars, historyVars
<1>5. TypeOK'
  BY <1>0, <1>1, <1>3, <1>4 DEF TypeOK
<1>6. Others(r) /\ Grows /\ bought' = bought /\ req'[r].op = req[r].op /\ req'[r].undo = req[r].undo
  BY <1>1, <1>3 DEF Grows
<1>7. Billing(r)' = Billing(r) /\ MovesAnchor(r)' /\ Billing(r) = req[r].successor
  BY <1>1, <1>3 DEF Billing, MovesAnchor
<1>8. \A b \in Ids : Locked(b)'
  <2> TAKE b \in Ids
  <2>1. CASE rowLock'[b] = rowLock[b] /\ rowLock[b] # r
    BY <1>0, <1>1, <1>6, <2>1 DEF IInv, Locked, Billing, MovesAnchor, Others, Typed
  <2>2. CASE rowLock'[b] = r
    <3>1. b \in businesses /\ b = Billing(r)
      BY <1>4, <1>7, <2>2 DEF IInv, Locked, Typed
    <3> QED BY <1>1, <1>2, <1>3, <1>7, <2>2, <3>1 DEF Locked
  <2> QED BY <1>4, <2>1, <2>2
<1>9. (Orderly => Holder = 0 \/ req[r].target # Holder) /\ (~strained => req[r].target # owner)
  <2>1. Orderly => Holder = 0 \/ req[r].target # Holder
    BY <1>0, <1>1, <1>2 DEF IInv, Asks, KeepsHolder, MovesAnchor, Standing
  <2>2. ~strained => req[r].target # owner
    <3> SUFFICES ASSUME ~strained, req[r].target = owner PROVE FALSE
      OBVIOUS
    <3>1. req[r].kind = "stripe" /\ owner \in businesses /\ owner # 0
      BY <1>0, <1>1, <1>2 DEF IInv, Asks, Trusts, Spares, Quiet, MovesAnchor, Shaped
    <3>2. kind[owner] = "stripe"
      BY <1>0, <1>1, <1>2, <3>1 DEF MovesAnchor, Asks, Trusts
    <3> QED BY <1>1, <3>1, <3>2
  <2> QED BY <2>1, <2>2
<1>10. Asks(r)'
  <2>1. (Spares(r) /\ Room(r))'
    BY <1>0, <1>1, <1>2, <1>3, <1>6 DEF Asks, Spares, Room, Others
  <2>2. (Shaped(r) /\ Billed(r))'
    BY <1>0, <1>1, <1>2, <1>3 DEF Asks, Shaped, MovesAnchor, Billed, Reliable, Orderly
  <2>3. KeepsHolder(r)'
    BY <1>0, <1>1, <1>2, <1>3, <1>9 DEF Asks, MovesAnchor, KeepsHolder, Early, Holder, Orderly
  <2>4. Trusts(r)'
    BY <1>0, <1>1, <1>2, <1>3, <1>9 DEF Asks, MovesAnchor, Trusts, Early, Billed, Reliable
  <2> QED BY <2>1, <2>2, <2>3, <2>4 DEF Asks
<1> QED BY <1>1, <1>2, <1>5, <1>6, <1>8, <1>10, StepKeeps

\* The compensation fails; the history says so.
LEMMA CompensationFailsKeeps ==
  ASSUME IInv, NEW r \in Requests, CompensationFails(r)
  PROVE  IInv'
<1> USE BusinessesConstants
<1>0. TypeOK /\ Typed
  BY WellTyped DEF IInv
<1>1. /\ UNCHANGED <<tableVars, stripeVars, checkoutVars, lockVars, edits, overlapped, midway, bereft>>
      /\ faults' \in Nat /\ bought' \in Nat /\ req[r].step = "undo"
  BY <1>0 DEF CompensationFails, Fault, Remember, TypeOK
<1>2. Ends(r)
  BY <1>0, EndTo DEF CompensationFails
<1>3. strained' = TRUE
  BY Zenon DEF CompensationFails, Remember
<1> USE DEF Becomes, Ends, tableVars, lockVars, stripeVars, checkoutVars
<1>4. TypeOK'
  <2>1. Flags'
    BY <1>0, <1>1, <1>3, Zenon DEF Flags, TypeOK
  <2>2. Numbers'
    BY <1>0, <1>1, <1>2 DEF TypeOK, Numbers
  <2> QED BY <2>1, <2>2, Zenon DEF TypeOK, Flags, Numbers
<1>5. Grows /\ Others(r)
  BY <1>1, <1>2, <1>3 DEF Grows
<1>6. \A b \in Ids : Locked(b)'
  BY <1>0, <1>1, <1>2 DEF IInv, Locked, Billing, MovesAnchor, Others, Typed
<1>7. Asks(r)'
  BY <1>0, <1>1, <1>2, IdleAsks DEF Typed
<1> QED BY <1>1, <1>2, <1>3, <1>4, <1>5, <1>6, <1>7, StepKeeps

\* The process dies; the history says what it left.
LEMMA CrashKeeps ==
  ASSUME IInv, NEW r \in Requests, Crash(r)
  PROVE  IInv'
<1> USE BusinessesConstants
<1>0. TypeOK /\ Typed
  BY WellTyped DEF IInv
<1>1. /\ UNCHANGED <<tableVars, stripeVars, checkoutVars, edits, overlapped, midway, bereft>>
      /\ faults' \in Nat /\ bought' \in Nat /\ req[r].step # "idle"
  BY <1>0 DEF Crash, Fault, Remember, TypeOK
<1>2. Ends(r) /\ Frees(r)
  BY <1>0, EndTo, Freed DEF Crash
<1>3. strained' \in BOOLEAN /\ (strained => strained')
      /\ (~strained' => req[r].undo = NoUndo /\ bought' = bought)
  <2>1. strained' = (strained \/ req[r].undo # NoUndo \/ req[r].step = "sync")
    BY Zenon DEF Crash, Remember
  <2>2. ~strained' => bought' = bought
    BY DEF Crash, Remember
  <2> QED BY <2>1, <2>2, Zenon
<1> USE DEF Becomes, Ends, tableVars, stripeVars, checkoutVars
<1>4. TypeOK'
  <2>1. Flags'
    BY <1>0, <1>1, <1>3, Zenon DEF Flags, TypeOK
  <2>2. Numbers'
    BY <1>0, <1>1, <1>2 DEF TypeOK, Numbers, Frees
  <2> QED BY <2>1, <2>2, Zenon DEF TypeOK, Flags, Numbers
<1>5. Grows /\ Others(r)
  BY <1>1, <1>2, <1>3 DEF Grows
<1>6. /\ \A q \in Requests \ {r} : userLock = q => userLock' = q
      /\ \A b \in Ids : Locked(b)'
  BY <1>1, <1>2, <1>5, LocksKept
<1>7. Asks(r)'
  BY <1>0, <1>1, <1>2, IdleAsks DEF Typed
<1> QED BY <1>1, <1>2, <1>3, <1>4, <1>5, <1>6, <1>7, StepKeeps

-----------------------------------------------------------------------------
\* A user without an active business gets the oldest, or is to get a new one.
LEMMA EnterKeeps ==
  ASSUME IInv, NEW r \in Requests, Enter(r)
  PROVE  IInv'
<1> USE BusinessesConstants
<1>0. TypeOK /\ Typed
  BY WellTyped DEF IInv
<1>1. /\ req[r].step = "idle" /\ businesses = {} /\ overlapped /\ strained
      /\ UNCHANGED <<tableVars, stripeVars, checkoutVars, lockVars, faults, edits, historyVars>>
  <2>1. businesses = {}
    BY DEF Enter, IInv, Located
  <2>2. overlapped /\ strained
    BY <2>1 DEF IInv, Left, Quiet
  <2> QED BY <2>1, <2>2 DEF Enter, tableVars
<1>2. Becomes(r, "enter", "enter", 0, 0, 0, "none", 0, 0, NoUndo)
  <2>1. req' = [req EXCEPT ![r] = [Idle EXCEPT !.step = "enter", !.op = "enter"]]
    BY <1>1 DEF Enter
  <2>2. [Idle EXCEPT !.step = "enter", !.op = "enter"] \in Asked
    BY DEF Idle, NoUndo, Asked, Steps, Kinds
  <2>3. req' \in [Requests -> Asked] /\ Others(r) /\ req'[r] = [Idle EXCEPT !.step = "enter",
          !.op = "enter"]
    BY <1>0, <2>1, <2>2 DEF TypeOK, Others
  <2> QED BY <2>3 DEF Becomes, Idle
<1> USE DEF Becomes, tableVars, stripeVars, checkoutVars, lockVars, historyVars
<1>3. TypeOK'
  BY <1>0, <1>1, <1>2 DEF TypeOK
<1>4. Grows /\ Others(r)
  BY <1>1, <1>2 DEF Grows
<1>5. Rows' /\ Opening'
  BY <1>1, <1>2, <1>4, RowsKept, OpeningKept DEF Others
<1>6. (Quiet /\ Stands)'
  BY <1>1 DEF Quiet, Stands
<1>7. \A b \in Ids : Locked(b)'
  BY <1>1 DEF IInv, Locked
<1>8. \A q \in Requests \ {r} : Asks(q)'
  BY <1>1, <1>2, <1>4, OthersKept
<1>9. Asks(r)'
  BY <1>0, <1>1, <1>2 DEF Asks, Shaped, MovesAnchor, Billed, Spares, Room, KeepsHolder, Trusts,
     NoUndo, Typed
<1> QED BY <1>3, <1>5, <1>6, <1>7, <1>8, <1>9 DEF IInv, Rows

\* Another business becomes the active one.
LEMMA ActivateKeeps ==
  ASSUME IInv, NEW b \in Ids, Activate(b)
  PROVE  IInv'
<1> USE BusinessesConstants
<1>0. TypeOK /\ Typed
  BY WellTyped DEF IInv
<1>1. /\ UNCHANGED <<businesses, born, kind, slots, stripeVars, checkoutVars, lockVars, req,
           faults, historyVars>>
      /\ b \in businesses /\ active' = b /\ edits' \in Nat /\ Live' = Live
  BY <1>0, LiveKept DEF Activate, Edit, TypeOK, stripeVars
<1> USE DEF stripeVars, checkoutVars, lockVars, historyVars
<1>2. TypeOK'
  BY <1>0, <1>1 DEF TypeOK
<1>3. (Located /\ Gone /\ Backed /\ Single /\ Left)'
  BY <1>1 DEF IInv, Located, Gone, Backed, Single, Left, Reliable, Orderly
<1>4. (Standing /\ OneCustomer /\ Opening)'
  BY <1>1 DEF IInv, Standing, OneCustomer, Opening, Holder, Orderly
<1>5. (Quiet /\ Stands)'
  BY <1>1 DEF IInv, Quiet, Stands, Level
<1>6. (\A c \in Ids : Locked(c))'
  BY <1>1 DEF IInv, Locked, Billing, MovesAnchor
<1>7. \A q \in Requests : (Shaped(q) /\ Billed(q) /\ Spares(q) /\ Room(q))'
  BY <1>1 DEF IInv, Asks, Shaped, MovesAnchor, Billed, Spares, Room, Reliable, Orderly
<1>8. \A q \in Requests : (KeepsHolder(q) /\ Trusts(q))'
  BY <1>1 DEF IInv, Asks, KeepsHolder, Early, Holder, Trusts, MovesAnchor, Orderly
<1> QED BY <1>2, <1>3, <1>4, <1>5, <1>6, <1>7, <1>8 DEF IInv, Asks

\* What every request that begins has of its own.
Wanted(w) ==
  /\ w.op \in {"create", "provision", "delete", "trial"}
  /\ w.anchor = Anchor /\ w.undo = NoUndo
  /\ w.op # "delete" => w.target = 0 /\ w.successor = 0
  /\ w.step = CASE w.op = "delete" -> "count" [] w.op = "trial" -> "sync" [] OTHER -> "lock"
  /\ w.op = "create" => w.kind \in {"copy", "trial"}
  /\ w.op \in {"provision", "delete"} => w.kind = kind'[Anchor]
  /\ w.op = "trial" => w.kind = "none" /\ kind'[Anchor] # "stripe"
  /\ w.op = "delete" => w.target \in businesses /\ w.successor \in businesses

\* A request begins: it has read the anchor, whose row there is now, and waits for nothing.
LEMMA BeginsKeeps ==
  ASSUME IInv, NEW r \in Requests, NEW w \in Asked, Begins(r, w), Wanted(w),
         overlapped' \in BOOLEAN, midway' \in BOOLEAN,
         overlapped => overlapped', midway => midway',
         w.op # "delete" => overlapped' = overlapped,
         w.op = "delete" /\ ~overlapped' => \A s \in Requests : req[s].op # "delete",
         w.op = "delete" /\ ~midway' => opening = 0,
         (\A s \in Requests : req[s].op # "delete") => overlapped' = overlapped
  PROVE  IInv'
<1> USE BusinessesConstants
<1>0. TypeOK /\ Typed
  BY WellTyped DEF IInv
<1>1. /\ req' \in [Requests -> Asked] /\ Others(r) /\ req'[r] = w
      /\ Anchored /\ Ensures(Anchor)
      /\ kind'[Anchor] = "stripe" => owner # 0 /\ (Reliable => Anchor = owner)
  BY Began
<1>2. /\ UNCHANGED <<businesses, born, active, slots, stripeVars, checkoutVars, lockVars, faults,
           bereft>>
      /\ req[r].step = "idle" /\ bought' \in Nat /\ edits' \in Nat /\ Live' = Live
  BY <1>0, LiveKept DEF Begins, Remember, Edit, TypeOK, stripeVars
<1>3. /\ strained' \in BOOLEAN /\ (strained => strained')
      /\ ~strained' => /\ bought' = bought /\ events = {}
                       /\ \A s \in Requests : req[s].step = "idle"
  <2>1. strained' = (strained \/ Busy # {} \/ events # {})
    BY Zenon DEF Begins, Remember
  <2>2. ~strained' => bought' = bought
    BY DEF Begins, Remember
  <2>3. ~strained' => \A s \in Requests : req[s].step = "idle"
    BY <2>1 DEF Busy
  <2>4. strained' \in BOOLEAN /\ (strained => strained') /\ (~strained' => events = {})
    BY <1>0, <2>1, Zenon DEF TypeOK
  <2> QED BY <2>2, <2>3, <2>4
<1>4. ~strained' => ~overlapped'
  BY <1>3 DEF IInv, Quiet, Asks, Shaped
<1>5. \A s \in Requests : s # r => req'[s] = req[s]
  BY <1>1 DEF Others
<1> USE DEF stripeVars, checkoutVars, lockVars
<1>6. Grows
  BY <1>2, <1>3 DEF Grows
<1>7. TypeOK'
  <2>1. Flags'
    <3>1. bereft' \in BOOLEAN
      BY <1>0, <1>2 DEF TypeOK
    <3> QED BY <1>3, <3>1, Zenon DEF Flags
  <2>2. Numbers'
    BY <1>0, <1>1, <1>2 DEF TypeOK, Numbers, Ensures
  <2> QED BY <2>1, <2>2, Zenon DEF TypeOK, Flags, Numbers
<1>8. (Located /\ Gone /\ Backed)'
  BY <1>1, <1>2 DEF IInv, Located, Gone, Backed, Ensures
<1>9. (Single /\ Left)'
  BY <1>1, <1>2, <1>6, FlagsGrow DEF IInv, Single, Left, Ensures, Grows
<1>10. (Standing /\ OneCustomer)'
  BY <1>0, <1>1, <1>2, <1>6, FlagsGrow DEF IInv, Standing, OneCustomer, Holder, Ensures, Typed
<1>11. Opening'
  BY <1>1, <1>2, <1>5, <1>6, FlagsGrow DEF IInv, Opening, Holder, Orderly
<1>12. Quiet'
  BY <1>3, <1>4, <1>5 DEF Quiet
<1>13. Stands'
  <2>1. ~strained' /\ owner # 0 /\ owner \in businesses => kind[owner] = "stripe"
    BY <1>3, <1>6 DEF IInv, Stands, Grows
  <2>2. ~strained' => \A q \in Requests : req[q].undo = NoUndo
    BY <1>3 DEF IInv, Asks, Shaped
  <2> QED BY <1>0, <1>1, <1>2, <1>3, <1>6, <2>1, <2>2 DEF IInv, Stands, Level, Ensures, Grows, Typed
<1>14. (\A c \in Ids : Locked(c))'
  BY <1>0, <1>2, <1>5 DEF IInv, Locked, Billing, MovesAnchor, Typed
<1>15. \A q \in Requests \ {r} : Asks(q)'
  <2> TAKE q \in Requests \ {r}
  <2>0. Asks(q) /\ req'[q] = req[q]
    BY <1>5 DEF IInv
  <2>1. (Shaped(q) /\ Room(q))'
    BY <1>2, <2>0 DEF Asks, Shaped, Room, MovesAnchor
  <2>2. (Billed(q) /\ KeepsHolder(q))'
    BY <1>2, <1>6, <2>0, FlagsGrow DEF Asks, Billed, KeepsHolder, Early, MovesAnchor, Holder
  <2>3. Spares(q)'
    BY <1>1, <1>2, <1>5, <1>6, <2>0 DEF Asks, Spares, Grows
  <2>4. Trusts(q)'
    BY <1>3, <2>0 DEF Asks, Trusts, Shaped
  <2> QED BY <2>1, <2>2, <2>3, <2>4 DEF Asks
<1>16. Asks(r)'
  <2> USE DEF Wanted
  <2>0. born \in Nat /\ \A c \in businesses : c \in 1..born
    BY <1>0 DEF IInv, Located, Typed
  <2>1. Shaped(r)'
    BY <1>1, <1>2, <2>0 DEF Shaped, MovesAnchor, Anchored, NoUndo
  <2>2. (Billed(r) /\ Room(r))'
    BY <1>1, <1>2, <1>6, FlagsGrow DEF Billed, Room
  <2>3. Spares(r)'
    BY <1>1, <1>2, <1>5 DEF Spares
  <2>4. KeepsHolder(r)'
    BY <1>1, <1>2, <1>6, FlagsGrow DEF KeepsHolder, Early, Holder, Anchored
  <2>5. Trusts(r)'
    <3> SUFFICES ASSUME ~strained', owner # 0 PROVE Trusts(r)'
      BY <1>2 DEF Trusts
    <3>1. ~strained /\ events = {} /\ (owner \in businesses => Anchor = owner /\ kind[owner] = "stripe")
      BY <1>1, <1>3, <1>6 DEF IInv, Stands, Anchored, Grows
    <3>2. Anchor = owner => kind'[owner] = "stripe" /\ owner \in businesses
      BY <1>1, <3>1 DEF Anchored, Ensures
    <3>3. kind'[Anchor] = "stripe" => Anchor = owner /\ owner \in businesses
      BY <1>1, <3>1 DEF Anchored, Reliable
    <3> QED BY <1>1, <1>2, <3>1, <3>2, <3>3 DEF Trusts, Early, NoUndo
  <2> QED BY <2>1, <2>2, <2>3, <2>4, <2>5 DEF Asks
<1> QED BY <1>7, <1>8, <1>9, <1>10, <1>11, <1>12, <1>13, <1>14, <1>15, <1>16 DEF IInv

\* POST /businesses reads the anchor and the cap.
LEMMA ReadCreateKeeps ==
  ASSUME IInv, NEW r \in Requests, ReadCreate(r)
  PROVE  IInv'
<1> USE BusinessesConstants
<1>0. TypeOK /\ Typed
  BY WellTyped DEF IInv
<1> DEFINE k == IF kind[Anchor] \in {"stripe", "copy"} THEN "copy" ELSE "trial"
           m == 1 + slots[Anchor]
           w == [Idle EXCEPT !.step = "lock", !.op = "create", !.anchor = Anchor,
                   !.kind = k, !.max = m]
<1>1. Anchor \in Ids /\ slots[Anchor] \in Nat
  BY <1>0, AnchorHeld DEF ReadCreate, Begins, Anchored, TypeOK
<1>2. k \in {"copy", "trial"} /\ m \in Nat
  BY <1>1
<1>3. Begins(r, w)
  BY DEF ReadCreate
<1>4. UNCHANGED <<overlapped, midway>>
  BY DEF ReadCreate
<1> HIDE DEF k, m
<1>5. w \in Asked
  BY <1>1, <1>2 DEF Idle, NoUndo, Asked, Steps, Kinds
<1>6. Wanted(w)
  BY <1>2 DEF Wanted, Idle
<1>7. w.op = "create"
  BY DEF Idle
<1> HIDE DEF w
<1>8. overlapped' \in BOOLEAN /\ midway' \in BOOLEAN
  BY <1>0, <1>4 DEF TypeOK
<1> QED BY <1>3, <1>4, <1>5, <1>6, <1>7, <1>8, BeginsKeeps

\* POST /provision-add-on reads the anchor.
LEMMA ReadProvisionKeeps ==
  ASSUME IInv, NEW r \in Requests, ReadProvision(r)
  PROVE  IInv'
<1> USE BusinessesConstants
<1>0. TypeOK /\ Typed
  BY WellTyped DEF IInv
<1> DEFINE k == Ensured(Anchor)[Anchor]
           w == [Idle EXCEPT !.step = "lock", !.op = "provision", !.anchor = Anchor, !.kind = k]
<1>1. Anchor \in Ids
  BY <1>0, AnchorHeld DEF ReadProvision, Begins, Anchored
<1>2. k \in Kinds /\ k = kind'[Anchor]
  BY <1>0, <1>1 DEF ReadProvision, Begins, TypeOK, Ensured, Kinds
<1>3. Begins(r, w)
  BY DEF ReadProvision
<1>4. UNCHANGED <<overlapped, midway>>
  BY DEF ReadProvision
<1> HIDE DEF k
<1>5. w \in Asked
  BY <1>1, <1>2 DEF Idle, NoUndo, Asked, Steps
<1>6. Wanted(w)
  BY <1>2 DEF Wanted, Idle
<1>7. w.op = "provision"
  BY DEF Idle
<1> HIDE DEF w
<1>8. overlapped' \in BOOLEAN /\ midway' \in BOOLEAN
  BY <1>0, <1>4 DEF TypeOK
<1> QED BY <1>3, <1>4, <1>5, <1>6, <1>7, <1>8, BeginsKeeps

\* PATCH /additional-businesses reads the anchor of a trial.
LEMMA PatchTrialSlotsKeeps ==
  ASSUME IInv, NEW r \in Requests, NEW n \in 0..MaxSlots, PatchTrialSlots(r, n)
  PROVE  IInv'
<1> USE BusinessesConstants
<1>0. TypeOK /\ Typed
  BY WellTyped DEF IInv
<1> DEFINE w == [Idle EXCEPT !.step = "sync", !.op = "trial", !.anchor = Anchor, !.next = n]
<1>1. Anchor \in Ids
  BY <1>0, AnchorHeld DEF PatchTrialSlots, Begins, Anchored
<1>n. n \in Nat
  OBVIOUS
<1>2. kind'[Anchor] # "stripe"
  BY DEF PatchTrialSlots, Begins
<1>3. Begins(r, w)
  BY DEF PatchTrialSlots
<1>4. UNCHANGED <<overlapped, midway>>
  BY DEF PatchTrialSlots
<1>5. w \in Asked
  BY <1>1, <1>n DEF Idle, NoUndo, Asked, Steps, Kinds
<1>6. Wanted(w)
  BY <1>2 DEF Wanted, Idle
<1>7. w.op = "trial"
  BY DEF Idle
<1> HIDE DEF w
<1>8. overlapped' \in BOOLEAN /\ midway' \in BOOLEAN
  BY <1>0, <1>4 DEF TypeOK
<1> QED BY <1>3, <1>4, <1>5, <1>6, <1>7, <1>8, BeginsKeeps

\* DELETE /businesses/:id reads the active business and the anchor.
LEMMA ReadDeleteKeeps ==
  ASSUME IInv, NEW r \in Requests, NEW b \in Ids, ReadDelete(r, b)
  PROVE  IInv'
<1> USE BusinessesConstants
<1>0. TypeOK /\ Typed
  BY WellTyped DEF IInv
<1> DEFINE k == Ensured(Anchor)[Anchor]
           w == [Idle EXCEPT !.step = "count", !.op = "delete", !.target = b, !.anchor = Anchor,
                   !.successor = active, !.kind = k]
<1>1. Anchor \in Ids /\ active \in businesses /\ b \in businesses
  BY <1>0, AnchorHeld DEF ReadDelete, Begins, Anchored
<1>2. k \in Kinds /\ k = kind'[Anchor]
  BY <1>0, <1>1 DEF ReadDelete, Begins, TypeOK, Ensured, Kinds
<1>3. Begins(r, w)
  BY DEF ReadDelete
<1> HIDE DEF k
<1>4. w \in Asked
  BY <1>0, <1>1, <1>2 DEF Idle, NoUndo, Asked, Steps, Typed
<1>5. Wanted(w)
  BY <1>1, <1>2 DEF Wanted, Idle
<1>6. w.op = "delete"
  BY DEF Idle
<1> HIDE DEF w
<1>7. /\ overlapped' = (overlapped \/ \E s \in Requests : req[s].op = "delete")
      /\ midway' = (midway \/ opening # 0)
  BY DEF ReadDelete
<1>8. /\ overlapped' \in BOOLEAN /\ midway' \in BOOLEAN
      /\ overlapped => overlapped'
      /\ midway => midway'
      /\ ~overlapped' => \A s \in Requests : req[s].op # "delete"
      /\ ~midway' => opening = 0
      /\ (\A s \in Requests : req[s].op # "delete") => overlapped' = overlapped
  BY <1>0, <1>7, Zenon DEF TypeOK
<1> QED BY <1>3, <1>4, <1>5, <1>6, <1>8, BeginsKeeps

-----------------------------------------------------------------------------
\* Whom a call to Stripe bills: the business that was billed, when all is in order.
LEMMA BilledRight ==
  ASSUME IInv, NEW r \in Requests, CallsStripe(r)
  PROVE  /\ NextBilling(r) \in Ids /\ NextBilling(r) <= born
         /\ owner # 0 /\ (Reliable => NextBilling(r) = owner /\ ~MovesAnchor(r))
         /\ req[r].undo = NoUndo /\ req[r].op \in {"delete", "provision"}
<1>0. TypeOK /\ Typed /\ Asks(r) /\ req[r].step = "stripe" /\ req[r].kind = "stripe"
  BY WellTyped DEF IInv, CallsStripe
<1>1. NextBilling(r) \in Ids /\ NextBilling(r) <= born
  BY <1>0 DEF CallsStripe, NextBilling, Typed, Asks, Shaped
<1>2. owner # 0 /\ req[r].undo = NoUndo /\ req[r].op \in {"delete", "provision"}
  BY <1>0 DEF Asks, Shaped, Typed, IsOp
<1>3. ASSUME Reliable PROVE NextBilling(r) = owner /\ ~MovesAnchor(r)
  <2>1. req[r].anchor = owner
    BY <1>0, <1>3 DEF Asks, Billed
  <2>2. req[r].op = "delete" => req[r].target # owner
    BY <1>0, <1>2, <1>3 DEF Asks, Trusts, Early, Reliable, KeepsHolder, Holder
  <2>3. req[r].op # "delete" => req[r].target = 0
    BY <1>0 DEF Asks, Shaped
  <2> QED BY <1>2, <2>1, <2>2, <2>3 DEF NextBilling, MovesAnchor
<1> QED BY <1>1, <1>2, <1>3

\* What Stripe says after a change, when it is not strained.
LEMMA Changed ==
  ASSUME TypeOK, NEW q \in Nat, NEW m \in Nat, NEW o \in Ids, Changes(q, m, o)
  PROVE  /\ quantity' = q /\ meta' = m /\ owner' = o /\ events' \subseteq Snapshot
         /\ Live' \in events' /\ Live'.business = o /\ Live'.slots = SlotsOf(q, m)
         /\ events' # {} /\ \A e \in events' : e \in events \/ e.business = o
<1>1. SlotsOf(q, m) \in Nat
  BY DEF SlotsOf
<1>2. events \subseteq Snapshot
  BY DEF TypeOK
<1>3. /\ quantity' = q /\ meta' = m /\ owner' = o
      /\ events' = events \union {[slots |-> SlotsOf(q, m), business |-> o]}
  BY DEF Changes
<1>4. Live' = [slots |-> SlotsOf(q, m), business |-> o]
  BY <1>3 DEF Live, SlotsOf
<1>5. [slots |-> SlotsOf(q, m), business |-> o] \in Snapshot
  BY <1>1 DEF Snapshot
<1> QED BY <1>2, <1>3, <1>4, <1>5

\* The billed business is the one that was, or nothing is promised any more.
Bills(o) ==
  /\ o \in Ids /\ o <= born /\ owner # 0 /\ (Reliable => o = owner)

\* A request tells Stripe of the business that was billed: rows and checkouts stand.
LEMMA RowsBilled ==
  ASSUME IInv, NEW q \in Nat, NEW m \in Nat, NEW o \in Ids, Changes(q, m, o), Bills(o), Grows,
         UNCHANGED <<tableVars, checkoutVars>>
  PROVE  Rows'
<1> USE BusinessesConstants DEF tableVars, checkoutVars
<1>0. TypeOK /\ o # 0
  BY DEF IInv, Ids
<1>1. /\ owner' = o /\ events' # {}
      /\ \A e \in events' : e \in events \/ e.business = o
  BY <1>0, Changed
<1>2. (Located /\ Gone /\ Backed)'
  BY <1>0, <1>1 DEF IInv, Located, Gone, Backed, Bills
<1>3. (Single /\ Left)'
  BY <1>1, FlagsGrow DEF IInv, Single, Left, Grows, Bills
<1>4. (Standing /\ OneCustomer)'
  BY <1>0, <1>1, FlagsGrow DEF IInv, Standing, OneCustomer, Holder, Reliable, Bills
<1> QED BY <1>2, <1>3, <1>4 DEF Rows

\* The other requests see that too: they rely on it only when nobody else is at work.
LEMMA OthersBilled ==
  ASSUME IInv, NEW r \in Requests, Others(r), req[r].step # "idle",
         NEW q \in Nat, NEW m \in Nat, NEW o \in Ids, Changes(q, m, o), Bills(o), Grows,
         UNCHANGED <<tableVars, checkoutVars, overlapped>>,
         \A s \in Requests \ {r} : userLock = s => userLock' = s,
         req'[r].op \in {req[r].op, "none"}
  PROVE  Opening' /\ Quiet' /\ \A s \in Requests \ {r} : Asks(s)'
<1> USE BusinessesConstants DEF tableVars, checkoutVars
<1>t. TypeOK /\ o # 0
  BY DEF IInv, Ids
<1>0. TypeOK /\ o # 0 /\ owner' = o
  BY <1>t, Changed
<1>1. \A s \in Requests : req'[s].op = "delete" => req[s].op = "delete"
  BY DEF Others
<1>2. Opening'
  BY <1>0, <1>1, FlagsGrow DEF IInv, Opening, Holder, Reliable, Bills
<1>3. Quiet'
  BY QuietKept DEF Others
<1>4. ASSUME NEW s \in Requests \ {r} PROVE Asks(s)'
  <2>0. Asks(s) /\ req'[s] = req[s]
    BY DEF IInv, Others
  <2>1. (Shaped(s) /\ Room(s))'
    BY <1>0, <2>0 DEF Asks, Shaped, Room, MovesAnchor, Bills
  <2>2. (Billed(s) /\ KeepsHolder(s))'
    BY <1>0, <2>0, FlagsGrow DEF Asks, Billed, KeepsHolder, Early, MovesAnchor, Holder, Bills,
       Reliable
  <2>3. Spares(s)'
    BY <1>1, <2>0 DEF Asks, Spares
  <2>4. Trusts(s)'
    <3>1. ~strained' => req[s].step = "idle"
      BY DEF IInv, Quiet, Grows
    <3> QED BY <2>0, <3>1 DEF Asks, Trusts, Shaped
  <2> QED BY <2>1, <2>2, <2>3, <2>4 DEF Asks
<1> QED BY <1>2, <1>3, <1>4

\* Stripe takes the new quantity.
LEMMA applyStripeBusinessSlotStateKeeps ==
  ASSUME IInv, NEW r \in Requests, applyStripeBusinessSlotState(r)
  PROVE  IInv'
<1> USE BusinessesConstants
<1>0. TypeOK /\ Typed /\ Asks(r)
  BY WellTyped DEF IInv
<1>1. /\ UNCHANGED <<tableVars, checkoutVars, lockVars, faults, edits, historyVars>>
      /\ CallsStripe(r) /\ req[r].step = "stripe" /\ req[r].kind = "stripe"
  BY DEF applyStripeBusinessSlotState, CallsStripe
<1> DEFINE n == req[r].next
           o == NextBilling(r)
<1>2. /\ o \in Ids /\ o <= born /\ owner # 0 /\ (Reliable => o = owner /\ ~MovesAnchor(r))
      /\ req[r].undo = NoUndo /\ req[r].op \in {"delete", "provision"}
  BY <1>1, BilledRight
<1>3. n \in Nat /\ Changes(n, n, o) /\ Bills(o)
  BY <1>0, <1>2 DEF applyStripeBusinessSlotState, SetStripe, Typed, Bills
<1> HIDE DEF n, o
<1>4. /\ quantity' = n /\ meta' = n /\ owner' = o /\ events' \subseteq Snapshot
      /\ Live' \in events'
  BY <1>0, <1>2, <1>3, Changed
<1>5. PICK u \in [quantity : Nat, owner : Ids \union {0}] :
        u = [quantity |-> SlotsOf(quantity, meta), owner |-> owner]
  <2>1. SlotsOf(quantity, meta) \in Nat /\ owner \in Ids \union {0}
    BY <1>0 DEF TypeOK, SlotsOf
  <2> QED BY <2>1
<1>6. u.owner = owner /\ u.quantity = SlotsOf(quantity, meta) /\ u # NoUndo
  BY <1>2, <1>5 DEF NoUndo
<1>7. PICK s \in {"row", "commit"} :
        /\ req[r].op # "delete" => s = "row"
        /\ Becomes(r, s, req[r].op, req[r].target, req[r].anchor, req[r].successor,
             req[r].kind, req[r].max, req[r].next, u)
  <2> DEFINE s == AfterStripe(r)
  <2>1. req[r] \in Asked
    BY <1>0, AskedFields
  <2>2. s \in {"row", "commit"} /\ (req[r].op # "delete" => s = "row")
    BY DEF AfterStripe
  <2>3. req' = [req EXCEPT ![r] = [req[r] EXCEPT !.step = s, !.undo = u]]
    BY <1>5 DEF applyStripeBusinessSlotState
  <2> HIDE DEF s
  <2>4. [req[r] EXCEPT !.step = s, !.undo = u] \in Asked
    BY <2>1, <2>2 DEF Asked, Steps
  <2>5. req' \in [Requests -> Asked] /\ Others(r) /\ req'[r] = [req[r] EXCEPT !.step = s,
          !.undo = u]
    BY <1>0, <2>3, <2>4 DEF TypeOK, Others
  <2> QED BY <2>1, <2>2, <2>5 DEF Becomes, Asked
<1>8. ~strained => SlotsOf(quantity, meta) = bought /\ o = owner
  <2>1. ~strained => \A q \in Requests : req[q].undo = NoUndo
    BY <1>1, <1>2 DEF IInv, Quiet, Asks, Shaped
  <2> QED BY <1>0, <1>2, <2>1 DEF IInv, Stands, Level, SlotsOf, TypeOK, Reliable
<1> USE DEF Becomes, tableVars, checkoutVars, lockVars, historyVars
<1>9. TypeOK'
  BY <1>0, <1>1, <1>2, <1>3, <1>4, <1>7 DEF TypeOK
<1>10. Grows /\ Others(r)
  BY <1>1, <1>7 DEF Grows
<1>11. Rows'
  BY <1>1, <1>2, <1>3, <1>10, RowsBilled
<1>12. Opening' /\ Quiet' /\ \A q \in Requests \ {r} : Asks(q)'
  BY <1>1, <1>2, <1>3, <1>7, <1>10, OthersBilled
<1>13. Stands'
  <2> SUFFICES ASSUME ~strained PROVE Stands'
    BY <1>1 DEF Stands
  <2>1. req'[r].undo # NoUndo /\ o = owner
    BY <1>6, <1>7, <1>8
  <2>2. owner \in businesses
    BY <1>0, <1>1, <1>2 DEF Asks, Trusts
  <2> QED BY <1>0, <1>1, <1>4, <2>1, <2>2 DEF Stands
<1>14. (\A c \in Ids : Locked(c))'
  BY <1>0, <1>1, <1>2, <1>7, <1>10 DEF IInv, Locked, Billing, MovesAnchor, Others, Typed
<1>15. Asks(r)'
  <2>1. (Spares(r) /\ Room(r))'
    BY <1>0, <1>1, <1>2, <1>7, <1>10 DEF Asks, Spares, Room, Others
  <2>2. Shaped(r)'
    <3>1. owner <= born /\ o # 0
      BY <1>2 DEF IInv, Located, Ids
    <3> QED BY <1>0, <1>1, <1>2, <1>4, <1>6, <1>7, <3>1 DEF Asks, Shaped, MovesAnchor
  <2>3. Billed(r)'
    BY <1>0, <1>1, <1>2, <1>4, <1>6, <1>7 DEF Asks, Billed, Reliable, Orderly, MovesAnchor
  <2>4. KeepsHolder(r)'
    BY <1>0, <1>1, <1>2, <1>4, <1>7 DEF Asks, KeepsHolder, Early, Holder, Orderly, Reliable
  <2>5. Trusts(r)'
    <3> SUFFICES ASSUME ~strained PROVE Trusts(r)'
      BY <1>1 DEF Trusts
    <3>1. o = owner
      BY <1>8
    <3> QED BY <1>0, <1>1, <1>2, <1>4, <1>6, <1>7, <1>8, <3>1 DEF n, Asks, Trusts, Early,
            MovesAnchor
  <2> QED BY <2>1, <2>2, <2>3, <2>4, <2>5 DEF Asks
<1> QED BY <1>9, <1>11, <1>12, <1>13, <1>14, <1>15 DEF IInv, Rows

\* Stripe fails, perhaps after it has done it.
LEMMA StripeFailsKeeps ==
  ASSUME IInv, NEW r \in Requests, StripeFails(r)
  PROVE  IInv'
<1> USE BusinessesConstants
<1>0. TypeOK /\ Typed /\ Asks(r)
  BY WellTyped DEF IInv
<1>1. /\ UNCHANGED <<tableVars, checkoutVars, edits, overlapped, midway, bereft>>
      /\ faults' \in Nat /\ bought' \in Nat /\ CallsStripe(r)
      /\ req[r].step = "stripe" /\ req[r].kind = "stripe"
  BY <1>0 DEF StripeFails, Fault, Remember, CallsStripe, TypeOK
<1> DEFINE n == req[r].next
           o == NextBilling(r)
<1>2. /\ o \in Ids /\ o <= born /\ owner # 0 /\ (Reliable => o = owner /\ ~MovesAnchor(r))
      /\ req[r].undo = NoUndo /\ req[r].op \in {"delete", "provision"}
  BY <1>1, BilledRight
<1>3. n \in Nat /\ (Changes(n, n, o) \/ UNCHANGED stripeVars) /\ Bills(o)
  BY <1>0, <1>2 DEF StripeFails, SetStripe, Typed, Bills
<1> HIDE DEF n, o
<1>4. Changes(n, n, o) => /\ quantity' = n /\ meta' = n /\ owner' = o /\ events' \subseteq Snapshot
                          /\ Live' \in events'
  BY <1>0, <1>2, <1>3, Changed
<1>5. strained' = TRUE
  BY Zenon DEF StripeFails, Remember
<1>6. \/ req[r].op = "delete" /\ StepsTo(r, "commit") /\ UNCHANGED lockVars
      \/ Ends(r) /\ Frees(r)
  BY <1>0, StepTo, EndTo, Freed DEF StripeFails, Steps
<1> USE DEF Becomes, StepsTo, Ends, tableVars, checkoutVars, lockVars
<1>7. TypeOK'
  <2>1. Flags'
    BY <1>0, <1>1, <1>5, Zenon DEF Flags, TypeOK
  <2>2. Numbers'
    <3>1. CASE Changes(n, n, o)
      BY <1>0, <1>1, <1>2, <1>3, <1>4, <1>6, <3>1 DEF TypeOK, Numbers, Frees
    <3>2. CASE UNCHANGED stripeVars
      BY <1>0, <1>1, <1>6, <3>2 DEF TypeOK, Numbers, Frees, stripeVars
    <3> QED BY <1>3, <3>1, <3>2
  <2> QED BY <2>1, <2>2, Zenon DEF TypeOK, Flags, Numbers
<1>8. /\ Grows /\ Others(r) /\ req'[r].op \in {req[r].op, "none"} /\ req'[r].undo = NoUndo
      /\ \A q \in Requests \ {r} : userLock = q => userLock' = q
  BY <1>1, <1>2, <1>5, <1>6 DEF Grows, Frees
<1>9. Rows'
  BY <1>1, <1>2, <1>3, <1>8, RowsBilled, RowsKept
<1>10. Opening' /\ Quiet' /\ \A q \in Requests \ {r} : Asks(q)'
  <2>1. CASE Changes(n, n, o)
    BY <1>1, <1>2, <1>3, <1>8, <2>1, OthersBilled
  <2>2. CASE UNCHANGED stripeVars
    <3>1. Opening'
      BY <1>1, <1>8, <2>2, OpeningKept DEF Others, stripeVars
    <3>2. Quiet'
      BY <1>1, <1>8, QuietKept DEF Others
    <3>3. \A q \in Requests \ {r} : Asks(q)'
      BY <1>1, <1>5, <1>8, <2>2, OthersKept
    <3> QED BY <3>1, <3>2, <3>3
  <2> QED BY <1>3, <2>1, <2>2
<1>11. Stands'
  BY <1>5 DEF Stands
<1>12. (\A c \in Ids : Locked(c))'
  <2>1. CASE StepsTo(r, "commit") /\ UNCHANGED lockVars /\ req[r].op = "delete"
    BY <1>0, <1>1, <1>8, <2>1 DEF IInv, Locked, Billing, MovesAnchor, Others, Typed
  <2>2. CASE Frees(r)
    BY <1>1, <1>8, <2>2, LocksKept
  <2> QED BY <1>6, <2>1, <2>2
<1>13. Asks(r)'
  <2>1. CASE Ends(r)
    BY <1>0, <1>1, <2>1, IdleAsks DEF Typed
  <2>2. CASE req[r].op = "delete" /\ StepsTo(r, "commit") /\ UNCHANGED lockVars
    <3>1. owner' # 0 /\ (Reliable => owner' = owner)
      BY <1>2, <1>3, <1>4 DEF stripeVars, Ids
    <3>2. (Spares(r) /\ Room(r))'
      BY <1>0, <1>1, <1>8, <2>2 DEF Asks, Spares, Room, Others
    <3>3. Shaped(r)'
      BY <1>0, <1>1, <1>2, <2>2, <3>1 DEF Asks, Shaped, MovesAnchor, NoUndo
    <3>4. (Billed(r) /\ KeepsHolder(r))'
      BY <1>0, <1>1, <1>2, <1>8, <2>2, <3>1, FlagsGrow DEF Asks, Billed, KeepsHolder, Early,
         Holder, Reliable
    <3>5. Trusts(r)'
      BY <1>5 DEF Trusts
    <3> QED BY <3>2, <3>3, <3>4, <3>5 DEF Asks
  <2> QED BY <1>6, <2>1, <2>2
<1> QED BY <1>7, <1>9, <1>10, <1>11, <1>12, <1>13 DEF IInv, Rows

\* The compensation sets Stripe back.
LEMMA CompensateKeeps ==
  ASSUME IInv, NEW r \in Requests, Compensate(r)
  PROVE  IInv'
<1> USE BusinessesConstants
<1>0. TypeOK /\ Typed /\ Asks(r)
  BY WellTyped DEF IInv
<1>1. /\ UNCHANGED <<tableVars, checkoutVars, lockVars, faults, edits, historyVars>>
      /\ req[r].step = "undo"
  BY DEF Compensate
<1>2. Ends(r)
  BY <1>0, EndTo DEF Compensate
<1> DEFINE n == req[r].undo.quantity
           o == req[r].undo.owner
<1>3. /\ n \in Nat /\ o \in Ids /\ o <= born /\ owner # 0 /\ req[r].undo # NoUndo
      /\ Reliable => o = owner
  BY <1>0, <1>1, AskedFields DEF Asks, Shaped, Billed
<1>4. Changes(n, n, o) /\ Bills(o)
  BY <1>3 DEF Compensate, SetStripe, Bills
<1>5. ~strained => n = bought /\ o = owner
  BY <1>0, <1>3 DEF Asks, Trusts, Reliable
<1> HIDE DEF n, o
<1>6. /\ quantity' = n /\ meta' = n /\ owner' = o /\ events' \subseteq Snapshot
      /\ Live' \in events'
  BY <1>0, <1>3, <1>4, Changed
<1> USE DEF Becomes, Ends, tableVars, checkoutVars, lockVars, historyVars
<1>7. TypeOK'
  BY <1>0, <1>1, <1>2, <1>3, <1>6 DEF TypeOK
<1>8. Grows /\ Others(r)
  BY <1>1, <1>2 DEF Grows
<1>9. Rows'
  BY <1>1, <1>3, <1>4, <1>8, RowsBilled
<1>10. Opening' /\ Quiet' /\ \A q \in Requests \ {r} : Asks(q)'
  BY <1>1, <1>2, <1>3, <1>4, <1>8, OthersBilled
<1>11. Stands'
  BY <1>1, <1>3, <1>5, <1>6 DEF IInv, Stands, Level
<1>12. (\A c \in Ids : Locked(c))'
  BY <1>0, <1>1, <1>2, <1>8 DEF IInv, Locked, Billing, MovesAnchor, Others, Typed
<1>13. Asks(r)'
  BY <1>0, <1>1, <1>2, IdleAsks DEF Typed
<1> QED BY <1>7, <1>9, <1>10, <1>11, <1>12, <1>13 DEF IInv, Rows

-----------------------------------------------------------------------------
\* A step of no request, or of one that was idle or ends: the locks stay.
LEMMA LockedStays ==
  ASSUME IInv, NEW r \in Requests, Others(r), req[r].step \in {"idle", "sync"},
         UNCHANGED lockVars, UNCHANGED businesses
  PROVE  \A b \in Ids : Locked(b)'
BY WellTyped DEF IInv, Locked, Billing, MovesAnchor, Others, lockVars, Typed

\* The quantity is set at Stripe; the row is to follow.
LEMMA PatchSlotsKeeps ==
  ASSUME IInv, NEW r \in Requests, NEW n \in 0..MaxSlots, PatchSlots(r, n)
  PROVE  IInv'
<1> USE BusinessesConstants
<1>0. TypeOK /\ Typed
  BY WellTyped DEF IInv
<1>1. /\ UNCHANGED <<tableVars, checkoutVars, lockVars, faults, overlapped, midway, bereft>>
      /\ n \in Nat /\ req[r].step = "idle" /\ edits' \in Nat /\ bought' \in Nat
  BY <1>0 DEF PatchSlots, Remember, Edit, TypeOK
<1>2. Anchored /\ Anchor \in Ids /\ kind[Anchor] = "stripe"
  BY AnchorHeld DEF PatchSlots, Anchored
<1>3. owner # 0 /\ owner \in Ids /\ owner <= born
  BY <1>0, <1>2 DEF Anchored, Typed, IInv, Located
<1>4. SlotsOf(n, meta) \in Nat /\ meta \in Nat
  BY <1>0, <1>1 DEF SlotsOf, TypeOK
<1>5. PICK a \in Ids : a = Anchor /\ a \in businesses
        /\ Becomes(r, "sync", "slots", 0, a, 0, "none", 0, SlotsOf(n, meta), NoUndo)
  <2> DEFINE m == SlotsOf(n, meta)
             a == Anchor
  <2> HIDE DEF m, a
  <2>1. [Idle EXCEPT !.step = "sync", !.op = "slots", !.anchor = a, !.next = m] \in Asked
    BY <1>2, <1>4 DEF Idle, NoUndo, Asked, Steps, Kinds, m, a
  <2>2. req' = [req EXCEPT ![r] = [Idle EXCEPT !.step = "sync", !.op = "slots", !.anchor = a,
          !.next = m]]
    BY DEF PatchSlots, m, a
  <2>3. req' \in [Requests -> Asked] /\ Others(r) /\ req'[r] = [Idle EXCEPT !.step = "sync",
          !.op = "slots", !.anchor = a, !.next = m]
    BY <1>0, <2>1, <2>2 DEF TypeOK, Others
  <2>4. Becomes(r, "sync", "slots", 0, a, 0, "none", 0, m, NoUndo)
    BY <2>3 DEF Becomes, Idle
  <2> QED BY <1>2, <2>4 DEF m, a, Anchored
<1>6. /\ strained' \in BOOLEAN /\ (strained => strained')
      /\ ~strained' => /\ SlotsOf(n, meta) = n /\ bought' = n /\ events = {}
                       /\ \A s \in Requests : req[s].step = "idle"
  <2>1. strained' = (strained \/ Busy # {} \/ events # {} \/ SlotsOf(n, meta) # n)
    BY Zenon DEF PatchSlots, Remember
  <2>2. ~strained' => bought' = n
    BY DEF PatchSlots, Remember
  <2>3. ~strained' => \A s \in Requests : req[s].step = "idle"
    BY <2>1 DEF Busy
  <2>4. /\ strained' \in BOOLEAN /\ (strained => strained')
        /\ (~strained' => events = {} /\ SlotsOf(n, meta) = n)
    BY <1>0, <2>1, Zenon DEF TypeOK
  <2> QED BY <2>2, <2>3, <2>4
<1>7. Bills(owner)
  BY <1>3 DEF Bills
<1>8. Changes(n, meta, owner) \/ (UNCHANGED stripeVars /\ n = quantity)
  BY DEF PatchSlots
<1>9. Changes(n, meta, owner) =>
        /\ quantity' = n /\ meta' = meta /\ owner' = owner /\ events' \subseteq Snapshot
        /\ Live' \in events'
  BY <1>0, <1>1, <1>3, <1>4, Changed
<1> USE DEF Becomes, tableVars, checkoutVars, lockVars
<1>10. TypeOK'
  <2>1. Flags'
    BY <1>0, <1>1, <1>6, Zenon DEF Flags, TypeOK
  <2>2. Numbers'
    BY <1>0, <1>1, <1>5, <1>8, <1>9 DEF TypeOK, Numbers, stripeVars
  <2> QED BY <2>1, <2>2, Zenon DEF TypeOK, Flags, Numbers
<1>11. Grows /\ Others(r)
  BY <1>1, <1>5, <1>6 DEF Grows
<1>12. Rows'
  BY <1>1, <1>3, <1>4, <1>7, <1>8, <1>11, RowsBilled, RowsKept
<1>13. owner' = owner /\ quantity' = n /\ meta' = meta
  BY <1>8, <1>9 DEF stripeVars
<1>14. Opening'
  BY <1>1, <1>5, <1>11, <1>13, OpeningKept DEF Others
<1>15. Quiet'
  BY <1>1, <1>6, <1>11 DEF IInv, Quiet, Others
<1>16. ~strained' => Anchor = owner
  BY <1>2, <1>11 DEF Anchored, Reliable, Grows
<1>17. Stands'
  <2> SUFFICES ASSUME ~strained' PROVE Stands'
    BY DEF Stands
  <2>1. kind[owner] = "stripe" /\ owner \in businesses /\ (n # 0 \/ meta = 0)
    BY <1>0, <1>1, <1>2, <1>5, <1>6, <1>16 DEF SlotsOf, TypeOK
  <2>2. Live' \in events' \/ slots[owner] = n
    <3>1. CASE Changes(n, meta, owner)
      BY <1>9, <3>1
    <3>2. CASE UNCHANGED stripeVars /\ n = quantity
      <4>1. \A q \in Requests : req[q].undo = NoUndo
        BY <1>6 DEF IInv, Asks, Shaped
      <4> QED BY <1>3, <1>6, <1>11, <3>2, <4>1 DEF IInv, Stands, Level, Grows
    <3> QED BY <1>8, <3>1, <3>2
  <2> QED BY <1>1, <1>6, <1>13, <2>1, <2>2 DEF Stands, Level
<1>18. (\A c \in Ids : Locked(c))'
  BY <1>1, <1>11, LockedStays
<1>19. \A q \in Requests \ {r} : Asks(q)'
  <2> TAKE q \in Requests \ {r}
  <2>0. Asks(q) /\ req'[q] = req[q] /\ (req'[r].op # "delete")
    BY <1>5, <1>11 DEF IInv, Others
  <2>1. (Shaped(q) /\ Room(q))'
    BY <1>1, <1>13, <2>0 DEF Asks, Shaped, Room, MovesAnchor
  <2>2. (Billed(q) /\ KeepsHolder(q))'
    BY <1>1, <1>11, <1>13, <2>0, FlagsGrow DEF Asks, Billed, KeepsHolder, Early, MovesAnchor,
       Holder
  <2>3. Spares(q)'
    BY <1>1, <1>11, <2>0 DEF Asks, Spares, Others
  <2>4. Trusts(q)'
    BY <1>6, <2>0 DEF Asks, Trusts, Shaped
  <2> QED BY <2>1, <2>2, <2>3, <2>4 DEF Asks
<1>20. Asks(r)'
  <2>1. a <= born /\ born \in Nat
    BY <1>0, <1>5 DEF IInv, Located, Typed
  <2> QED BY <1>1, <1>3, <1>5, <1>6, <1>13, <1>16, <2>1 DEF Asks, Shaped, MovesAnchor, Billed,
          Spares, Room, KeepsHolder, Trusts, NoUndo
<1> QED BY <1>10, <1>12, <1>14, <1>15, <1>17, <1>18, <1>19, <1>20 DEF IInv, Rows

\* The row takes the slots of the answer of Stripe, or of the user in a trial.
LEMMA SyncSlotsKeeps ==
  ASSUME IInv, NEW r \in Requests, SyncSlots(r)
  PROVE  IInv'
<1> USE BusinessesConstants
<1>0. TypeOK /\ Typed /\ Asks(r)
  BY WellTyped DEF IInv
<1>1. /\ UNCHANGED <<businesses, born, active, kind, stripeVars, checkoutVars, lockVars, faults,
           edits, historyVars>>
      /\ req[r].step = "sync" /\ req[r].undo = NoUndo /\ req[r].op \in {"slots", "trial"}
      /\ Live' = Live
  BY <1>0, LiveKept DEF SyncSlots, Asks, Shaped, stripeVars
<1>2. Ends(r)
  BY <1>0, EndTo DEF SyncSlots
<1>3. /\ slots' \in [Ids -> Nat]
      /\ \A c \in Ids : slots'[c] # slots[c] =>
           c \in businesses /\ c = req[r].anchor /\ slots'[c] = req[r].next
  BY <1>0 DEF SyncSlots, TypeOK, Typed
<1>4. ~strained /\ owner # 0 /\ slots'[owner] # slots[owner] => slots'[owner] = bought
  <2> SUFFICES ASSUME ~strained, owner # 0, slots'[owner] # slots[owner]
               PROVE  slots'[owner] = bought
    OBVIOUS
  <2>1. owner = req[r].anchor /\ slots'[owner] = req[r].next
    BY <1>0, <1>3 DEF Typed
  <2> QED BY <1>0, <1>1, <2>1 DEF Asks, Trusts
<1> USE DEF Becomes, Ends, checkoutVars, historyVars
<1>5. TypeOK'
  BY <1>0, <1>1, <1>2, <1>3 DEF TypeOK, stripeVars, lockVars
<1>6. Grows /\ Others(r)
  BY <1>1, <1>2 DEF Grows
<1>7. (Located /\ Gone /\ Backed)'
  BY <1>1, <1>3 DEF IInv, Located, Gone, Backed, stripeVars
<1>8. (Single /\ Left /\ Standing /\ OneCustomer)'
  BY <1>1 DEF IInv, Single, Left, Standing, OneCustomer, Holder, Reliable, Orderly, stripeVars
<1>9. Opening'
  BY <1>1, <1>2, <1>6, OpeningKept DEF Others, stripeVars
<1>10. Quiet'
  BY <1>1, <1>2, <1>6, QuietKept DEF Others
<1>11. Stands'
  <2> SUFFICES ASSUME ~strained, owner # 0 PROVE Stands'
    BY <1>1 DEF Stands, stripeVars
  <2>1. \A q \in Requests : req[q].undo = NoUndo
    BY <1>1 DEF IInv, Quiet, Asks, Shaped
  <2> QED BY <1>1, <1>4, <2>1 DEF IInv, Stands, Level, stripeVars
<1>12. (\A c \in Ids : Locked(c))'
  BY <1>1, <1>6, LockedStays
<1>13. \A q \in Requests \ {r} : Asks(q)'
  <2> TAKE q \in Requests \ {r}
  <2>0. Asks(q) /\ req'[q] = req[q] /\ (req'[r].op # "delete")
    BY <1>2, <1>6 DEF IInv, Others
  <2>1. (Shaped(q) /\ Room(q))'
    BY <1>1, <2>0 DEF Asks, Shaped, Room, MovesAnchor, lockVars, stripeVars
  <2>2. (Billed(q) /\ KeepsHolder(q))'
    BY <1>1, <1>6, <2>0, FlagsGrow DEF Asks, Billed, KeepsHolder, Early, MovesAnchor,
       Holder, stripeVars
  <2>3. Spares(q)'
    BY <1>1, <1>6, <2>0 DEF Asks, Spares, Others
  <2>4. Trusts(q)'
    <3>1. ~strained => req[q].step = "idle"
      BY <1>1 DEF IInv, Quiet
    <3> QED BY <1>1, <2>0, <3>1 DEF Asks, Trusts, Shaped, stripeVars
  <2> QED BY <2>1, <2>2, <2>3, <2>4 DEF Asks
<1>14. Asks(r)'
  BY <1>0, <1>1, <1>2, IdleAsks DEF Typed
<1> QED BY <1>5, <1>7, <1>8, <1>9, <1>10, <1>11, <1>12, <1>13, <1>14 DEF IInv

\* Nobody at work, or a flag: the requests rely on nothing that has changed.
LEMMA RequestsKept ==
  ASSUME IInv, Grows, UNCHANGED <<businesses, born, req, userLock, overlapped>>,
         owner # 0 => owner' = owner /\ owner' # 0,
         owner = 0 /\ ~strained' => \A q \in Requests : req[q].step = "idle",
         Orderly' => Holder' = Holder \/ \A q \in Requests : req[q].op # "delete",
         \A q \in Requests : Trusts(q)'
  PROVE  Quiet' /\ \A q \in Requests : Asks(q)'
<1>1. Quiet'
  BY DEF IInv, Quiet, Grows
<1>2. ASSUME NEW q \in Requests PROVE Asks(q)'
  <2>0. Asks(q)
    BY DEF IInv
  <2>1. (Shaped(q) /\ Room(q) /\ Spares(q))'
    BY <2>0 DEF Asks, Shaped, Room, Spares, MovesAnchor
  <2>2. Billed(q)'
    BY <2>0, FlagsGrow DEF Asks, Billed, Shaped, MovesAnchor
  <2>3. KeepsHolder(q)'
    BY <2>0, FlagsGrow DEF Asks, KeepsHolder, Early
  <2> QED BY <2>1, <2>2, <2>3 DEF Asks
<1> QED BY <1>1, <1>2

\* The user confirms slots on the page of Stripe.
LEMMA ConfirmSlotsKeeps ==
  ASSUME IInv, NEW n \in 0..MaxSlots, ConfirmSlots(n)
  PROVE  IInv'
<1> USE BusinessesConstants
<1>0. TypeOK /\ Typed
  BY WellTyped DEF IInv
<1>1. /\ UNCHANGED <<tableVars, checkoutVars, lockVars, req, faults, overlapped, midway, bereft>>
      /\ n \in Nat /\ n # 0 /\ edits' \in Nat /\ bought' \in Nat
      /\ owner # 0 /\ Changes(n, meta, owner) /\ active \in businesses /\ kind[Anchor] = "stripe"
  BY <1>0 DEF ConfirmSlots, Remember, Edit, TypeOK
<1>2. owner \in Ids /\ owner <= born /\ meta \in Nat /\ Bills(owner)
  BY <1>0, <1>1 DEF Typed, IInv, Located, TypeOK, Bills
<1>3. /\ quantity' = n /\ meta' = meta /\ owner' = owner /\ events' \subseteq Snapshot
      /\ Live' \in events'
  BY <1>0, <1>1, <1>2, Changed
<1>4. /\ strained' \in BOOLEAN /\ (strained => strained')
      /\ ~strained' => bought' = n /\ \A s \in Requests : req[s].step = "idle"
  <2>1. strained' = (strained \/ Busy # {} \/ events # {})
    BY Zenon DEF ConfirmSlots, Remember
  <2>2. ~strained' => bought' = n
    BY DEF ConfirmSlots, Remember
  <2>3. ~strained' => \A s \in Requests : req[s].step = "idle"
    BY <2>1 DEF Busy
  <2>4. strained' \in BOOLEAN /\ (strained => strained')
    BY <1>0, <2>1, Zenon DEF TypeOK
  <2> QED BY <2>2, <2>3, <2>4
<1> USE DEF tableVars, checkoutVars, lockVars
<1>5. TypeOK'
  <2>1. Flags'
    BY <1>0, <1>1, <1>4, Zenon DEF Flags, TypeOK
  <2>2. Numbers'
    BY <1>0, <1>1, <1>3 DEF TypeOK, Numbers
  <2> QED BY <2>1, <2>2, Zenon DEF TypeOK, Flags, Numbers
<1>6. Grows
  BY <1>1, <1>4 DEF Grows
<1>7. Rows'
  BY <1>1, <1>2, <1>6, RowsBilled
<1>8. Opening'
  BY <1>1, <1>3, <1>6, OpeningKept
<1>9. Stands'
  <2>1. ~strained' => owner \in businesses
    BY <1>1, <1>6, AnchorHeld DEF Anchored, Reliable, Grows
  <2> QED BY <1>1, <1>3, <1>4, <1>6, <2>1 DEF IInv, Stands, Level, Grows
<1>10. (\A c \in Ids : Locked(c))'
  BY <1>1 DEF IInv, Locked, Billing, MovesAnchor
<1>11. \A q \in Requests : Trusts(q)'
  BY <1>1, <1>4 DEF IInv, Asks, Trusts, Shaped
<1>12. Quiet' /\ \A q \in Requests : Asks(q)'
  BY <1>1, <1>3, <1>4, <1>6, <1>11, RequestsKept DEF Holder
<1> QED BY <1>5, <1>7, <1>8, <1>9, <1>10, <1>12 DEF IInv, Rows

\* A checkout finds the anchor.
LEMMA StartCheckoutKeeps ==
  ASSUME IInv, StartCheckout
  PROVE  IInv'
<1> USE BusinessesConstants
<1>0. TypeOK /\ Typed
  BY WellTyped DEF IInv
<1>1. /\ UNCHANGED <<businesses, born, active, slots, stripeVars, session, lockVars, req, faults,
           edits, overlapped, bereft, bought, strained>>
      /\ owner = 0 /\ opening' = Anchor /\ kind' = Ensured(Anchor)
  BY DEF StartCheckout
<1>2. Anchored
  BY AnchorHeld DEF StartCheckout
<1>3. Ensures(Anchor) /\ Anchor \in Ids
  BY <1>0, <1>1, <1>2, EnsuredRow DEF Anchored
<1>4. /\ midway' \in BOOLEAN /\ (midway => midway')
      /\ ~midway' => \A s \in Requests : req[s].op # "delete"
  <2>1. midway' = (midway \/ Deleting)
    BY DEF StartCheckout
  <2>2. midway' \in BOOLEAN /\ (midway => midway') /\ (~midway' => ~Deleting)
    BY <1>0, <2>1, Zenon DEF TypeOK
  <2> QED BY <2>2 DEF Deleting
<1> USE DEF lockVars
<1>5. TypeOK'
  <2>1. Flags'
    <3>1. (overlapped \in BOOLEAN /\ bereft \in BOOLEAN /\ strained \in BOOLEAN)'
      BY <1>0, <1>1 DEF TypeOK
    <3> QED BY <1>4, <3>1, Zenon DEF Flags
  <2>2. Numbers'
    BY <1>0, <1>1, <1>3 DEF TypeOK, Numbers, Ensures, stripeVars
  <2> QED BY <2>1, <2>2, Zenon DEF TypeOK, Flags, Numbers
<1>6. Grows /\ owner' = owner
  BY <1>1, <1>4 DEF Grows, stripeVars
<1>7. (Located /\ Gone /\ Backed)'
  BY <1>1, <1>2, <1>3 DEF IInv, Located, Gone, Backed, Ensures, Anchored, stripeVars
<1>8. (Single /\ Left)'
  BY <1>1, <1>3, <1>6, FlagsGrow DEF IInv, Single, Left, Ensures, Backed, stripeVars
<1>9. (Standing /\ OneCustomer)'
  BY <1>0, <1>1, <1>3, <1>6, FlagsGrow DEF IInv, Standing, OneCustomer, Holder, Ensures, Typed
<1>10. Opening'
  BY <1>1, <1>2, <1>4, <1>6, FlagsGrow DEF Opening, Holder, Anchored, Orderly
<1>11. Stands'
  BY <1>1, <1>6 DEF Stands
<1>12. (\A c \in Ids : Locked(c))'
  BY <1>1 DEF IInv, Locked, Billing, MovesAnchor
<1>13. \A q \in Requests : Trusts(q)'
  BY <1>1, <1>6 DEF Trusts
<1>14. Quiet' /\ \A q \in Requests : Asks(q)'
  <2>1. \A q \in Requests : Asks(q)'
    BY <1>1, <1>6, <1>13, FlagsGrow DEF IInv, Asks, Shaped, Billed, Spares, Room, KeepsHolder, Early,
       MovesAnchor, Holder
  <2>2. Quiet'
    BY <1>1 DEF IInv, Quiet
  <2> QED BY <2>1, <2>2
<1> QED BY <1>5, <1>7, <1>8, <1>9, <1>10, <1>11, <1>12, <1>14 DEF IInv

\* The session opens: the row it was found for has a customer.
LEMMA OpenSessionKeeps ==
  ASSUME IInv, OpenSession
  PROVE  IInv'
<1> USE BusinessesConstants
<1>0. TypeOK /\ Typed
  BY WellTyped DEF IInv
<1>1. /\ UNCHANGED <<businesses, born, active, slots, stripeVars, lockVars, req, faults, edits,
           historyVars>>
      /\ opening # 0 /\ opening \in Ids /\ opening' = 0
  BY <1>0 DEF OpenSession, Typed
<1>2. \/ UNCHANGED <<kind, session>>
      \/ /\ opening \in businesses /\ owner = 0 /\ session' = opening
         /\ kind' \in [Ids -> Kinds] /\ kind'[opening] = "customer"
         /\ \A c \in Ids \ {opening} : kind'[c] = kind[c]
  BY <1>0, <1>1 DEF OpenSession, TypeOK, Kinds
<1>3. UNCHANGED <<quantity, meta, owner, events>> /\ Live' = Live
  BY <1>1, LiveKept DEF stripeVars
<1> USE DEF lockVars, historyVars
<1>4. TypeOK'
  BY <1>0, <1>1, <1>2, <1>3 DEF TypeOK
<1>5. Grows /\ (Orderly' <=> Orderly) /\ (Reliable' <=> Reliable)
  BY <1>1 DEF Grows, Orderly, Reliable
<1>6. (Located /\ Gone /\ Backed)'
  BY <1>1, <1>2, <1>3 DEF IInv, Located, Gone, Backed
<1>7. (Single /\ Left)'
  BY <1>1, <1>2, <1>3, <1>5 DEF IInv, Single, Left
<1>8. (Standing /\ OneCustomer /\ Opening)'
  BY <1>1, <1>2, <1>3, <1>5 DEF IInv, Standing, OneCustomer, Opening, Holder, Ids
<1>9. Stands'
  BY <1>1, <1>2, <1>3 DEF IInv, Stands, Level
<1>10. (\A c \in Ids : Locked(c))'
  BY <1>1 DEF IInv, Locked, Billing, MovesAnchor
<1>11. \A q \in Requests : Trusts(q)'
  BY <1>1, <1>2, <1>3 DEF IInv, Asks, Trusts, Early, MovesAnchor
<1>12. Orderly => Holder' = Holder \/ \A q \in Requests : req[q].op # "delete"
  BY <1>1 DEF IInv, Opening
<1>13. \A q \in Requests : KeepsHolder(q)'
  BY <1>1, <1>2, <1>3, <1>5, <1>12 DEF IInv, Asks, KeepsHolder, Early, Holder
<1>14. \A q \in Requests : (Shaped(q) /\ Billed(q) /\ Spares(q) /\ Room(q))'
  BY <1>1, <1>3, <1>5 DEF IInv, Asks, Shaped, Billed, Spares, Room, MovesAnchor
<1>15. Quiet'
  BY <1>1 DEF IInv, Quiet
<1> QED BY <1>4, <1>6, <1>7, <1>8, <1>9, <1>10, <1>11, <1>13, <1>14, <1>15 DEF IInv, Asks

\* The user pays: the business of the session is billed from now on.
LEMMA PayCheckoutKeeps ==
  ASSUME IInv, PayCheckout
  PROVE  IInv'
<1> USE BusinessesConstants
<1>0. TypeOK /\ Typed
  BY WellTyped DEF IInv
<1>1. /\ UNCHANGED <<tableVars, opening, lockVars, req, faults, edits, overlapped, midway, bereft>>
      /\ session # 0 /\ session \in Ids /\ owner = 0 /\ session' = 0 /\ Changes(0, 0, session)
  BY <1>0 DEF PayCheckout, Typed
<1>2. /\ quantity' = 0 /\ meta' = 0 /\ owner' = session /\ events' \subseteq Snapshot
      /\ Live' \in events' /\ events' # {} /\ \A e \in events' : e \in events \/ e.business = session
  BY <1>0, <1>1, Changed
<1>3. /\ strained' \in BOOLEAN /\ (strained => strained') /\ bought' = 0
      /\ ~strained' => \A s \in Requests : req[s].step = "idle"
  <2>1. strained' = (strained \/ Busy # {})
    BY Zenon DEF PayCheckout, Remember
  <2>2. bought' = 0
    BY DEF PayCheckout, Remember
  <2>3. ~strained' => \A s \in Requests : req[s].step = "idle"
    BY <2>1 DEF Busy
  <2>4. strained' \in BOOLEAN /\ (strained => strained')
    BY <1>0, <2>1, Zenon DEF TypeOK
  <2> QED BY <2>2, <2>3, <2>4
<1>4. events = {} /\ \A b \in Ids : kind[b] # "stripe"
  BY <1>1 DEF IInv, Backed
<1> USE DEF tableVars, lockVars
<1>5. TypeOK'
  <2>1. Flags'
    BY <1>0, <1>1, <1>3, Zenon DEF Flags, TypeOK
  <2>2. Numbers'
    BY <1>0, <1>1, <1>2, <1>3 DEF TypeOK, Numbers
  <2> QED BY <2>1, <2>2, Zenon DEF TypeOK, Flags, Numbers
<1>6. Grows /\ Holder' = Holder
  BY <1>1, <1>2, <1>3 DEF Grows, Holder
<1>7. (Located /\ Gone /\ Backed)'
  BY <1>1, <1>2 DEF IInv, Located, Gone, Backed
<1>8. (Single /\ Left)'
  BY <1>1, <1>2, <1>4, <1>6 DEF IInv, Single, Left
<1>9. (Standing /\ OneCustomer /\ Opening)'
  BY <1>1, <1>2, <1>6, FlagsGrow DEF IInv, Standing, OneCustomer, Opening
<1>10. Stands'
  BY <1>1, <1>2, <1>3 DEF Stands, Level
<1>11. (\A c \in Ids : Locked(c))'
  BY <1>1 DEF IInv, Locked, Billing, MovesAnchor
<1>12. \A q \in Requests : Trusts(q)'
  BY <1>1, <1>3 DEF IInv, Asks, Trusts, Shaped
<1>13. Quiet' /\ \A q \in Requests : Asks(q)'
  BY <1>1, <1>2, <1>3, <1>6, <1>12, RequestsKept
<1> QED BY <1>5, <1>7, <1>8, <1>9, <1>10, <1>11, <1>13 DEF IInv

\* A handler fetches the subscription.
LEMMA FetchSubscriptionKeeps ==
  ASSUME IInv, FetchSubscription
  PROVE  IInv'
<1> USE BusinessesConstants
<1>0. TypeOK /\ Typed
  BY WellTyped DEF IInv
<1>1. /\ UNCHANGED <<tableVars, quantity, meta, owner, checkoutVars, lockVars, req, faults, edits,
           historyVars>>
      /\ owner # 0 /\ events' = events \union {Live} /\ Live' = Live /\ Live.business = owner
  BY LiveKept DEF FetchSubscription, Live
<1>2. Live \in Snapshot
  BY <1>0, <1>1 DEF Live, Snapshot, SlotsOf, TypeOK
<1> USE DEF tableVars, checkoutVars, lockVars, historyVars
<1>3. TypeOK'
  BY <1>0, <1>1, <1>2 DEF TypeOK
<1>4. Grows /\ Holder' = Holder
  BY <1>1 DEF Grows, Holder
<1>5. (Located /\ Gone /\ Backed)'
  BY <1>1 DEF IInv, Located, Gone, Backed
<1>6. (Single /\ Left)'
  BY <1>1, <1>4, FlagsGrow DEF IInv, Single, Left
<1>7. (Standing /\ OneCustomer /\ Opening)'
  BY <1>1, <1>4, FlagsGrow DEF IInv, Standing, OneCustomer, Opening
<1>8. Stands'
  BY <1>1 DEF IInv, Stands, Level
<1>9. (\A c \in Ids : Locked(c))'
  BY <1>1 DEF IInv, Locked, Billing, MovesAnchor
<1>10. \A q \in Requests : Trusts(q)'
  BY <1>1 DEF IInv, Asks, Trusts, Early, MovesAnchor
<1>11. Quiet' /\ \A q \in Requests : Asks(q)'
  BY <1>1, <1>4, <1>10, RequestsKept
<1> QED BY <1>3, <1>5, <1>6, <1>7, <1>8, <1>9, <1>11 DEF IInv

\* A snapshot brings its row what Stripe had when it was taken.
LEMMA SyncFromStripeKeeps ==
  ASSUME IInv, NEW e \in events, SyncFromStripe(e)
  PROVE  IInv'
<1> USE BusinessesConstants
<1>0. TypeOK /\ Typed
  BY WellTyped DEF IInv
<1>1. e \in Snapshot /\ e.business \in Ids /\ e.slots \in Nat /\ owner # 0
  BY <1>0 DEF TypeOK, Snapshot, IInv, Backed
<1>2. /\ UNCHANGED <<businesses, born, active, quantity, meta, owner, checkoutVars, lockVars, req,
           faults, edits, overlapped, midway, bereft>>
      /\ e.business \in businesses /\ events' = events \ {e} /\ Live' = Live /\ bought' \in Nat
  BY <1>0, LiveKept DEF SyncFromStripe, Remember, TypeOK
<1>3. /\ kind' \in [Ids -> Kinds] /\ kind'[e.business] = "stripe"
      /\ \A c \in Ids \ {e.business} : kind'[c] = kind[c]
      /\ slots' \in [Ids -> Nat] /\ slots'[e.business] = e.slots
      /\ \A c \in Ids \ {e.business} : slots'[c] = slots[c]
  BY <1>0, <1>1 DEF SyncFromStripe, TypeOK, Kinds, Takes
<1>4. /\ strained' \in BOOLEAN /\ (strained => strained')
      /\ ~strained' => bought' = bought /\ (e = Live \/ Live \in events')
  <2>1. strained' = (strained \/ (e # Live /\ Live \notin events))
    BY Zenon DEF SyncFromStripe, Remember
  <2>2. ~strained' => bought' = bought
    BY DEF SyncFromStripe, Remember
  <2>3. strained' \in BOOLEAN /\ (strained => strained')
    BY <1>0, <2>1, Zenon DEF TypeOK
  <2> QED BY <1>2, <2>1, <2>2, <2>3
<1> USE DEF checkoutVars, lockVars
<1>5. TypeOK'
  <2>1. Flags'
    BY <1>0, <1>2, <1>4, Zenon DEF Flags, TypeOK
  <2>2. Numbers'
    BY <1>0, <1>2, <1>3, <1>4 DEF TypeOK, Numbers
  <2> QED BY <2>1, <2>2, Zenon DEF TypeOK, Flags, Numbers
<1>6. Grows /\ Holder' = Holder
  BY <1>2, <1>4 DEF Grows, Holder
<1>7. Reliable => e.business = owner
  BY DEF IInv, Single
<1>8. (Located /\ Gone /\ Backed)'
  BY <1>1, <1>2, <1>3 DEF IInv, Located, Gone, Backed
<1>9. (Single /\ Left)'
  BY <1>2, <1>3, <1>6, <1>7, FlagsGrow DEF IInv, Single, Left
<1>10. (Standing /\ OneCustomer /\ Opening)'
  BY <1>1, <1>2, <1>3, <1>6, <1>7, FlagsGrow DEF IInv, Standing, OneCustomer, Opening, Holder, Reliable
<1>11. ~strained' => ~strained /\ (Live \in events' \/ slots'[owner] = quantity) /\ e.business = owner
  <2> SUFFICES ASSUME ~strained' PROVE ~strained /\ (Live \in events' \/ slots'[owner] = quantity)
                                       /\ e.business = owner
    OBVIOUS
  <2>1. ~strained /\ e.business = owner
    BY <1>6, <1>7 DEF Grows, Reliable
  <2>2. Live.slots = quantity
    <3>1. quantity # 0 \/ meta = 0
      BY <1>1, <2>1 DEF IInv, Stands
    <3>2. Live.slots = SlotsOf(quantity, meta)
      BY DEF Live
    <3> QED BY <3>1, <3>2 DEF SlotsOf
  <2> QED BY <1>3, <1>4, <2>1, <2>2
<1>12. Stands'
  BY <1>1, <1>2, <1>3, <1>4, <1>11 DEF IInv, Stands, Level
<1>13. (\A c \in Ids : Locked(c))'
  BY <1>2 DEF IInv, Locked, Billing, MovesAnchor
<1>14. \A q \in Requests : Trusts(q)'
  <2> SUFFICES ASSUME ~strained', NEW q \in Requests PROVE Trusts(q)'
    BY DEF Trusts
  <2>1. Asks(q) /\ kind'[owner] = "stripe"
    BY <1>3, <1>11 DEF IInv
  <2> QED BY <1>1, <1>2, <1>4, <1>11, <2>1 DEF Asks, Trusts, Early, MovesAnchor
<1>15. Quiet' /\ \A q \in Requests : Asks(q)'
  BY <1>1, <1>2, <1>6, <1>14, RequestsKept
<1> QED BY <1>5, <1>8, <1>9, <1>10, <1>12, <1>13, <1>15 DEF IInv

\* A snapshot comes for a business that is gone.
LEMMA EventForNobodyKeeps ==
  ASSUME IInv, NEW e \in events, EventForNobody(e)
  PROVE  IInv'
<1> USE BusinessesConstants
<1>0. TypeOK /\ Typed
  BY WellTyped DEF IInv
<1>1. /\ UNCHANGED <<tableVars, quantity, meta, owner, checkoutVars, lockVars, req, faults, edits,
           historyVars>>
      /\ owner # 0 /\ events' = events \ {e} /\ Live' = Live /\ e.business \notin businesses
      /\ Reliable => owner \notin businesses
  BY LiveKept DEF EventForNobody, IInv, Single, Backed
<1> USE DEF tableVars, checkoutVars, lockVars, historyVars
<1>2. TypeOK'
  BY <1>0, <1>1 DEF TypeOK
<1>3. Grows /\ Holder' = Holder
  BY <1>1 DEF Grows, Holder
<1>4. (Located /\ Gone /\ Backed)'
  BY <1>1 DEF IInv, Located, Gone, Backed
<1>5. (Single /\ Left)'
  BY <1>1, <1>3, FlagsGrow DEF IInv, Single, Left
<1>6. (Standing /\ OneCustomer /\ Opening)'
  BY <1>1, <1>3, FlagsGrow DEF IInv, Standing, OneCustomer, Opening, Holder, Reliable
<1>7. ~strained => quantity = 0 /\ bought = 0 /\ slots[owner] = 0
  BY <1>0, <1>1 DEF IInv, Stands, Gone, Reliable, Typed
<1>8. Stands'
  BY <1>1, <1>7 DEF IInv, Stands, Level, Reliable
<1>9. (\A c \in Ids : Locked(c))'
  BY <1>1 DEF IInv, Locked, Billing, MovesAnchor
<1>10. \A q \in Requests : Trusts(q)'
  <2> SUFFICES ASSUME ~strained, NEW q \in Requests PROVE Trusts(q)'
    BY <1>1 DEF Trusts
  <2>1. Asks(q) /\ owner \notin businesses
    BY <1>1 DEF IInv, Reliable
  <2>2. req[q].undo = NoUndo
    BY <1>1, <2>1 DEF Asks, Trusts, Billed, Shaped, Reliable
  <2> QED BY <1>1, <2>1, <2>2 DEF Asks, Trusts, Early, MovesAnchor
<1>11. Quiet' /\ \A q \in Requests : Asks(q)'
  BY <1>1, <1>3, <1>10, RequestsKept
<1> QED BY <1>2, <1>4, <1>5, <1>6, <1>8, <1>9, <1>11 DEF IInv

-----------------------------------------------------------------------------
\* A request that is left alone keeps its shape when ids are given out.
LEMMA ShapedKept ==
  ASSUME TypeOK, NEW q \in Requests, Shaped(q), req'[q] = req[q], UNCHANGED owner,
         born' \in Nat, born <= born', userLock = q => userLock' = q
  PROVE  Shaped(q)'
<1> USE BusinessesConstants
<1>1. born \in Nat /\ born' \in Nat /\ 1..born \subseteq 1..born'
  BY DEF TypeOK
<1>2. /\ req[q].anchor \in Nat /\ req[q].successor \in Nat /\ req[q].undo.owner \in Nat
  BY AskedFields DEF Ids
<1>3. /\ req[q].op = "delete" => req[q].target \in 1..born'
      /\ req[q].anchor <= born' /\ req[q].successor <= born' /\ req[q].undo.owner <= born'
  BY <1>1, <1>2 DEF Shaped
<1> QED BY <1>3 DEF Shaped, MovesAnchor

\* A default business is made for a user who has none, or another has made it.
LEMMA EnterCreatesKeeps ==
  ASSUME IInv, NEW r \in Requests, EnterCreates(r)
  PROVE  IInv'
<1> USE BusinessesConstants
<1>0. TypeOK /\ Typed
  BY WellTyped DEF IInv
<1>1. Ends(r)
  BY <1>0, EndTo DEF EnterCreates
<1>2. /\ UNCHANGED <<kind, slots, stripeVars, checkoutVars, lockVars, faults, edits, historyVars>>
      /\ userLock = None /\ req[r].step = "enter" /\ Live' = Live
  BY LiveKept DEF EnterCreates, stripeVars
<1>3. \/ UNCHANGED <<businesses, born, active>>
      \/ /\ active \notin businesses /\ businesses' = businesses \union {born + 1}
         /\ born' = born + 1 /\ active' = born + 1 /\ born < MaxIds
  BY DEF EnterCreates, Rechecked, New
<1>4. born < MaxIds => Fits(born + 1)
  BY <1>0, NextId DEF IInv
<1> USE DEF Becomes, Others, Ends, stripeVars, checkoutVars, lockVars, historyVars
<1>5. TypeOK'
  BY <1>0, <1>1, <1>2, <1>3, <1>4 DEF TypeOK, Fits
<1>6. (Located /\ Gone /\ Backed)'
  BY <1>0, <1>2, <1>3, <1>4 DEF IInv, Located, Gone, Backed, Fits
<1>7. (Single /\ Left)'
  BY <1>2, <1>3, <1>4 DEF IInv, Single, Left, Reliable, Orderly
<1>8. (Standing /\ OneCustomer /\ Opening)'
  BY <1>1, <1>2, <1>3, <1>4 DEF IInv, Standing, OneCustomer, Opening, Holder, Orderly
<1>9. (Quiet /\ Stands)'
  <2>1. ~strained => active \in businesses \/ UNCHANGED <<businesses, born, active>>
    BY <1>3 DEF IInv, Quiet, Left, Located
  <2>2. Quiet'
    BY <1>1, <1>2 DEF IInv, Quiet
  <2>3. Stands'
    <3>1. ~strained => businesses' = businesses
      BY <1>3, <2>1
    <3>2. ~strained => \A q \in Requests : req'[q].undo = NoUndo => req[q].undo = NoUndo
      BY <1>1, <1>2 DEF IInv, Asks, Shaped
    <3> QED BY <1>2, <3>1, <3>2 DEF IInv, Stands, Level
  <2> QED BY <2>2, <2>3
<1>10. (\A c \in Ids : Locked(c))'
  BY <1>0, <1>1, <1>2, <1>3 DEF IInv, Locked, Billing, MovesAnchor, Typed
<1>11. \A q \in Requests \ {r} : Asks(q)'
  <2> TAKE q \in Requests \ {r}
  <2>0. Asks(q) /\ req'[q] = req[q]
    BY <1>1 DEF IInv
  <2>1. Shaped(q)'
    <3>1. born' \in Nat /\ born <= born'
      BY <1>0, <1>3 DEF Typed
    <3> QED BY <1>0, <1>2, <2>0, <3>1, ShapedKept DEF Asks
  <2>2. Room(q)'
    BY <1>2, <2>0 DEF Asks, Shaped, Room
  <2>3. (Billed(q) /\ Spares(q))'
    BY <1>1, <1>2, <1>3, <1>4, <2>0 DEF IInv, Located, Asks, Billed, Spares, MovesAnchor, Reliable, Orderly
  <2>4. KeepsHolder(q)'
    BY <1>2, <2>0 DEF Asks, KeepsHolder, Early, Holder, Orderly
  <2>5. Trusts(q)'
    <3>1. ~strained => req[q].op = "none" /\ req[q].undo = NoUndo
      BY <1>2, <2>0 DEF IInv, Quiet, Asks, Shaped
    <3> QED BY <1>2, <2>0, <3>1 DEF Asks, Trusts, Shaped
  <2> QED BY <2>1, <2>2, <2>3, <2>4, <2>5 DEF Asks
<1>12. Asks(r)'
  BY <1>1, <1>5, IdleAsks DEF TypeOK
<1> QED BY <1>5, <1>6, <1>7, <1>8, <1>9, <1>10, <1>11, <1>12 DEF IInv

\* A business is created and the transaction commits.
LEMMA CommitCreateKeeps ==
  ASSUME IInv, NEW r \in Requests, CommitCreate(r)
  PROVE  IInv'
<1> USE BusinessesConstants
<1>0. TypeOK /\ Typed /\ Asks(r)
  BY WellTyped DEF IInv
<1>1. /\ UNCHANGED <<stripeVars, checkoutVars, faults, edits, overlapped, midway, bereft, strained>>
      /\ req[r].step = "commit" /\ req[r].op \in {"create", "provision"} /\ Live' = Live
  BY LiveKept DEF CommitCreate, stripeVars
<1>2. /\ born < MaxIds /\ businesses' = businesses \union {born + 1}
      /\ born' = born + 1 /\ active' = born + 1
  BY DEF CommitCreate, New
<1>3. Fits(born + 1)
  BY <1>0, <1>2, NextId DEF IInv
<1>4. Ends(r) /\ Frees(r)
  BY <1>0, EndTo, Freed DEF CommitCreate
<1>5. /\ kind' \in [Ids -> Kinds]
      /\ \A c \in Ids : kind'[c] = kind[c] \/ (c = born + 1 /\ kind'[c] \in {"copy", "trial"})
  BY <1>0, <1>1, <1>3 DEF CommitCreate, New, TypeOK, Kinds, Fits, Asks, Shaped
<1>6. /\ slots' \in [Ids -> Nat] /\ bought' \in Nat
      /\ req[r].op = "create" => UNCHANGED <<slots, bought>>
      /\ \A c \in Ids : slots'[c] # slots[c] => c \in businesses /\ c = req[r].anchor
  BY <1>0, <1>1 DEF CommitCreate, TypeOK, Typed
<1>7. req[r].op # "create" /\ ~strained =>
        /\ bought' = IF req[r].kind = "stripe" THEN req[r].next ELSE bought
        /\ req[r].anchor \in businesses => slots'[req[r].anchor] = req[r].next
  BY <1>0 DEF CommitCreate, TypeOK, Typed
<1>8. userLock = r
  BY <1>0, <1>1 DEF Asks, Shaped
<1> USE DEF Becomes, Others, Ends, stripeVars, checkoutVars
<1>9. TypeOK'
  BY <1>0, <1>1, <1>2, <1>3, <1>4, <1>5, <1>6 DEF TypeOK, Fits, Frees
<1>10. Located'
  BY <1>0, <1>1, <1>2, <1>3 DEF IInv, Located, Fits
<1>11. (Gone /\ Backed)'
  BY <1>1, <1>2, <1>3, <1>5, <1>6 DEF IInv, Gone, Backed, Fits
<1>12. (Single /\ Left)'
  BY <1>1, <1>2, <1>5 DEF IInv, Single, Left, Reliable, Orderly
<1>13. (Standing /\ OneCustomer /\ Opening)'
  BY <1>0, <1>1, <1>2, <1>3, <1>4, <1>5 DEF IInv, Standing, OneCustomer, Opening, Holder, Orderly,
     Fits, Typed
<1>14. Quiet'
  BY <1>1, <1>4 DEF IInv, Quiet
<1>15. Stands'
  <2> SUFFICES ASSUME ~strained, owner # 0
               PROVE  /\ owner \in businesses' => kind'[owner] = "stripe" \/ Live \in events
                      /\ owner \notin businesses' => quantity = 0 /\ bought' = 0
                      /\ quantity = bought' /\ (Live \in events \/ slots'[owner] = bought')
    BY <1>1 DEF IInv, Stands, Level
  <2>1. owner \in Ids /\ (owner \in businesses' <=> owner \in businesses) /\ kind'[owner] = kind[owner]
    BY <1>0, <1>2, <1>3, <1>5 DEF Typed, Fits
  <2>2. owner \in businesses' => kind'[owner] = "stripe" \/ Live \in events
    BY <2>1 DEF IInv, Stands
  <2>3. CASE req[r].undo # NoUndo
    <3>1. quantity = req[r].next /\ (Live \in events \/ slots[owner] = req[r].next)
      BY <1>0, <2>3 DEF Asks, Trusts
    <3>2. req[r].op = "provision" /\ req[r].kind = "stripe" /\ req[r].anchor = owner /\
            owner \in businesses
      BY <1>0, <1>1, <2>3 DEF Asks, Billed, Shaped, Trusts, Reliable
    <3> QED BY <1>7, <2>1, <2>2, <3>1, <3>2
  <2>4. CASE req[r].undo = NoUndo
    <3>1. \A q \in Requests : req[q].undo = NoUndo
      BY <1>1, <2>4 DEF IInv, Quiet, Asks, Shaped
    <3>2. quantity = bought /\ (Live \in events \/ slots[owner] = bought)
          /\ (owner \notin businesses => bought = 0)
      BY <3>1 DEF IInv, Stands, Level
    <3>3. CASE req[r].op = "create"
      BY <1>6, <2>1, <2>2, <3>2, <3>3
    <3>4. CASE req[r].op = "provision"
      <4>1. req[r].kind # "stripe" /\ req[r].anchor # owner
        BY <1>0, <1>1, <2>4, <3>4 DEF Asks, Shaped, Trusts, MovesAnchor
      <4> QED BY <1>6, <1>7, <2>1, <2>2, <3>2, <3>4, <4>1
    <3> QED BY <1>1, <3>3, <3>4
  <2> QED BY <2>3, <2>4
<1>16. (\A c \in Ids : Locked(c))'
  BY <1>0, <1>2, <1>4 DEF IInv, Locked, Billing, MovesAnchor, Frees, Typed
<1>17. \A q \in Requests \ {r} : Asks(q)'
  <2> TAKE q \in Requests \ {r}
  <2>0. Asks(q) /\ req'[q] = req[q] /\ ~(req[q].op = "create" /\ req[q].step = "commit")
    BY <1>4, <1>8 DEF IInv, Asks, Shaped
  <2>1. Shaped(q)'
    <3>1. born' \in Nat /\ born <= born'
      BY <1>0, <1>2 DEF Typed
    <3> QED BY <1>0, <1>1, <1>4, <2>0, <3>1, ShapedKept DEF Asks, Frees
  <2>2. Room(q)'
    BY <2>0 DEF Room
  <2>3. (Billed(q) /\ Spares(q))'
    BY <1>1, <1>2, <1>3, <1>4, <2>0 DEF Asks, Billed, Spares, MovesAnchor, Reliable, Orderly,
       Fits, Shaped
  <2>4. KeepsHolder(q)'
    BY <1>1, <2>0 DEF Asks, KeepsHolder, Early, Holder, Orderly
  <2>5. Trusts(q)'
    <3>1. ~strained => req[q].op = "none" /\ req[q].undo = NoUndo
      BY <1>1, <2>0 DEF IInv, Quiet, Asks, Shaped
    <3> QED BY <1>1, <2>0, <3>1 DEF Asks, Trusts, Shaped
  <2> QED BY <2>1, <2>2, <2>3, <2>4, <2>5 DEF Asks
<1>18. Asks(r)'
  BY <1>4, <1>9, IdleAsks DEF TypeOK
<1> QED BY <1>9, <1>10, <1>11, <1>12, <1>13, <1>14, <1>15, <1>16, <1>17, <1>18 DEF IInv

\* A business is deleted and the transaction commits.
LEMMA CommitDeleteKeeps ==
  ASSUME IInv, NEW r \in Requests, CommitDelete(r)
  PROVE  IInv'
<1> USE BusinessesConstants
<1>0. TypeOK /\ Typed /\ Asks(r)
  BY WellTyped DEF IInv
<1>1. /\ UNCHANGED <<born, stripeVars, checkoutVars, faults, edits, overlapped, midway, bereft,
           strained>>
      /\ req[r].step = "commit" /\ req[r].op = "delete" /\ Live' = Live
      /\ rowLock[req[r].target] \in {None, r}
  BY LiveKept DEF CommitDelete, stripeVars
<1>2. PICK b \in Ids : b = req[r].target
  BY <1>0, <1>1 DEF Asks, Shaped, Typed, Ids
<1>3. b = req[r].target /\ businesses' = businesses \ {b} /\
        active' = IF active = b THEN Oldest(businesses \ {b}) ELSE active
  BY <1>2 DEF CommitDelete
<1>4. Ends(r) /\ Frees(r)
  BY <1>0, EndTo, Freed DEF CommitDelete
<1>5. kind' \in [Ids -> Kinds] /\ kind'[b] = "none" /\ slots'[b] = 0
  BY <1>0, <1>2, AskedFields DEF CommitDelete, TypeOK, Kinds
<1>6. \A c \in Ids : c # b /\ kind'[c] # kind[c] =>
         /\ c = Billing(r) /\ rowLock[c] = r /\ MovesAnchor(r)
         /\ kind'[c] = req[r].kind /\ kind'[c] # "customer"
  <2> TAKE c \in Ids
  <2> SUFFICES ASSUME c # b, kind'[c] # kind[c]
               PROVE  /\ c = Billing(r) /\ rowLock[c] = r /\ MovesAnchor(r)
                      /\ kind'[c] = req[r].kind /\ kind'[c] # "customer"
    OBVIOUS
  <2>1. c = Billing(r) /\ rowLock[c] = r /\ MovesAnchor(r) /\ kind'[c] = req[r].kind
    BY <1>2 DEF CommitDelete
  <2> QED BY <1>0, <1>1, <2>1 DEF Asks, Shaped
<1>7. slots' \in [Ids -> Nat]
  BY <1>0, <1>2, AskedFields DEF CommitDelete, TypeOK
<1>8. \A c \in Ids : c # b /\ slots'[c] # slots[c] => c = Billing(r) /\ rowLock[c] = r /\
        slots'[c] = req[r].next /\ c \in businesses
  <2>1. \A c \in Ids : c # b /\ slots'[c] # slots[c] => c = Billing(r) /\ rowLock[c] = r /\
        slots'[c] = req[r].next
    BY <1>2 DEF CommitDelete
  <2> QED BY <2>1 DEF IInv, Locked
<1>9. bought' = IF req[r].undo # NoUndo /\ ~strained THEN req[r].next ELSE bought
  BY DEF CommitDelete
<1>10. /\ active' \in Ids \union {0}
       /\ active' \in businesses' \/ (active' = 0 /\ businesses' = {})
  <2>1. CASE active = b
    BY <1>0, <1>3, <2>1, OldestIn DEF Typed
  <2>2. CASE active # b
    BY <1>0, <1>3, <2>2 DEF Typed, IInv, Located
  <2> QED BY <2>1, <2>2
<1>11. bought' \in Nat
  BY <1>0, <1>9 DEF TypeOK, Typed
<1>12. /\ Cardinality(businesses') \in Nat
       /\ Cardinality(businesses') <= Cardinality(businesses)
  BY <1>0, <1>3, SomeBusinesses, FS_Subset, FS_CardinalityType
<1>13. /\ Reliable /\ MovesAnchor(r) => req[r].kind # "stripe"
       /\ Orderly => Holder # b
       /\ ~strained => owner # b /\ (owner \in businesses => ~MovesAnchor(r))
  <2>1. Orderly => Holder # b
    BY <1>0, <1>1, <1>2 DEF Asks, KeepsHolder, Early, Ids
  <2>2. ~strained => owner # b
    BY <1>0, <1>1, <1>2 DEF Asks, Trusts, Early, Ids
  <2>3. ~strained /\ owner \in businesses => ~MovesAnchor(r)
    BY <1>0, <1>1, <1>2, <2>2 DEF Asks, Trusts, MovesAnchor, Typed, Ids
  <2>4. Reliable /\ MovesAnchor(r) => req[r].kind # "stripe"
    BY <1>0, <1>2, <2>1, <2>2 DEF Asks, Billed, Shaped, Reliable, MovesAnchor, Holder
  <2> QED BY <2>1, <2>2, <2>3, <2>4
<1> USE DEF Becomes, Others, Ends, stripeVars, checkoutVars
<1>14. TypeOK'
  BY <1>0, <1>1, <1>3, <1>4, <1>5, <1>7, <1>10, <1>11 DEF TypeOK, Typed, Frees
<1>15. Located'
  BY <1>0, <1>1, <1>3, <1>10 DEF IInv, Located
<1>16. Gone'
  BY <1>3, <1>5, <1>8 DEF IInv, Gone
<1>17. Backed'
  BY <1>0, <1>1, <1>5, <1>6 DEF IInv, Backed, Asks, Shaped
<1>18. Single'
  BY <1>1, <1>5, <1>6, <1>13 DEF IInv, Single, Reliable, Orderly
<1>19. Left'
  BY <1>0, <1>1, <1>3 DEF IInv, Left, Asks, Spares
<1>20. OneCustomer'
  BY <1>1, <1>5, <1>6 DEF IInv, OneCustomer, Holder, Orderly
<1>21. Standing'
  <2> SUFFICES ASSUME Orderly, Holder # 0
               PROVE  Holder \in businesses' /\ kind'[Holder] = kind[Holder]
    BY <1>1 DEF IInv, Standing, Holder, Orderly
  <2>1. Holder \in businesses /\ Holder # b /\ Holder \in Ids
    BY <1>0, <1>13 DEF IInv, Standing, Typed
  <2>2. ~MovesAnchor(r)
    BY <1>0, <1>1, <1>2, <2>1 DEF Asks, KeepsHolder, MovesAnchor
  <2> QED BY <1>3, <1>6, <2>1, <2>2
<1>22. Opening'
  <2>1. Orderly => opening = 0
    BY <1>1 DEF IInv, Opening
  <2> QED BY <1>1, <2>1 DEF Opening, Orderly
<1>23. Quiet'
  BY <1>1, <1>4 DEF IInv, Quiet
<1>24. Stands'
  <2> SUFFICES ASSUME ~strained, owner # 0
               PROVE  /\ owner \in businesses' => kind'[owner] = "stripe" \/ Live \in events
                      /\ owner \notin businesses' => quantity = 0 /\ bought' = 0
                      /\ quantity = bought' /\ (Live \in events \/ slots'[owner] = bought')
    BY <1>1 DEF IInv, Stands, Level
  <2>1. owner \in Ids /\ owner # b /\ (owner \in businesses' <=> owner \in businesses)
    BY <1>0, <1>3, <1>13 DEF Typed
  <2>2. owner \in businesses => ~MovesAnchor(r) /\ kind'[owner] = kind[owner]
    BY <1>6, <1>13, <2>1
  <2>3. owner \in businesses' => kind'[owner] = "stripe" \/ Live \in events
    BY <2>1, <2>2 DEF IInv, Stands
  <2>4. CASE req[r].undo # NoUndo
    <3>1. quantity = req[r].next /\ (Live \in events \/ slots[owner] = req[r].next) /\
            bought' = req[r].next
      BY <1>0, <1>9, <2>4 DEF Asks, Trusts
    <3>2. owner \in businesses
      BY <1>0, <1>1, <2>4 DEF Asks, Trusts, Billed, Reliable
    <3> QED BY <1>8, <2>1, <2>3, <3>1, <3>2
  <2>5. CASE req[r].undo = NoUndo
    <3>1. \A q \in Requests : req[q].undo = NoUndo
      BY <1>1, <2>5 DEF IInv, Quiet, Asks, Shaped
    <3>2. quantity = bought /\ (Live \in events \/ slots[owner] = bought) /\ bought' = bought
          /\ (owner \notin businesses => bought = 0)
      BY <1>9, <2>5, <3>1 DEF IInv, Stands, Level
    <3>3. slots'[owner] = slots[owner]
      <4> SUFFICES ASSUME slots'[owner] # slots[owner] PROVE FALSE
        OBVIOUS
      <4>1. owner = Billing(r) /\ owner \in businesses
        BY <1>8, <2>1
      <4>2. req[r].kind = "stripe"
        BY <1>0, <1>1, <4>1 DEF Asks, Trusts
      <4> QED BY <1>0, <1>1, <2>2, <2>5, <4>1, <4>2 DEF Asks, Trusts
    <3> QED BY <2>1, <2>3, <3>2, <3>3
  <2> QED BY <2>4, <2>5
<1>25. (\A c \in Ids : Locked(c))'
  BY <1>0, <1>1, <1>3, <1>4 DEF IInv, Locked, Billing, MovesAnchor, Frees, Typed
<1>26. \A q \in Requests \ {r} : Asks(q)'
  <2> TAKE q \in Requests \ {r}
  <2>0. Asks(q) /\ req'[q] = req[q]
    BY <1>4 DEF IInv
  <2>1. Shaped(q)'
    BY <1>0, <1>1, <1>4, <2>0 DEF Asks, Shaped, MovesAnchor, Frees
  <2>2. Room(q)'
    <3>1. Cardinality(businesses) \in Nat /\ req[q].max \in Nat
      BY <1>0, SomeBusinesses DEF Typed
    <3> QED BY <1>12, <2>0, <3>1 DEF Asks, Room
  <2>3. (Billed(q) /\ Spares(q))'
    BY <1>1, <2>0 DEF Asks, Billed, Spares, MovesAnchor, Reliable, Orderly
  <2>4. KeepsHolder(q)'
    BY <1>1, <2>0 DEF Asks, KeepsHolder, Early, Holder, Orderly
  <2>5. Trusts(q)'
    <3>1. ~strained => req[q].op = "none" /\ req[q].undo = NoUndo
      BY <1>1, <2>0 DEF IInv, Quiet, Asks, Shaped
    <3> QED BY <1>1, <2>0, <3>1 DEF Asks, Trusts, Shaped
  <2> QED BY <2>1, <2>2, <2>3, <2>4, <2>5 DEF Asks
<1>27. Asks(r)'
  BY <1>4, <1>14, IdleAsks DEF TypeOK
<1> QED BY <1>14, <1>15, <1>16, <1>17, <1>18, <1>19, <1>20, <1>21, <1>22, <1>23, <1>24, <1>25, <1>26,
        <1>27 DEF IInv

-----------------------------------------------------------------------------
\* A request that needs rows is in a transaction.
LEMMA VictimStep ==
  ASSUME NEW r \in Requests, DeadlockVictim(r)
  PROVE  req[r].step \in {"begin", "stripe", "row", "commit"}
<1>1. Needs(r) # {}
  BY DEF DeadlockVictim, WaitsFor
<1> QED BY <1>1 DEF Needs

\* The inductive invariant holds when a user arrives.
LEMMA InitIInv ==
  ASSUME Init
  PROVE  IInv
<1> USE BusinessesConstants
<1>0. 1 \in Ids
  BY DEF Ids
<1>1. \A r \in Requests : req[r] = Idle
  BY DEF Init
<1>2. Idle \in Asked
  BY DEF Idle, NoUndo, Asked, Steps, Kinds
<1>3. TypeOK
  <2>1. quantity \in Nat /\ owner \in Ids \union {0}
    BY <1>0 DEF Init
  <2>2. kind \in [Ids -> Kinds]
    BY DEF Init, Kinds
  <2>3. slots \in [Ids -> Nat]
    BY <2>1 DEF Init
  <2>4. Numbers
    BY <1>0, <1>2, <2>1, <2>2, <2>3 DEF Init, Numbers
  <2>5. Flags
    BY Zenon DEF Init, Flags
  <2> QED BY <2>4, <2>5, Zenon DEF TypeOK, Flags, Numbers
<1>4. \A r \in Requests : /\ req[r].step = "idle" /\ req[r].op = "none" /\ req[r].kind = "none"
                          /\ req[r].undo = NoUndo
  BY <1>1 DEF Idle
<1>5. \A r \in Requests : Shaped(r)
  BY <1>1 DEF Shaped, MovesAnchor, Idle, NoUndo, Init
<1>6. \A r \in Requests : Asks(r)
  BY <1>4, <1>5 DEF Asks, Billed, Spares, Room, KeepsHolder, Trusts
<1>7. Located /\ Gone /\ Backed /\ Single /\ Left
  BY <1>0 DEF Init, Located, Gone, Backed, Single, Left
<1>8. Standing /\ OneCustomer /\ Opening
  BY <1>0 DEF Init, Standing, Holder, OneCustomer, Opening
<1>9. Quiet /\ Stands
  BY <1>0, <1>4 DEF Init, Quiet, Stands, Level
<1>10. \A c \in Ids : Locked(c)
  BY DEF Init, Locked
<1> QED BY <1>3, <1>6, <1>7, <1>8, <1>9, <1>10 DEF IInv

\* A step that changes nothing keeps it.
LEMMA Stutters ==
  ASSUME IInv, UNCHANGED vars
  PROVE  IInv'
<1> USE DEF vars, tableVars, stripeVars, checkoutVars, lockVars, historyVars
<1>1. TypeOK'
  BY DEF IInv, TypeOK
<1>2. Grows
  BY DEF Grows
<1>3. Rows'
  BY <1>2, RowsKept
<1>4. (Opening /\ Quiet /\ Stands)'
  BY <1>2, OpeningKept, QuietKept, StandsKept
<1>5. (\A c \in Ids : Locked(c))'
  BY DEF IInv, Locked, Billing, MovesAnchor
<1>6. \A r \in Requests : Asks(r)'
  <2> TAKE r \in Requests
  <2>1. Asks(r) /\ Live' = Live /\ req'[r] = req[r]
    BY LiveKept DEF IInv
  <2>2. (Shaped(r) /\ Billed(r) /\ Spares(r) /\ Room(r))'
    BY <2>1 DEF Asks, Shaped, Billed, Spares, Room, MovesAnchor, Reliable, Orderly
  <2>3. (KeepsHolder(r) /\ Trusts(r))'
    BY <2>1 DEF Asks, KeepsHolder, Trusts, Early, Holder, MovesAnchor, Orderly
  <2> QED BY <2>2, <2>3 DEF Asks
<1> QED BY <1>1, <1>3, <1>4, <1>5, <1>6 DEF IInv, Rows

\* Every step keeps the inductive invariant.
LEMMA NextKeeps ==
  ASSUME IInv, [Next]_vars
  PROVE  IInv'
<1>1. ASSUME NEW r \in Requests,
             \/ Enter(r) \/ EnterCreates(r)
             \/ ReadCreate(r) \/ ReadProvision(r) \/ LockUser(r) \/ CommitCreate(r)
             \/ \E b \in Ids : ReadDelete(r, b)
             \/ CountBusinesses(r) \/ FindSuccessor(r)
      PROVE  IInv'
  BY <1>1, EnterKeeps, EnterCreatesKeeps, ReadCreateKeeps, ReadProvisionKeeps, LockUserKeeps,
     CommitCreateKeeps, ReadDeleteKeeps, CountBusinessesKeeps, FindSuccessorKeeps
<1>2. ASSUME NEW r \in Requests,
             \/ MigrateAnchor(r) \/ UpdateAnchor(r) \/ NoStripe(r)
             \/ applyStripeBusinessSlotState(r) \/ StripeFails(r)
             \/ CommitDelete(r) \/ Compensate(r) \/ CompensationFails(r) \/ Crash(r)
      PROVE  IInv'
  BY <1>2, MigrateAnchorKeeps, UpdateAnchorKeeps, NoStripeKeeps,
     applyStripeBusinessSlotStateKeeps,
     StripeFailsKeeps, CommitDeleteKeeps, CompensateKeeps, CompensationFailsKeeps, CrashKeeps
<1>3. ASSUME NEW r \in Requests, MigrateRefused(r) \/ TransactionFails(r) \/ DeadlockVictim(r)
      PROVE  IInv'
  <2>1. Rollback(r)
    BY <1>3 DEF MigrateRefused, TransactionFails, DeadlockVictim
  <2>2. faults' \in Nat
    BY <1>3 DEF MigrateRefused, TransactionFails, DeadlockVictim, Fault, IInv, TypeOK
  <2>3. req[r].step \in {"begin", "stripe", "row", "commit"}
    BY <1>3, VictimStep DEF MigrateRefused, Refused, TransactionFails
  <2> QED BY <2>1, <2>2, <2>3, RollbackKeeps
<1>4. ASSUME NEW r \in Requests,
             \/ \E n \in 0..MaxSlots : PatchTrialSlots(r, n) \/ PatchSlots(r, n)
             \/ SyncSlots(r)
      PROVE  IInv'
  BY <1>4, PatchTrialSlotsKeeps, PatchSlotsKeeps, SyncSlotsKeeps
<1>5. ASSUME \/ \E b \in Ids : Activate(b)
             \/ \E n \in 0..MaxSlots : ConfirmSlots(n)
             \/ StartCheckout \/ OpenSession \/ PayCheckout \/ FetchSubscription
             \/ \E e \in events : SyncFromStripe(e) \/ EventForNobody(e)
      PROVE  IInv'
  BY <1>5, ActivateKeeps, ConfirmSlotsKeeps, StartCheckoutKeeps, OpenSessionKeeps,
     PayCheckoutKeeps, FetchSubscriptionKeeps, SyncFromStripeKeeps, EventForNobodyKeeps
<1> QED BY <1>1, <1>2, <1>3, <1>4, <1>5, Stutters DEF Next

-----------------------------------------------------------------------------
\* The invariant holds of every behaviour.
THEOREM Inductive == Spec => []IInv
<1>1. Init => IInv
  BY InitIInv
<1>2. IInv /\ [Next]_vars => IInv'
  BY NextKeeps
<1> QED BY <1>1, <1>2, PTL DEF Spec

\* Every variable keeps its type.
THEOREM TypeCorrect == Spec => []TypeOK
<1>1. IInv => TypeOK
  BY DEF IInv
<1> QED BY <1>1, Inductive, PTL

\* The user keeps a business, unless two deletes overlapped.
THEOREM OneStays == Spec => []KeepsOne
<1>1. IInv => KeepsOne
  BY DEF IInv, Left, KeepsOne
<1> QED BY <1>1, Inductive, PTL

\* The business that Stripe bills is there and holds the subscription, or is about to,
\* whatever is deleted, fails or crosses, unless a checkout and a delete were in flight
\* together or a delete found the other business gone.
THEOREM HolderStays == Spec => []HolderSurvives
<1>1. IInv => HolderSurvives
  BY DEF IInv, Standing, Holder, Orderly, HolderSurvives
<1> QED BY <1>1, Inductive, PTL

\* When no request is at work, Stripe charges the slots that the last change that
\* succeeded asked for, and the row knows once every snapshot is written, unless a
\* change overlapped, an old snapshot came after the newest or a fault struck.
THEOREM ChargedRight == Spec => []ChargesWhatSucceeded
<1>1. IInv => ChargesWhatSucceeded
  <2> SUFFICES ASSUME IInv, AtRest, owner # 0, ~strained
               PROVE  quantity = bought /\ (events = {} => slots[owner] = bought)
    BY DEF ChargesWhatSucceeded
  <2>1. \A r \in Requests : req[r].step = "idle"
    BY DEF AtRest, Busy
  <2>2. \A r \in Requests : req[r].undo = NoUndo
    BY <2>1 DEF IInv, Asks, Shaped
  <2> QED BY <2>2 DEF IInv, Stands, Level
<1> QED BY <1>1, Inductive, PTL

\* Who does not create leaves no business that was not there.
LEMMA OthersAddNone ==
  ASSUME [Next]_vars, \A r \in Requests : ~EnterCreates(r) /\ ~CommitCreate(r), IInv
  PROVE  businesses' \subseteq businesses
<1> USE DEF vars, tableVars, stripeVars, lockVars, historyVars
<1>1. ASSUME NEW r \in Requests,
             \/ Enter(r) \/ ReadCreate(r) \/ ReadProvision(r) \/ LockUser(r)
             \/ \E b \in Ids : ReadDelete(r, b)
             \/ CountBusinesses(r) \/ FindSuccessor(r)
      PROVE  businesses' = businesses
  BY <1>1 DEF Enter, ReadCreate, ReadProvision, LockUser, ReadDelete, Begins, CountBusinesses,
     FindSuccessor
<1>2. ASSUME NEW r \in Requests,
             \/ MigrateAnchor(r) \/ MigrateRefused(r) \/ UpdateAnchor(r) \/ NoStripe(r)
             \/ applyStripeBusinessSlotState(r) \/ StripeFails(r) \/ TransactionFails(r)
             \/ DeadlockVictim(r) \/ Compensate(r) \/ CompensationFails(r) \/ Crash(r)
      PROVE  businesses' = businesses
  BY <1>2 DEF MigrateAnchor, MigrateRefused, UpdateAnchor, NoStripe,
     applyStripeBusinessSlotState,
     StripeFails, TransactionFails, DeadlockVictim, Compensate, CompensationFails, Crash,
       Rollback
<1>3. ASSUME NEW r \in Requests, CommitDelete(r)
      PROVE  businesses' \subseteq businesses
  BY <1>3 DEF CommitDelete
<1>4. ASSUME \/ \E r \in Requests : \/ \E n \in 0..MaxSlots : PatchTrialSlots(r, n)
                                                              \/ PatchSlots(r, n)
                                    \/ SyncSlots(r)
             \/ \E b \in Ids : Activate(b)
             \/ \E n \in 0..MaxSlots : ConfirmSlots(n)
             \/ StartCheckout \/ OpenSession \/ PayCheckout \/ FetchSubscription
             \/ \E e \in events : SyncFromStripe(e) \/ EventForNobody(e)
      PROVE  businesses' = businesses
  BY <1>4 DEF PatchSlots, SyncSlots, Activate, PatchTrialSlots, Begins, ConfirmSlots,
     StartCheckout, OpenSession, PayCheckout, FetchSubscription, SyncFromStripe, EventForNobody
<1> QED BY <1>1, <1>2, <1>3, <1>4 DEF Next

\* A POST stays within the cap it has read, a default business is made for a user
\* who has none.
THEOREM AddsWhereThereIsRoom == Spec => NoExtraBusiness
<1> DEFINE Fair == \A r \in Requests :
                     New \in businesses' /\ req[r] # req'[r] =>
                       /\ req[r].op = "create" => Cardinality(businesses') <= req[r].max
                       /\ req[r].op = "enter" => businesses = {}
<1>1. ASSUME IInv, [Next]_vars PROVE Fair
  <2> SUFFICES ASSUME NEW r \in Requests, New \in businesses', req[r] # req'[r]
               PROVE  /\ req[r].op = "create" => Cardinality(businesses') <= req[r].max
                      /\ req[r].op = "enter" => businesses = {}
    OBVIOUS
  <2> USE <1>1
  <2>1. TypeOK /\ New \notin businesses
    BY DEF IInv, TypeOK, Located, New
  <2>2. PICK q \in Requests : EnterCreates(q) \/ CommitCreate(q)
    BY <2>1, OthersAddNone
  <2>3. q = r
    <3>1. req' = [req EXCEPT ![q] = Idle]
      BY <2>2 DEF EnterCreates, CommitCreate
    <3> QED BY <2>1, <3>1 DEF TypeOK
  <2>4. CASE EnterCreates(r)
    <3>1. active \notin businesses
      BY <2>1, <2>4 DEF EnterCreates, Rechecked
    <3> QED BY <2>4, <3>1 DEF EnterCreates, IInv, Located, Asks, Shaped
  <2>5. CASE CommitCreate(r)
    <3>1. req[r].op # "enter" /\ (req[r].op = "create" => Cardinality(businesses) < req[r].max)
      BY <2>5 DEF CommitCreate, IInv, Asks, Room
    <3>2. IsFiniteSet(businesses) /\ Cardinality(businesses) \in Nat
      BY <2>1, SomeBusinesses
    <3>3. Cardinality(businesses') = Cardinality(businesses) + 1
      BY <2>1, <2>5, <3>2, FS_AddElement DEF CommitCreate
    <3>4. req[r].max \in Nat
      BY <2>1, AskedFields
    <3> QED BY <3>1, <3>2, <3>3, <3>4
  <2> QED BY <2>2, <2>3, <2>4, <2>5
<1>2. IInv /\ [Next]_vars => [Fair]_vars
  BY <1>1
<1> QED BY <1>2, Inductive, PTL DEF Spec, NoExtraBusiness
=============================================================================
