-------------------------- MODULE PlaidSyncProofs --------------------------
(***************************************************************************)
(* Proofs about the mirror of a bank: however syncs overlap, fail and      *)
(* crash, the stored cursor never passes a transaction that has no row;    *)
(* syncs in sequence leave an exact mirror; none brings back a row that    *)
(* the user deleted.                                                       *)
(***************************************************************************)
EXTENDS PlaidSync, WellFoundedInduction, TLAPS

-----------------------------------------------------------------------------
\* A log and a mirror as values: the operators of PlaidSync, of any log.

At(l, i, kind, t) == l[i] = [kind |-> kind, txn |-> t]
Sets(l, i, t) == At(l, i, "added", t) \/ At(l, i, "modified", t)
Has(l, kind, t, lo, hi) ==
  \E i \in 1..Len(l) : lo < i /\ i <= hi /\ At(l, i, kind, t)

\* v is the last position up to k that set the amount of t.
Latest(l, t, k, v) ==
  /\ v \in 1..Len(l) /\ v <= k /\ Sets(l, v, t)
  /\ \A j \in 1..Len(l) : j <= k /\ Sets(l, j, t) => j <= v

\* A transaction is added once, and before anything else happens to it.
Orderly(l) ==
  \A t \in Txns : \A j \in 1..Len(l) : l[j].txn = t =>
    /\ \E i \in 1..j : At(l, i, "added", t)
    /\ \A i \in 1..Len(l) : At(l, i, "added", t) => i <= j

InLedger(r, t) == \E a \in Accounts : r[t][a] # 0

\* What the bank has at position k is in the ledger.
Covers(l, r, k) ==
  \A t \in Txns :
    Has(l, "added", t, 0, k) /\ ~Has(l, "removed", t, 0, k) => InLedger(r, t)

\* What position u adds to b is in the ledger, or still to be inserted.
Owes(l, r, b, u, ins) ==
  \A t \in Txns :
    Has(l, "added", t, b, u) /\ ~Has(l, "removed", t, b, u) => t \in ins \/ InLedger(r, t)

\* The ledger is the bank's state at position k, but for rows still to be
\* updated or deleted.
Mirror(l, r, lv, k, mod, rem) ==
  \A t \in Txns, a \in Accounts : r[t][a] # 0 =>
    /\ Has(l, "added", t, 0, k)
    /\ Has(l, "removed", t, 0, k) => <<t, a>> \notin lv \/ t \in rem
    /\ ~Has(l, "removed", t, 0, k) => Latest(l, t, k, r[t][a]) \/ t \in mod

-----------------------------------------------------------------------------
\* The inductive invariant.

Working(s) == step[s] \in {"accounts", "apply"}

\* Positions are positions of the log.
Positions ==
  /\ cursor <= Len(log)
  /\ \A s \in Syncs : /\ base[s] <= Len(log) /\ upto[s] <= Len(log)
                      /\ Working(s) => base[s] <= upto[s]

\* What a sync has still to write, the log has up to where it read.
Sourced ==
  \A s \in Syncs : \A t \in Txns :
    /\ t \in added[s] => Has(log, "added", t, 0, upto[s]) /\ ~Has(log, "removed", t, 0, upto[s])
    /\ t \in modified[s] => Has(log, "modified", t, 0, upto[s])

\* Neither the stored cursor nor one that a sync has read skips anything, and a
\* sync none of whose rows failed owes no more than it has still to insert.
NothingSkipped ==
  /\ Covers(log, row, cursor)
  /\ \A s \in Syncs : Covers(log, row, base[s])
  /\ \A s \in Syncs : Working(s) /\ ~failed[s] => Owes(log, row, base[s], upto[s], added[s])

\* A row is at its transaction's account until something moves it.
AtHome == \A t \in Txns \ moved : \A a \in Accounts : row[t][a] # 0 => a = Home[t]

\* Before anything disturbed the syncs, there is one at a time, and the mirror is
\* exact at the cursor or, for a sync at work, but for what it has still to do.
Calm ==
  ~disturbed =>
    /\ \A s, q \in Syncs : step[s] # "idle" /\ step[q] # "idle" => s = q
    /\ \A s \in Syncs : step[s] # "idle" => base[s] = cursor
    /\ (\A s \in Syncs : ~Working(s)) => Mirror(log, row, live, cursor, {}, {})
    /\ \A s \in Syncs : Working(s) /\ ~failed[s] =>
         Mirror(log, row, live, upto[s], modified[s], removed[s])

IInv == TypeOK /\ Positions /\ Orderly(log) /\ Sourced /\ NothingSkipped /\ AtHome /\ Calm

-----------------------------------------------------------------------------
\* Lemmas about logs.

\* A non-empty set of numbers up to n has a largest one: the distance to n has a
\* smallest one.
LEMMA HasMax ==
  ASSUME NEW n \in Nat, NEW S \in SUBSET (1..n), S # {}
  PROVE  \E m \in S : \A j \in S : j <= m
<1> DEFINE D == {n - i : i \in S}
<1>1. \A i \in S : i \in Nat /\ i <= n /\ n - i \in Nat
  OBVIOUS
<1>2. D \subseteq Nat
  BY <1>1
<1>3. D # {}
  OBVIOUS
<1> HIDE DEF D
<1>4. PICK x \in D : \A y \in D : ~(<<y, x>> \in OpToRel(<, Nat))
  BY <1>2, <1>3, NatLessThanWellFounded, WFMin, Zenon
<1>5. \A y \in D : ~(y < x)
  BY <1>2, <1>4, Zenon DEF OpToRel
<1>6. PICK m \in S : x = n - m
  BY DEF D
<1>7. \A j \in S : ~((n - j) < (n - m))
  BY <1>5, <1>6 DEF D
<1>8. \A j \in S : j <= m
  BY <1>1, <1>7
<1> QED
  BY <1>8

\* A change at the end leaves everything before it.
LEMMA Appended ==
  ASSUME NEW l \in Seq(Change), NEW c \in Change
  PROVE  /\ Append(l, c) \in Seq(Change) /\ Len(Append(l, c)) = Len(l) + 1
         /\ \A i \in 1..Len(l) : Append(l, c)[i] = l[i]
         /\ Append(l, c)[Len(l) + 1] = c
OBVIOUS

LEMMA HasStays ==
  ASSUME NEW l \in Seq(Change), NEW c \in Change,
         NEW kind, NEW t, NEW lo \in Nat, NEW hi \in Nat, hi <= Len(l)
  PROVE  Has(Append(l, c), kind, t, lo, hi) <=> Has(l, kind, t, lo, hi)
BY Appended DEF Has, At

LEMMA LatestStays ==
  ASSUME NEW l \in Seq(Change), NEW c \in Change,
         NEW t, NEW k \in Nat, k <= Len(l), NEW v
  PROVE  Latest(Append(l, c), t, k, v) <=> Latest(l, t, k, v)
<1>1. \A i \in 1..Len(l) : Sets(Append(l, c), i, t) <=> Sets(l, i, t)
  BY Appended DEF Sets, At
<1>2. Len(l) \in Nat /\ Len(Append(l, c)) = Len(l) + 1
  BY Appended
<1>3. \A i \in 1..(Len(l) + 1) : i <= k => i \in 1..Len(l)
  BY <1>2
<1>4. 1..Len(l) \subseteq 1..(Len(l) + 1)
  BY <1>2
<1> QED
  BY <1>1, <1>2, <1>3, <1>4 DEF Latest

\* The last position stays the last one while nothing sets the amount again.
LEMMA LatestLasts ==
  ASSUME NEW l \in Seq(Change), NEW t, NEW lo \in Nat, NEW hi \in Nat, lo <= hi, NEW v,
         Latest(l, t, lo, v), ~Has(l, "added", t, lo, hi), ~Has(l, "modified", t, lo, hi)
  PROVE  Latest(l, t, hi, v)
<1>1. \A j \in 1..Len(l) : j <= hi /\ Sets(l, j, t) => j <= lo
  BY DEF Has, Sets
<1>2. v \in Nat /\ v <= hi
  BY DEF Latest
<1> QED
  BY <1>1, <1>2 DEF Latest

\* There is only one.
LEMMA LatestIsOne ==
  ASSUME NEW l, NEW t, NEW k, NEW v, NEW w, Latest(l, t, k, v), Latest(l, t, k, w)
  PROVE  v = w
<1>1. v <= w /\ w <= v
  BY DEF Latest
<1>2. v \in Nat /\ w \in Nat
  BY DEF Latest
<1> QED
  BY <1>1, <1>2

\* What is in an orderly log at all was added once, no later.
LEMMA AddedFirst ==
  ASSUME NEW l \in Seq(Change), Orderly(l), NEW t \in Txns, NEW kind,
         NEW k \in Nat, Has(l, kind, t, 0, k)
  PROVE  /\ Has(l, "added", t, 0, k)
         /\ \A hi \in Nat : ~Has(l, "added", t, k, hi)
<1>1. PICK j \in 1..Len(l) : j <= k /\ At(l, j, kind, t)
  BY DEF Has
<1>2. l[j].txn = t
  BY <1>1 DEF At
<1>3. /\ \E i \in 1..j : At(l, i, "added", t)
      /\ \A i \in 1..Len(l) : At(l, i, "added", t) => i <= j
  BY <1>2 DEF Orderly
<1> QED
  BY <1>1, <1>3 DEF Has

-----------------------------------------------------------------------------
\* The operators of the model, of its log.

LEMMA HappenedIsHas ==
  ASSUME log \in Seq(Change)
  PROVE  \A kind, t, lo, hi : Happened(kind, t, lo, hi) <=> Has(log, kind, t, lo, hi)
<1>1. DOMAIN log = 1..Len(log)
  OBVIOUS
<1> QED
  BY <1>1 DEF Happened, Has, At

LEMMA SetsAmountIsSets ==
  ASSUME log \in Seq(Change), NEW t \in Txns, NEW i \in 1..Len(log)
  PROVE  SetsAmount(t, i) <=> Sets(log, i, t)
<1>1. log[i] \in Change
  OBVIOUS
<1> QED
  BY <1>1 DEF SetsAmount, Sets, At, Change

\* The version at a position is that of the last change, if there is one.
LEMMA VersionIsLatest ==
  ASSUME log \in Seq(Change), NEW t \in Txns, NEW k \in Nat,
         Has(log, "added", t, 0, k) \/ Has(log, "modified", t, 0, k)
  PROVE  Latest(log, t, k, Version(t, k))
<1> DEFINE S == {i \in 1..Len(log) : i <= k /\ Sets(log, i, t)}
           I == {i \in DOMAIN log : i <= k}
           P(c) == (c # 0 => SetsAmount(t, c)) /\ (\A j \in I : SetsAmount(t, j) => j <= c)
<1>1. PICK m \in S : \A j \in S : j <= m
  <2>1. S \in SUBSET (1..Len(log)) /\ Len(log) \in Nat
    OBVIOUS
  <2>2. S # {}
    BY DEF Has, Sets
  <2> QED
    BY <2>1, <2>2, HasMax
<1>2. I = {i \in 1..Len(log) : i <= k}
  OBVIOUS
<1>3. S = {i \in I : SetsAmount(t, i)}
  BY <1>2, SetsAmountIsSets
<1>4. m \in I \union {0} /\ P(m)
  BY <1>1, <1>3
<1>5. Version(t, k) = CHOOSE c \in I \union {0} : P(c)
  BY DEF Version, LastAmount
<1> DEFINE v == Version(t, k)
<1>6. v \in I \union {0} /\ P(v)
  BY <1>4, <1>5
<1> HIDE DEF v, P
<1>7. v # 0 /\ v \in I
  <2>1. m \in I /\ SetsAmount(t, m) /\ m \in Nat \ {0}
    BY <1>1, <1>3
  <2>2. m <= v
    BY <1>6, <2>1 DEF P
  <2> QED
    BY <1>6, <2>1, <2>2
<1>8. v \in S
  BY <1>3, <1>6, <1>7 DEF P
<1>9. \A j \in S : j <= v
  BY <1>3, <1>6 DEF P
<1>10. Latest(log, t, k, v)
  BY <1>8, <1>9 DEF Latest
<1> QED
  BY <1>10 DEF v

\* What a sync inserts or updates gets a version.
LEMMA SourcedVersions ==
  ASSUME TypeOK, Sourced, NEW s \in Syncs, NEW t \in added[s] \union modified[s]
  PROVE  /\ t \in Txns
         /\ Version(t, upto[s]) \in Nat \ {0}
         /\ Latest(log, t, upto[s], Version(t, upto[s]))
<1>1. t \in Txns /\ upto[s] \in Nat /\ log \in Seq(Change)
  BY DEF TypeOK
<1>2. Has(log, "added", t, 0, upto[s]) \/ Has(log, "modified", t, 0, upto[s])
  BY <1>1 DEF Sourced
<1>3. Latest(log, t, upto[s], Version(t, upto[s]))
  BY <1>1, <1>2, VersionIsLatest
<1> QED
  BY <1>1, <1>3 DEF Latest

-----------------------------------------------------------------------------
\* What the actions do to the rows, row by row.

LEMMA AccountsTyped ==
  ASSUME PlaidConstants
  PROVE  /\ BankAccounts \subseteq Accounts /\ Manual \in Accounts /\ NoAccount \in Accounts
         /\ NoAccount \notin BankAccounts
         /\ \A t \in Txns : Home[t] \in BankAccounts /\ Home[t] \in Accounts
BY DEF PlaidConstants, Accounts

\* What s does to the row of t in added: it fails, finds one, or inserts one.
RowInserted(s, t) ==
  /\ row[t][Home[t]] = 0 /\ UNCHANGED <<own, failed>>
  /\ live' = live \union {<<t, Home[t]>>}
  /\ row' \in [Txns -> [Accounts -> Nat]]
  /\ row'[t][Home[t]] \in Nat \ {0}
  /\ Latest(log, t, upto[s], row'[t][Home[t]])
  /\ \A u \in Txns, a \in Accounts : u # t \/ a # Home[t] => row'[u][a] = row[u][a]
Inserts(s, t) ==
  /\ t \in added[s] /\ step[s] = "apply"
  /\ added' = [added EXCEPT ![s] = added[s] \ {t}]
  /\ UNCHANGED <<bankVars, connVars, accountVars, step, base, upto, modified, removed,
                 seen, faults, edits, moved, disturbed>>
  /\ \/ failed' = [failed EXCEPT ![s] = TRUE] /\ UNCHANGED rowVars
     \/ row[t][Home[t]] # 0 /\ UNCHANGED <<rowVars, failed>>
     \/ RowInserted(s, t)

LEMMA InsertedRows ==
  ASSUME PlaidConstants, TypeOK, Sourced, NEW s \in Syncs, InsertAdded(s)
  PROVE  \E t \in Txns : Inserts(s, t)
<1>1. PICK t \in added[s] :
         /\ step[s] = "apply"
         /\ added' = [added EXCEPT ![s] = @ \ {t}]
         /\ \/ Home[t] \notin seen[s] \intersect linked /\ Fails(s) /\ UNCHANGED rowVars
            \/ /\ Home[t] \in seen[s] \intersect linked
               /\ IF Conflicts(t, Home[t]) THEN Duplicate(s)
                  ELSE /\ row' = [row EXCEPT ![t][Home[t]] = Version(t, upto[s])]
                       /\ live' = live \union {<<t, Home[t]>>}
                       /\ UNCHANGED <<own, failed>>
         /\ UNCHANGED <<bankVars, connVars, accountVars, step, base, upto, modified, removed,
                        seen, faults, edits, moved, disturbed>>
  BY DEF InsertAdded
<1>2. /\ t \in Txns
      /\ Version(t, upto[s]) \in Nat \ {0}
      /\ Latest(log, t, upto[s], Version(t, upto[s]))
  BY SourcedVersions
<1>3. added' = [added EXCEPT ![s] = added[s] \ {t}]
  BY <1>1
<1>4. ASSUME Home[t] \in seen[s] \intersect linked, ~Conflicts(t, Home[t])
      PROVE  RowInserted(s, t)
  <2> DEFINE h == Home[t]
             v == Version(t, upto[s])
  <2>1. /\ row' = [row EXCEPT ![t][h] = v]
        /\ live' = live \union {<<t, h>>} /\ UNCHANGED <<own, failed>>
    BY <1>1, <1>4
  <2>2. row \in [Txns -> [Accounts -> Nat]] /\ h \in Accounts /\ v \in Nat \ {0} /\ t \in Txns
    BY <1>2, AccountsTyped DEF TypeOK
  <2>3. row[t][h] = 0
    BY <1>4 DEF Conflicts
  <2>4. Latest(log, t, upto[s], v)
    BY <1>2
  <2> HIDE DEF h, v
  <2>5. row' \in [Txns -> [Accounts -> Nat]] /\ row'[t][h] = v
    BY <2>1, <2>2
  <2>6. \A u \in Txns, a \in Accounts : u # t \/ a # h => row'[u][a] = row[u][a]
    BY <2>1, <2>2
  <2>7. /\ row[t][h] = 0 /\ UNCHANGED <<own, failed>>
        /\ live' = live \union {<<t, h>>}
        /\ row' \in [Txns -> [Accounts -> Nat]]
        /\ row'[t][h] \in Nat \ {0}
        /\ Latest(log, t, upto[s], row'[t][h])
        /\ \A u \in Txns, a \in Accounts : u # t \/ a # h => row'[u][a] = row[u][a]
    BY <2>1, <2>2, <2>3, <2>4, <2>5, <2>6
  <2> QED
    BY <2>7 DEF h, RowInserted
<1>5. CASE Home[t] \notin seen[s] \intersect linked
  BY <1>1, <1>2, <1>3, <1>5 DEF Fails, Inserts
<1>6. CASE Home[t] \in seen[s] \intersect linked /\ Conflicts(t, Home[t])
  <2>1. row[t][Home[t]] # 0 /\ UNCHANGED <<rowVars, failed>>
    BY <1>1, <1>6 DEF Conflicts, Duplicate
  <2> QED
    BY <1>1, <1>2, <1>3, <2>1 DEF Inserts
<1>7. CASE Home[t] \in seen[s] \intersect linked /\ ~Conflicts(t, Home[t])
  BY <1>1, <1>2, <1>3, <1>4, <1>7 DEF Inserts
<1> QED
  BY <1>5, <1>6, <1>7

\* What s does to the rows of t in modified: it fails, or sets the version of all.
RowUpdated(s, t) ==
  /\ UNCHANGED failed /\ own' \subseteq own
  /\ row' \in [Txns -> [Accounts -> Nat]]
  /\ \A u \in Txns, a \in Accounts :
       /\ row[u][a] = 0 \/ u # t => row'[u][a] = row[u][a]
       /\ row[u][a] # 0 => row'[u][a] # 0
       /\ row[t][a] # 0 => Latest(log, t, upto[s], row'[t][a])
Updates(s, t) ==
  /\ t \in modified[s] /\ step[s] = "apply" /\ added[s] = {}
  /\ modified' = [modified EXCEPT ![s] = modified[s] \ {t}]
  /\ UNCHANGED <<bankVars, connVars, accountVars, live, step, base, upto, added,
                 removed, seen, faults, edits, moved, disturbed>>
  /\ \/ failed' = [failed EXCEPT ![s] = TRUE] /\ UNCHANGED <<row, own>>
     \/ RowUpdated(s, t)

LEMMA UpdatedRows ==
  ASSUME TypeOK, Sourced, NEW s \in Syncs, UpdateModified(s)
  PROVE  \E t \in Txns : Updates(s, t)
<1>1. PICK t \in modified[s] :
         /\ step[s] = "apply" /\ added[s] = {}
         /\ modified' = [modified EXCEPT ![s] = @ \ {t}]
         /\ IF HasRow(t)
            THEN /\ row' = [row EXCEPT ![t] = [a \in Accounts |->
                             IF Matches(t, a) THEN Version(t, upto[s]) ELSE row[t][a]]]
                 /\ own' = {p \in own : ~(p[1] = t /\ Matches(t, p[2]))}
                 /\ UNCHANGED failed
            ELSE Fails(s) /\ UNCHANGED <<row, own>>
         /\ UNCHANGED <<bankVars, connVars, accountVars, live, step, base, upto, added,
                        removed, seen, faults, edits, moved, disturbed>>
  BY DEF UpdateModified
<1> DEFINE v == Version(t, upto[s])
<1>2. t \in Txns /\ v \in Nat \ {0} /\ Latest(log, t, upto[s], v)
  BY SourcedVersions
<1>3. CASE ~HasRow(t)
  BY <1>1, <1>2, <1>3 DEF Fails, Updates
<1>4. CASE HasRow(t)
  <2>1. row' = [row EXCEPT ![t] = [a \in Accounts |-> IF row[t][a] # 0 THEN v ELSE row[t][a]]]
    BY <1>1, <1>4 DEF Matches
  <2>2. row \in [Txns -> [Accounts -> Nat]]
    BY DEF TypeOK
  <2> HIDE DEF v
  <2>3. row' \in [Txns -> [Accounts -> Nat]]
    BY <1>2, <2>1, <2>2
  <2>4. \A u \in Txns, a \in Accounts :
           row'[u][a] = IF u = t /\ row[u][a] # 0 THEN v ELSE row[u][a]
    BY <1>2, <2>1, <2>2
  <2>5. \A u \in Txns, a \in Accounts :
          /\ row[u][a] = 0 \/ u # t => row'[u][a] = row[u][a]
          /\ row[u][a] # 0 => row'[u][a] # 0
          /\ row[t][a] # 0 => Latest(log, t, upto[s], row'[t][a])
    BY <1>2, <2>4
  <2>6. own' \subseteq own
    BY <1>1, <1>4
  <2> QED
    BY <1>1, <1>2, <1>4, <2>3, <2>5, <2>6 DEF Updates, RowUpdated
<1> QED
  BY <1>3, <1>4

\* The row of t goes from a to b.
RowGoes(t, a, b) ==
  /\ row[t][a] # 0 /\ row[t][b] = 0 /\ <<t, a>> \in live
  /\ row' \in [Txns -> [Accounts -> Nat]]
  /\ row'[t][b] = row[t][a] /\ row'[t][a] = 0
  /\ \A u \in Txns, c \in Accounts : u # t \/ (c # a /\ c # b) => row'[u][c] = row[u][c]

LEMMA MovedRows ==
  ASSUME PlaidConstants, TypeOK, NEW t \in Txns, NEW a \in Accounts, NEW b \in Accounts, b # a,
         MoveRow(t, a, b)
  PROVE  RowGoes(t, a, b)
<1>1. /\ <<t, a>> \in live /\ row[t][b] = 0
      /\ row' = [row EXCEPT ![t][b] = row[t][a], ![t][a] = 0]
  BY DEF MoveRow
<1>2. row \in [Txns -> [Accounts -> Nat]] /\ row[t][a] # 0
  BY <1>1 DEF TypeOK
<1> QED
  BY <1>1, <1>2 DEF RowGoes

\* The rows of account a lose it.
RowsOrphaned(a) ==
  /\ row' \in [Txns -> [Accounts -> Nat]]
  /\ \A t \in Txns :
       /\ <<t, a>> \notin live
       /\ row[t][a] = 0 => \A c \in Accounts : row'[t][c] = row[t][c]
       /\ row[t][a] # 0 =>
            /\ row[t][NoAccount] = 0 /\ row'[t][NoAccount] = row[t][a] /\ row'[t][a] = 0
            /\ \A c \in Accounts \ {a, NoAccount} : row'[t][c] = row[t][c]

LEMMA OrphanedRows ==
  ASSUME PlaidConstants, TypeOK, NEW a \in BankAccounts, DeleteAccount(a)
  PROVE  RowsOrphaned(a)
<1>1. /\ \A t \in Txns : <<t, a>> \notin live /\ (row[t][a] # 0 => row[t][NoAccount] = 0)
      /\ row' = [t \in Txns |-> IF row[t][a] = 0 THEN row[t]
                                ELSE [row[t] EXCEPT ![NoAccount] = row[t][a], ![a] = 0]]
  BY DEF DeleteAccount
<1>2. row \in [Txns -> [Accounts -> Nat]] /\ a \in Accounts /\ NoAccount \in Accounts
      /\ a # NoAccount
  BY AccountsTyped DEF TypeOK
<1> QED
  BY <1>1, <1>2 DEF RowsOrphaned

\* The step as one of its actions.
LEMMA StepCases ==
  ASSUME [Next]_vars
  PROVE  \/ \E t \in Txns, k \in {"added", "modified", "removed"} : BankChanges(k, t)
         \/ createBankConnection
         \/ disconnectBankConnection
         \/ \E a \in BankAccounts : SeedAccount(a)
         \/ \E a \in BankAccounts : SeedFails(a)
         \/ \E a \in BankAccounts : DeleteAccount(a)
         \/ \E s \in Syncs : StartSync(s)
         \/ \E s \in Syncs : Fetch(s)
         \/ \E s \in Syncs : ReadAccounts(s)
         \/ \E s \in Syncs : InsertAdded(s)
         \/ \E s \in Syncs : UpdateModified(s)
         \/ \E s \in Syncs : SoftDeleteRemoved(s)
         \/ \E s \in Syncs : FinishSync(s)
         \/ \E s \in Syncs : FetchFails(s)
         \/ \E s \in Syncs : RowFails(s)
         \/ \E s \in Syncs : SyncDies(s)
         \/ \E t \in Txns, a \in Accounts : ArchiveRow(t, a)
         \/ \E t \in Txns, a \in Accounts : RestoreRow(t, a)
         \/ \E t \in Txns, a \in Accounts : EditRow(t, a)
         \/ \E t \in Txns, a \in Accounts, b \in Accounts : b # a /\ MoveRow(t, a, b)
         \/ UNCHANGED vars
BY DEF Next, SyncStep, Apply

RowsTyped ==
  /\ row \in [Txns -> [Accounts -> Nat]]
  /\ live \subseteq {p \in Txns \X Accounts : row[p[1]][p[2]] # 0}

OwnTyped == own \subseteq {p \in Txns \X Accounts : row[p[1]][p[2]] # 0}

\* No step takes the row of a transaction away.
LEMMA RowsStay ==
  ASSUME PlaidConstants, TypeOK, Sourced, [Next]_vars
  PROVE  RowsTyped' /\ \A t \in Txns : InLedger(row, t) => InLedger(row', t)
<1>1. RowsTyped
  BY DEF RowsTyped, TypeOK
<1>2. ASSUME UNCHANGED row, live' \subseteq live
      PROVE  RowsTyped' /\ \A t \in Txns : InLedger(row, t) => InLedger(row', t)
  BY <1>1, <1>2 DEF RowsTyped
<1>3. ASSUME UNCHANGED rowVars
      PROVE  RowsTyped' /\ \A t \in Txns : InLedger(row, t) => InLedger(row', t)
  BY <1>2, <1>3 DEF rowVars
<1>4. ASSUME NEW s \in Syncs, InsertAdded(s)
      PROVE  RowsTyped' /\ \A t \in Txns : InLedger(row, t) => InLedger(row', t)
  <2>1. PICK t \in Txns : Inserts(s, t)
    BY <1>4, InsertedRows
  <2>2. CASE UNCHANGED rowVars
    BY <1>3, <2>2
  <2>3. CASE RowInserted(s, t)
    <3>1. \A u \in Txns, a \in Accounts : row[u][a] # 0 => row'[u][a] # 0
      BY <2>3 DEF RowInserted
    <3>2. Home[t] \in Accounts
      BY AccountsTyped
    <3>3. \A p \in live' : p \in Txns \X Accounts /\ row'[p[1]][p[2]] # 0
      BY <1>1, <2>3, <3>1, <3>2 DEF RowsTyped, RowInserted
    <3> QED
      BY <2>3, <3>1, <3>3 DEF RowsTyped, InLedger, RowInserted
  <2> QED
    BY <2>1, <2>2, <2>3 DEF Inserts, rowVars
<1>5. ASSUME NEW s \in Syncs, UpdateModified(s)
      PROVE  RowsTyped' /\ \A t \in Txns : InLedger(row, t) => InLedger(row', t)
  <2>1. PICK t \in Txns : Updates(s, t)
    BY <1>5, UpdatedRows
  <2> QED
    BY <1>1, <2>1 DEF RowsTyped, InLedger, Updates, RowUpdated
<1>6. ASSUME NEW t \in Txns, NEW a \in Accounts, NEW b \in Accounts, b # a, MoveRow(t, a, b)
      PROVE  RowsTyped' /\ \A u \in Txns : InLedger(row, u) => InLedger(row', u)
  <2>1. RowGoes(t, a, b)
    BY <1>6, MovedRows
  <2>2. live' = (live \ {<<t, a>>}) \union {<<t, b>>}
    BY <1>6 DEF MoveRow
  <2>3. \A p \in live' : p \in Txns \X Accounts /\ row'[p[1]][p[2]] # 0
    <3>1. \A u \in Txns, c \in Accounts : <<u, c>> \in live' => row'[u][c] # 0
      BY <1>1, <2>1, <2>2 DEF RowsTyped, RowGoes
    <3> QED
      BY <1>1, <2>2, <3>1 DEF RowsTyped
  <2> QED
    BY <2>1, <2>3 DEF RowsTyped, RowGoes, InLedger
<1>7. ASSUME NEW a \in BankAccounts, DeleteAccount(a)
      PROVE  RowsTyped' /\ \A t \in Txns : InLedger(row, t) => InLedger(row', t)
  <2>1. RowsOrphaned(a)
    BY <1>7, OrphanedRows
  <2>2. live' = live /\ NoAccount \in Accounts
    BY <1>7, AccountsTyped DEF DeleteAccount
  <2>3. ASSUME NEW u \in Txns, NEW c \in Accounts, <<u, c>> \in live
        PROVE  row'[u][c] # 0
    <3>1. row[u][c] # 0 /\ c # a
      BY <1>1, <2>1, <2>3 DEF RowsTyped, RowsOrphaned
    <3>2. CASE row[u][a] = 0
      BY <2>1, <3>1, <3>2 DEF RowsOrphaned
    <3>3. CASE row[u][a] # 0 /\ c = NoAccount
      BY <2>1, <3>3 DEF RowsOrphaned
    <3>4. CASE row[u][a] # 0 /\ c # NoAccount
      BY <2>1, <3>1, <3>4 DEF RowsOrphaned
    <3> QED
      BY <3>2, <3>3, <3>4
  <2>4. \A p \in live' : p \in Txns \X Accounts /\ row'[p[1]][p[2]] # 0
    BY <1>1, <2>2, <2>3 DEF RowsTyped
  <2> QED
    BY <2>1, <2>2, <2>4 DEF RowsTyped, InLedger, RowsOrphaned
<1>8. ASSUME NEW t \in Txns, NEW a \in Accounts, RestoreRow(t, a)
      PROVE  RowsTyped' /\ \A u \in Txns : InLedger(row, u) => InLedger(row', u)
  BY <1>1, <1>8 DEF RestoreRow, RowsTyped
<1>9. ASSUME NEW s \in Syncs, SoftDeleteRemoved(s)
      PROVE  UNCHANGED row /\ live' \subseteq live
  BY <1>9 DEF SoftDeleteRemoved
<1>10. ASSUME NEW t \in Txns, NEW a \in Accounts, ArchiveRow(t, a)
       PROVE  UNCHANGED row /\ live' \subseteq live
  BY <1>10 DEF ArchiveRow
<1>12. ASSUME NEW t \in Txns, NEW a \in Accounts, EditRow(t, a)
       PROVE  UNCHANGED row /\ live' \subseteq live
  BY <1>12 DEF EditRow
<1>11. CASE \/ \E t \in Txns, k \in {"added", "modified", "removed"} : BankChanges(k, t)
            \/ createBankConnection
            \/ disconnectBankConnection
            \/ \E a \in BankAccounts : SeedAccount(a) \/ SeedFails(a)
            \/ \E s \in Syncs : StartSync(s) \/ Fetch(s) \/ ReadAccounts(s) \/ FinishSync(s)
            \/ \E s \in Syncs : FetchFails(s) \/ RowFails(s) \/ SyncDies(s)
            \/ UNCHANGED vars
  <2>1. UNCHANGED rowVars
    BY <1>11 DEF BankChanges, createBankConnection, disconnectBankConnection, SeedAccount, SeedFails,
                 StartSync, Fetch, ReadAccounts, FinishSync, FetchFails, RowFails, SyncDies, vars
  <2> QED
    BY <1>3, <2>1
<1> QED
  BY <1>2, <1>4, <1>5, <1>6, <1>7, <1>8, <1>9, <1>10, <1>11, <1>12, StepCases

\* A row that a user wrote over is there, wherever it goes.
LEMMA OwnStays ==
  ASSUME PlaidConstants, TypeOK, Sourced, [Next]_vars
  PROVE  OwnTyped'
<1>1. OwnTyped
  BY DEF OwnTyped, TypeOK
<1>2. ASSUME UNCHANGED row, own' \subseteq own
      PROVE  OwnTyped'
  BY <1>1, <1>2 DEF OwnTyped
<1>3. ASSUME NEW s \in Syncs, InsertAdded(s)
      PROVE  OwnTyped'
  <2>1. PICK t \in Txns : Inserts(s, t)
    BY <1>3, InsertedRows
  <2>2. CASE UNCHANGED rowVars
    BY <1>2, <2>2 DEF rowVars
  <2>3. CASE RowInserted(s, t)
    <3>1. \A u \in Txns, a \in Accounts : row[u][a] # 0 => row'[u][a] # 0
      BY <2>3 DEF RowInserted
    <3> QED
      BY <1>1, <2>3, <3>1 DEF OwnTyped, RowInserted
  <2> QED
    BY <2>1, <2>2, <2>3 DEF Inserts, rowVars
<1>4. ASSUME NEW s \in Syncs, UpdateModified(s)
      PROVE  OwnTyped'
  <2>1. PICK t \in Txns : Updates(s, t)
    BY <1>4, UpdatedRows
  <2> QED
    BY <1>1, <2>1 DEF OwnTyped, Updates, RowUpdated
<1>5. ASSUME NEW t \in Txns, NEW a \in Accounts, NEW b \in Accounts, b # a, MoveRow(t, a, b)
      PROVE  OwnTyped'
  <2>1. RowGoes(t, a, b)
    BY <1>5, MovedRows
  <2>2. \A p \in own' : p = <<t, b>> \/ (p \in own /\ p # <<t, a>>)
    BY <1>5 DEF MoveRow
  <2>3. row'[t][b] # 0
    BY <2>1 DEF RowGoes
  <2>4. \A p \in own : p # <<t, a>> => p \in Txns \X Accounts /\ row'[p[1]][p[2]] # 0
    <3>1. \A u \in Txns, c \in Accounts : <<u, c>> \in own /\ <<u, c>> # <<t, a>> => row'[u][c] # 0
      BY <1>1, <2>1 DEF OwnTyped, RowGoes
    <3> QED
      BY <1>1, <3>1 DEF OwnTyped
  <2> QED
    BY <2>2, <2>3, <2>4 DEF OwnTyped
<1>6. ASSUME NEW a \in BankAccounts, DeleteAccount(a)
      PROVE  OwnTyped'
  <2>1. RowsOrphaned(a) /\ NoAccount \in Accounts /\ a \in Accounts
    BY <1>6, OrphanedRows, AccountsTyped
  <2>2. own' = {<<p[1], IF p[2] = a THEN NoAccount ELSE p[2]>> : p \in own}
    BY <1>6 DEF DeleteAccount
  <2>3. ASSUME NEW u \in Txns, NEW c \in Accounts, c # a, row[u][c] # 0
        PROVE  row'[u][c] # 0
    <3>1. CASE row[u][a] = 0
      BY <2>1, <2>3, <3>1 DEF RowsOrphaned
    <3>2. CASE row[u][a] # 0
      BY <2>1, <2>3, <3>2 DEF RowsOrphaned
    <3> QED
      BY <3>1, <3>2
  <2>4. \A u \in Txns : <<u, a>> \in own => row'[u][NoAccount] # 0
    BY <1>1, <2>1 DEF OwnTyped, RowsOrphaned
  <2>5. ASSUME NEW u \in Txns, NEW c \in Accounts, <<u, c>> \in own
        PROVE  row'[u][IF c = a THEN NoAccount ELSE c] # 0
    <3>1. row[u][c] # 0
      BY <1>1, <2>5 DEF OwnTyped
    <3>2. CASE c = a
      BY <2>4, <2>5, <3>2
    <3>3. CASE c # a
      BY <2>3, <3>1, <3>3
    <3> QED
      BY <3>2, <3>3
  <2>6. ASSUME NEW p \in own'
        PROVE  p \in Txns \X Accounts /\ row'[p[1]][p[2]] # 0
    <3>1. PICK q \in own : p = <<q[1], IF q[2] = a THEN NoAccount ELSE q[2]>>
      BY <2>2
    <3>2. q \in Txns \X Accounts
      BY <1>1 DEF OwnTyped
    <3>3. PICK u \in Txns, c \in Accounts : q = <<u, c>>
      BY <3>2
    <3>4. p = <<u, IF c = a THEN NoAccount ELSE c>>
      BY <3>1, <3>3
    <3>5. row'[u][IF c = a THEN NoAccount ELSE c] # 0
      BY <2>5, <3>3
    <3> QED
      BY <2>1, <3>4, <3>5
  <2> QED
    BY <2>6 DEF OwnTyped
<1>7. ASSUME NEW t \in Txns, NEW a \in Accounts, EditRow(t, a)
      PROVE  OwnTyped'
  BY <1>1, <1>7 DEF EditRow, OwnTyped, TypeOK
<1>8. CASE \/ \E t \in Txns, k \in {"added", "modified", "removed"} : BankChanges(k, t)
           \/ createBankConnection
           \/ disconnectBankConnection
           \/ \E a \in BankAccounts : SeedAccount(a) \/ SeedFails(a)
           \/ \E s \in Syncs : StartSync(s) \/ Fetch(s) \/ ReadAccounts(s) \/ FinishSync(s)
           \/ \E s \in Syncs : FetchFails(s) \/ RowFails(s) \/ SyncDies(s) \/ SoftDeleteRemoved(s)
           \/ \E t \in Txns, a \in Accounts : ArchiveRow(t, a) \/ RestoreRow(t, a)
           \/ UNCHANGED vars
  <2>1. UNCHANGED <<row, own>>
    BY <1>8 DEF BankChanges, createBankConnection, disconnectBankConnection, SeedAccount, SeedFails,
                StartSync, Fetch, ReadAccounts, FinishSync, FetchFails, RowFails, SyncDies,
                SoftDeleteRemoved, ArchiveRow, RestoreRow, rowVars, vars
  <2> QED
    BY <1>2, <2>1
<1> QED
  BY <1>3, <1>4, <1>5, <1>6, <1>7, <1>8, StepCases

LEMMA InitHolds ==
  ASSUME PlaidConstants, Init
  PROVE  IInv
<1>1. TypeOK
  <2>1. log \in Seq(Change)
    BY DEF Init
  <2>2. step \in [Syncs -> {"idle", "fetch", "accounts", "apply"}]
    BY DEF Init
  <2> QED
    BY <2>1, <2>2 DEF Init, TypeOK, Status
<1>2. log = <<>> /\ Len(log) = 0 /\ cursor = 0
  BY DEF Init
<1>3. \A kind, t, lo, hi : ~Has(log, kind, t, lo, hi)
  BY <1>2 DEF Has
<1>4. Positions
  BY <1>2 DEF Init, Positions, Working
<1>5. Orderly(log)
  BY <1>2 DEF Orderly
<1>6. Sourced
  BY DEF Init, Sourced
<1>7. NothingSkipped
  BY <1>3 DEF NothingSkipped, Covers, Owes
<1>8. \A t \in Txns, a \in Accounts : row[t][a] = 0
  BY DEF Init
<1>9. AtHome
  BY <1>8 DEF AtHome
<1>10. Calm
  BY <1>8 DEF Init, Calm, Mirror, Working
<1> QED
  BY <1>1, <1>4, <1>5, <1>6, <1>7, <1>9, <1>10 DEF IInv

\* Types, but for the rows.
LEMMA TypeStep ==
  ASSUME PlaidConstants, TypeOK, Sourced, [Next]_vars
  PROVE  TypeOK'
<1>1. RowsTyped' /\ OwnTyped'
  BY RowsStay, OwnStays
<1>2. ASSUME NEW s \in Syncs, Forget(s)
      PROVE  /\ step' \in [Syncs -> {"idle", "fetch", "accounts", "apply"}]
             /\ base' \in [Syncs -> Nat] /\ upto' \in [Syncs -> Nat]
             /\ added' \in [Syncs -> SUBSET Txns] /\ modified' \in [Syncs -> SUBSET Txns]
             /\ removed' \in [Syncs -> SUBSET Txns] /\ seen' \in [Syncs -> SUBSET BankAccounts]
             /\ failed' \in [Syncs -> BOOLEAN]
  BY <1>2 DEF TypeOK, Forget
<1>3. ASSUME NEW t \in Txns, NEW k \in {"added", "modified", "removed"}, BankChanges(k, t)
      PROVE  TypeOK'
  <2>1. [kind |-> k, txn |-> t] \in Change
    BY DEF Change
  <2>2. log' \in Seq(Change)
    BY <1>3, <2>1, Appended DEF BankChanges, TypeOK
  <2> QED
    BY <1>1, <1>3, <2>2 DEF BankChanges, TypeOK, RowsTyped, OwnTyped, connVars, accountVars, rowVars, syncVars
<1>4. CASE createBankConnection \/ disconnectBankConnection
  BY <1>1, <1>4 DEF createBankConnection, disconnectBankConnection, TypeOK, RowsTyped, OwnTyped, Status,
                    bankVars, accountVars, rowVars, syncVars
<1>5. ASSUME NEW a \in BankAccounts, SeedAccount(a) \/ SeedFails(a)
      PROVE  TypeOK'
  BY <1>1, <1>5 DEF SeedAccount, SeedFails, Fault, TypeOK, RowsTyped, OwnTyped, bankVars, connVars, rowVars, syncVars
<1>6. ASSUME NEW a \in BankAccounts, DeleteAccount(a)
      PROVE  TypeOK'
  <2>1. linked' \subseteq BankAccounts /\ edits' \in Nat /\ faults' \in Nat
    BY <1>6 DEF DeleteAccount, Edit, TypeOK
  <2>2. moved' \subseteq Txns
    BY <1>6 DEF DeleteAccount, TypeOK
  <2>3. UNCHANGED <<bankVars, connVars, seeding, syncVars, disturbed>>
    BY <1>6 DEF DeleteAccount
  <2> QED
    BY <1>1, <2>1, <2>2, <2>3 DEF TypeOK, RowsTyped, OwnTyped, bankVars, connVars, syncVars
<1>7. ASSUME NEW s \in Syncs, StartSync(s)
      PROVE  TypeOK'
  BY <1>1, <1>7 DEF StartSync, TypeOK, RowsTyped, OwnTyped, bankVars, connVars, accountVars, rowVars
<1>8. ASSUME NEW s \in Syncs, Fetch(s)
      PROVE  TypeOK'
  <2>1. Reach(base[s]) \in Nat
    BY DEF Reach, TypeOK, PlaidConstants
  <2>2. upto' \in [Syncs -> Nat]
    BY <1>8, <2>1 DEF Fetch, TypeOK
  <2>3. /\ step' \in [Syncs -> {"idle", "fetch", "accounts", "apply"}]
        /\ added' \in [Syncs -> SUBSET Txns] /\ modified' \in [Syncs -> SUBSET Txns]
        /\ removed' \in [Syncs -> SUBSET Txns]
    BY <1>8 DEF Fetch, TypeOK
  <2> QED
    BY <1>1, <1>8, <2>2, <2>3 DEF Fetch, TypeOK, RowsTyped, OwnTyped, bankVars, connVars, accountVars, rowVars
<1>9. ASSUME NEW s \in Syncs, ReadAccounts(s)
      PROVE  TypeOK'
  BY <1>1, <1>9 DEF ReadAccounts, TypeOK, RowsTyped, OwnTyped, bankVars, connVars, accountVars, rowVars
<1>10. ASSUME NEW s \in Syncs, InsertAdded(s)
       PROVE  TypeOK'
  <2>1. PICK t \in Txns : Inserts(s, t)
    BY <1>10, InsertedRows
  <2>2. added' \in [Syncs -> SUBSET Txns] /\ failed' \in [Syncs -> BOOLEAN]
    BY <2>1 DEF Inserts, RowInserted, TypeOK
  <2> QED
    BY <1>1, <2>1, <2>2 DEF Inserts, TypeOK, RowsTyped, OwnTyped, bankVars, connVars, accountVars
<1>11. ASSUME NEW s \in Syncs, UpdateModified(s)
       PROVE  TypeOK'
  <2>1. PICK t \in Txns : Updates(s, t)
    BY <1>11, UpdatedRows
  <2>2. modified' \in [Syncs -> SUBSET Txns] /\ failed' \in [Syncs -> BOOLEAN]
    BY <2>1 DEF Updates, RowUpdated, TypeOK
  <2> QED
    BY <1>1, <2>1, <2>2 DEF Updates, TypeOK, RowsTyped, OwnTyped, bankVars, connVars, accountVars
<1>12. ASSUME NEW s \in Syncs, SoftDeleteRemoved(s)
       PROVE  TypeOK'
  <2>1. removed' \in [Syncs -> SUBSET Txns]
    BY <1>12 DEF SoftDeleteRemoved, TypeOK
  <2> QED
    BY <1>1, <1>12, <2>1 DEF SoftDeleteRemoved, TypeOK, RowsTyped, OwnTyped, bankVars, connVars, accountVars
<1>13. ASSUME NEW s \in Syncs, FinishSync(s)
       PROVE  TypeOK'
  <2>1. Forget(s) /\ status' \in Status /\ cursor' \in Nat /\ disturbed' \in BOOLEAN
    BY <1>13 DEF FinishSync, NextCursor, Status, TypeOK
  <2> QED
    BY <1>1, <1>2, <1>13, <2>1 DEF FinishSync, TypeOK, RowsTyped, OwnTyped, bankVars, accountVars, rowVars
<1>14. ASSUME NEW s \in Syncs, FetchFails(s)
       PROVE  TypeOK'
  <2>1. Forget(s) /\ status' \in Status /\ faults' \in Nat /\ disturbed' \in BOOLEAN
    BY <1>14 DEF FetchFails, Fault, Status, TypeOK
  <2> QED
    BY <1>1, <1>2, <1>14, <2>1 DEF FetchFails, TypeOK, RowsTyped, OwnTyped, bankVars, accountVars, rowVars
<1>15. ASSUME NEW s \in Syncs, RowFails(s)
       PROVE  TypeOK'
  <2>1. /\ added' \in [Syncs -> SUBSET Txns] /\ modified' \in [Syncs -> SUBSET Txns]
        /\ removed' \in [Syncs -> SUBSET Txns] /\ failed' \in [Syncs -> BOOLEAN]
        /\ faults' \in Nat
    <3>1. faults' \in Nat /\ failed' \in [Syncs -> BOOLEAN]
      BY <1>15 DEF RowFails, Fails, Fault, TypeOK
    <3>2. /\ added \in [Syncs -> SUBSET Txns] /\ modified \in [Syncs -> SUBSET Txns]
          /\ removed \in [Syncs -> SUBSET Txns]
      BY DEF TypeOK
    <3>3. \/ UNCHANGED added
          \/ \E t \in added[s] : added' = [added EXCEPT ![s] = @ \ {t}]
      BY <1>15 DEF RowFails
    <3>4. \/ UNCHANGED modified
          \/ \E t \in modified[s] : modified' = [modified EXCEPT ![s] = @ \ {t}]
      BY <1>15 DEF RowFails
    <3>5. \/ UNCHANGED removed
          \/ \E t \in removed[s] : removed' = [removed EXCEPT ![s] = @ \ {t}]
      BY <1>15 DEF RowFails
    <3>6. added' \in [Syncs -> SUBSET Txns]
      BY <3>2, <3>3
    <3>7. modified' \in [Syncs -> SUBSET Txns]
      BY <3>2, <3>4
    <3>8. removed' \in [Syncs -> SUBSET Txns]
      BY <3>2, <3>5
    <3> QED
      BY <3>1, <3>6, <3>7, <3>8
  <2> QED
    BY <1>1, <1>15, <2>1 DEF RowFails, TypeOK, RowsTyped, OwnTyped, bankVars, connVars, accountVars, rowVars
<1>16. ASSUME NEW s \in Syncs, SyncDies(s)
       PROVE  TypeOK'
  <2>1. Forget(s) /\ faults' \in Nat /\ disturbed' \in BOOLEAN
    BY <1>16 DEF SyncDies, Fault, TypeOK
  <2> QED
    BY <1>1, <1>2, <1>16, <2>1 DEF SyncDies, TypeOK, RowsTyped, OwnTyped, bankVars, connVars, accountVars, rowVars
<1>17. ASSUME NEW t \in Txns, NEW a \in Accounts, ArchiveRow(t, a) \/ RestoreRow(t, a) \/ EditRow(t, a)
       PROVE  TypeOK'
  <2>1. /\ edits' \in Nat /\ disturbed' \in BOOLEAN
        /\ UNCHANGED <<bankVars, connVars, accountVars, syncVars, faults, moved>>
    <3>1. CASE ArchiveRow(t, a)
      BY <3>1 DEF ArchiveRow, Edit, TypeOK
    <3>2. CASE RestoreRow(t, a)
      BY <3>2 DEF RestoreRow, Edit, TypeOK
    <3>3. CASE EditRow(t, a)
      BY <3>3 DEF EditRow, Edit, TypeOK
    <3> QED
      BY <1>17, <3>1, <3>2, <3>3
  <2> QED
    BY <1>1, <2>1 DEF TypeOK, RowsTyped, OwnTyped, bankVars, connVars, accountVars, syncVars
<1>18. ASSUME NEW t \in Txns, NEW a \in Accounts, NEW b \in Accounts, b # a, MoveRow(t, a, b)
       PROVE  TypeOK'
  BY <1>1, <1>18 DEF MoveRow, Edit, TypeOK, RowsTyped, OwnTyped, bankVars, connVars, accountVars, syncVars
<1>19. CASE UNCHANGED vars
  BY <1>1, <1>19 DEF vars, TypeOK, RowsTyped, OwnTyped, bankVars, connVars, accountVars, syncVars
<1> QED
  BY <1>3, <1>4, <1>5, <1>6, <1>7, <1>8, <1>9, <1>10, <1>11, <1>12, <1>13, <1>14, <1>15, <1>16,
     <1>17, <1>18, <1>19, StepCases

-----------------------------------------------------------------------------
\* The rest of the invariant, action by action.

\* More rows, and fewer of them live, keep what is covered, owed and mirrored.
LEMMA CoversStay ==
  ASSUME NEW l, NEW k, NEW r, NEW r2, Covers(l, r, k),
         \A t \in Txns : InLedger(r, t) => InLedger(r2, t)
  PROVE  Covers(l, r2, k)
BY DEF Covers

LEMMA OwesStay ==
  ASSUME NEW l, NEW b, NEW u, NEW ins, NEW r, NEW r2, Owes(l, r, b, u, ins),
         \A t \in Txns : InLedger(r, t) => InLedger(r2, t)
  PROVE  Owes(l, r2, b, u, ins)
BY DEF Owes

LEMMA MirrorStays ==
  ASSUME NEW l, NEW r, NEW lv, NEW lv2, NEW k, NEW mod, NEW rem,
         Mirror(l, r, lv, k, mod, rem), lv2 \subseteq lv
  PROVE  Mirror(l, r, lv2, k, mod, rem)
BY DEF Mirror

\* Steps that touch neither the log nor a cursor, a row's version or what a sync
\* has to do.
LEMMA QuietStep ==
  ASSUME IInv, TypeOK',
         UNCHANGED <<log, cursor, row, base, upto, added, modified, removed, failed, moved>>,
         live' \subseteq live \/ disturbed', disturbed => disturbed',
         \A s \in Syncs : (step'[s] = "idle" <=> step[s] = "idle") /\ (Working(s)' <=> Working(s))
  PROVE  IInv'
<1>1. Positions' /\ Orderly(log)' /\ Sourced' /\ AtHome'
  BY DEF IInv, Positions, Sourced, AtHome
<1>2. NothingSkipped'
  BY DEF IInv, NothingSkipped
<1>3. Calm'
  <2>1. CASE disturbed'
    BY <2>1 DEF Calm
  <2>2. CASE ~disturbed' /\ live' \subseteq live
    BY <2>2, MirrorStays DEF IInv, Calm
  <2> QED
    BY <2>1, <2>2
<1> QED
  BY <1>1, <1>2, <1>3 DEF IInv

LEMMA QuietSteps ==
  ASSUME IInv, TypeOK',
         \/ createBankConnection \/ disconnectBankConnection
         \/ \E a \in BankAccounts : SeedAccount(a)
         \/ \E a \in BankAccounts : SeedFails(a)
         \/ \E s \in Syncs : ReadAccounts(s)
         \/ \E t \in Txns, a \in Accounts : ArchiveRow(t, a)
         \/ \E t \in Txns, a \in Accounts : RestoreRow(t, a)
         \/ \E t \in Txns, a \in Accounts : EditRow(t, a)
         \/ UNCHANGED vars
  PROVE  IInv'
<1>1. CASE \/ createBankConnection \/ disconnectBankConnection
           \/ \E a \in BankAccounts : SeedAccount(a)
           \/ \E a \in BankAccounts : SeedFails(a)
           \/ UNCHANGED vars
  <2>1. /\ UNCHANGED <<log, cursor, row, base, upto, added, modified, removed, failed, moved>>
        /\ UNCHANGED <<live, disturbed, step>>
    BY <1>1 DEF createBankConnection, disconnectBankConnection, SeedAccount, SeedFails, vars,
                bankVars, connVars, rowVars, syncVars
  <2> QED
    BY <2>1, QuietStep DEF Working
<1>2. ASSUME NEW s \in Syncs, ReadAccounts(s)
      PROVE  IInv'
  <2>1. /\ UNCHANGED <<log, cursor, row, base, upto, added, modified, removed, failed, moved>>
        /\ UNCHANGED <<live, disturbed>>
        /\ step[s] = "accounts" /\ step' = [step EXCEPT ![s] = "apply"]
    BY <1>2 DEF ReadAccounts, bankVars, connVars, rowVars
  <2>2. step \in [Syncs -> {"idle", "fetch", "accounts", "apply"}]
    BY DEF IInv, TypeOK
  <2> QED
    BY <2>1, <2>2, QuietStep DEF Working
<1>3. ASSUME NEW t \in Txns, NEW a \in Accounts, ArchiveRow(t, a)
      PROVE  IInv'
  <2>1. /\ UNCHANGED <<log, cursor, row, base, upto, added, modified, removed, failed, moved>>
        /\ UNCHANGED <<disturbed, step>> /\ live' \subseteq live
    BY <1>3 DEF ArchiveRow, bankVars, connVars, syncVars
  <2> QED
    BY <2>1, QuietStep DEF Working
<1>4. ASSUME NEW t \in Txns, NEW a \in Accounts, RestoreRow(t, a)
      PROVE  IInv'
  <2>1. /\ UNCHANGED <<log, cursor, row, base, upto, added, modified, removed, failed, moved>>
        /\ UNCHANGED step /\ disturbed'
    BY <1>4 DEF RestoreRow, bankVars, connVars, syncVars
  <2> QED
    BY <2>1, QuietStep DEF Working
<1>5. ASSUME NEW t \in Txns, NEW a \in Accounts, EditRow(t, a)
      PROVE  IInv'
  <2>1. /\ UNCHANGED <<log, cursor, row, base, upto, added, modified, removed, failed, moved>>
        /\ UNCHANGED <<live, disturbed, step>>
    BY <1>5 DEF EditRow, bankVars, connVars, syncVars
  <2> QED
    BY <2>1, QuietStep DEF Working
<1> QED
  BY <1>1, <1>2, <1>3, <1>4, <1>5

\* A change of the bank: every position there is stays before it.
LEMMA BankStep ==
  ASSUME IInv, TypeOK', NEW t \in Txns, NEW k \in {"added", "modified", "removed"}, BankChanges(k, t)
  PROVE  IInv'
<1> DEFINE c == [kind |-> k, txn |-> t]
<1>1. c \in Change /\ log' = Append(log, c) /\ log \in Seq(Change)
  BY DEF BankChanges, IInv, TypeOK, Change
<1>2. UNCHANGED <<cursor, row, live, step, base, upto, added, modified, removed, failed, moved, disturbed>>
  BY DEF BankChanges, connVars, rowVars, syncVars
<1>3. Len(log) \in Nat /\ Len(log') = Len(log) + 1
  BY <1>1, Appended
<1>4. /\ cursor \in Nat /\ cursor <= Len(log)
      /\ \A s \in Syncs : base[s] \in Nat /\ base[s] <= Len(log) /\ upto[s] \in Nat /\ upto[s] <= Len(log)
  BY DEF IInv, TypeOK, Positions
<1>5. IF k = "added" THEN ~Has(log, "added", t, 0, Len(log)) ELSE Has(log, "added", t, 0, Len(log))
  BY <1>1, HappenedIsHas DEF BankChanges, Known
<1> HIDE DEF c
<1>6. \A kind, u : \A lo, hi \in Nat : hi <= Len(log) =>
         (Has(log', kind, u, lo, hi) <=> Has(log, kind, u, lo, hi))
  BY <1>1, HasStays
<1>7. \A u, v : \A p \in Nat : p <= Len(log) => (Latest(log', u, p, v) <=> Latest(log, u, p, v))
  BY <1>1, LatestStays
<1>8. Positions'
  BY <1>2, <1>3, <1>4 DEF IInv, Positions, Working
<1>9. Orderly(log')
  <2> SUFFICES ASSUME NEW u \in Txns, NEW j \in 1..Len(log'), log'[j].txn = u
               PROVE  /\ \E i \in 1..j : At(log', i, "added", u)
                      /\ \A i \in 1..Len(log') : At(log', i, "added", u) => i <= j
    BY DEF Orderly
  <2>1. \A i \in 1..Len(log) : log'[i] = log[i]
    BY <1>1, Appended
  <2>2. log'[Len(log) + 1] = c /\ c = [kind |-> k, txn |-> t]
    BY <1>1, Appended DEF c
  <2>3. CASE j \in 1..Len(log)
    <3>1. /\ \E i \in 1..j : At(log, i, "added", u)
          /\ \A i \in 1..Len(log) : At(log, i, "added", u) => i <= j
      BY <2>1, <2>3 DEF IInv, Orderly
    <3>2. \E i \in 1..j : At(log', i, "added", u)
      BY <1>3, <2>1, <2>3, <3>1 DEF At
    <3>3. Has(log, "added", u, 0, Len(log))
      BY <1>3, <2>3, <3>1 DEF Has
    <3>4. ~At(log', Len(log) + 1, "added", u)
      BY <1>5, <2>2, <3>3 DEF At
    <3>5. ASSUME NEW i \in 1..Len(log'), At(log', i, "added", u)
          PROVE  i <= j
      <4>1. i \in 1..Len(log)
        BY <1>3, <3>4, <3>5
      <4> QED
        BY <2>1, <3>1, <3>5, <4>1 DEF At
    <3> QED
      BY <3>2, <3>5
  <2>4. CASE j = Len(log) + 1
    <3>1. u = t
      BY <2>2, <2>4
    <3>2. \E i \in 1..j : At(log', i, "added", u)
      <4>1. CASE k = "added"
        BY <1>3, <2>2, <2>4, <3>1, <4>1 DEF At
      <4>2. CASE k # "added"
        BY <1>3, <1>5, <2>1, <2>4, <3>1, <4>2 DEF Has, At
      <4> QED
        BY <4>1, <4>2
    <3> QED
      BY <1>3, <2>4, <3>2
  <2> QED
    BY <1>3, <2>3, <2>4
<1>10. Sourced'
  BY <1>2, <1>4, <1>6 DEF IInv, Sourced
<1>11. NothingSkipped'
  BY <1>2, <1>4, <1>6 DEF IInv, NothingSkipped, Covers, Owes, Working
<1>12. AtHome'
  BY <1>2 DEF IInv, AtHome
<1>13. \A p \in Nat : p <= Len(log) => \A mod, rem :
          Mirror(log, row, live, p, mod, rem) => Mirror(log', row, live, p, mod, rem)
  BY <1>6, <1>7 DEF Mirror
<1>14. Calm'
  BY <1>2, <1>4, <1>13 DEF IInv, Calm, Working
<1> QED
  BY <1>8, <1>9, <1>10, <1>11, <1>12, <1>14 DEF IInv

LEMMA StartStep ==
  ASSUME IInv, TypeOK', NEW s \in Syncs, StartSync(s)
  PROVE  IInv'
<1>1. /\ UNCHANGED <<log, cursor, row, live, upto, added, modified, removed, failed, moved>>
      /\ step[s] = "idle" /\ step' = [step EXCEPT ![s] = "fetch"]
      /\ base' = [base EXCEPT ![s] = cursor]
      /\ disturbed' = (disturbed \/ InFlight # {})
  BY DEF StartSync, bankVars, connVars, rowVars
<1>2. /\ step \in [Syncs -> {"idle", "fetch", "accounts", "apply"}] /\ base \in [Syncs -> Nat]
  BY DEF IInv, TypeOK
<1>3. \A q \in Syncs : /\ base'[q] = IF q = s THEN cursor ELSE base[q]
                       /\ step'[q] = IF q = s THEN "fetch" ELSE step[q]
                       /\ Working(q)' <=> Working(q)
  BY <1>1, <1>2 DEF Working
<1>4. Positions'
  BY <1>1, <1>3 DEF IInv, Positions, Working
<1>5. Sourced' /\ Orderly(log)' /\ AtHome'
  BY <1>1 DEF IInv, Sourced, AtHome
<1>6. NothingSkipped'
  BY <1>1, <1>3 DEF IInv, NothingSkipped, Working
<1>7. Calm'
  <2>1. SUFFICES ASSUME ~disturbed'
                 PROVE  Calm'
    BY DEF Calm
  <2>2. ~disturbed /\ \A q \in Syncs : step[q] = "idle"
    BY <1>1, <2>1 DEF InFlight
  <2>3. \A q \in Syncs : ~Working(q)
    BY <2>2 DEF Working
  <2>4. Mirror(log, row, live, cursor, {}, {})
    BY <2>2, <2>3 DEF IInv, Calm
  <2>5. \A q \in Syncs : step'[q] # "idle" => q = s
    BY <1>3, <2>2
  <2> QED
    BY <1>1, <1>3, <2>3, <2>4, <2>5 DEF Calm
<1> QED
  BY <1>4, <1>5, <1>6, <1>7 DEF IInv

\* The state that a sync fetches from the position it read.
LEMMA FetchedMirror ==
  ASSUME NEW l \in Seq(Change), Orderly(l), NEW r, NEW lv,
         NEW lo \in Nat, NEW hi \in Nat, lo <= hi, Mirror(l, r, lv, lo, {}, {}),
         NEW ins, NEW mod, NEW rem,
         rem = {t \in Txns : Has(l, "removed", t, lo, hi)},
         ins = {t \in Txns : Has(l, "added", t, lo, hi)} \ rem,
         mod = {t \in Txns : Has(l, "modified", t, lo, hi)} \ (ins \union rem)
  PROVE  Mirror(l, r, lv, hi, mod, rem)
<1> SUFFICES ASSUME NEW t \in Txns, NEW a \in Accounts, r[t][a] # 0
             PROVE  /\ Has(l, "added", t, 0, hi)
                    /\ Has(l, "removed", t, 0, hi) => <<t, a>> \notin lv \/ t \in rem
                    /\ ~Has(l, "removed", t, 0, hi) => Latest(l, t, hi, r[t][a]) \/ t \in mod
  BY DEF Mirror
<1>1. /\ Has(l, "added", t, 0, lo)
      /\ Has(l, "removed", t, 0, lo) => <<t, a>> \notin lv
      /\ ~Has(l, "removed", t, 0, lo) => Latest(l, t, lo, r[t][a])
  BY DEF Mirror
<1>2. \A kind : Has(l, kind, t, 0, hi) <=> Has(l, kind, t, 0, lo) \/ Has(l, kind, t, lo, hi)
  <2>1. Len(l) \in Nat
    OBVIOUS
  <2> QED
    BY <2>1 DEF Has
<1>3. ~Has(l, "added", t, lo, hi)
  BY <1>1, AddedFirst
<1>4. CASE Has(l, "removed", t, 0, hi)
  BY <1>1, <1>2, <1>4
<1>5. CASE ~Has(l, "removed", t, 0, hi)
  <2>1. Latest(l, t, lo, r[t][a]) /\ t \notin rem
    BY <1>1, <1>2, <1>5
  <2>2. CASE Has(l, "modified", t, lo, hi)
    BY <1>1, <1>2, <1>3, <1>5, <2>1, <2>2
  <2>3. CASE ~Has(l, "modified", t, lo, hi)
    BY <1>1, <1>2, <1>3, <1>5, <2>1, <2>3, LatestLasts
  <2> QED
    BY <2>2, <2>3
<1> QED
  BY <1>4, <1>5

LEMMA FetchStep ==
  ASSUME PlaidConstants, IInv, TypeOK', NEW s \in Syncs, Fetch(s)
  PROVE  IInv'
<1> DEFINE lo == base[s]
           hi == Reach(lo)
           rem == {t \in Txns : Has(log, "removed", t, lo, hi)}
           ins == {t \in Txns : Has(log, "added", t, lo, hi)} \ rem
           mod == {t \in Txns : Has(log, "modified", t, lo, hi)} \ (ins \union rem)
<1>1. /\ log \in Seq(Change) /\ Len(log) \in Nat
      /\ lo \in Nat /\ lo <= Len(log)
      /\ step \in [Syncs -> {"idle", "fetch", "accounts", "apply"}] /\ upto \in [Syncs -> Nat]
      /\ added \in [Syncs -> SUBSET Txns] /\ modified \in [Syncs -> SUBSET Txns]
      /\ removed \in [Syncs -> SUBSET Txns]
  BY DEF IInv, TypeOK, Positions
<1>2. hi \in Nat /\ lo <= hi /\ hi <= Len(log)
  BY <1>1 DEF Reach, PlaidConstants
<1>3. \A kind, t, p, q : Happened(kind, t, p, q) <=> Has(log, kind, t, p, q)
  BY <1>1, HappenedIsHas
<1>4. /\ UNCHANGED <<log, cursor, row, live, base, failed, moved, disturbed>>
      /\ step[s] = "fetch" /\ step' = [step EXCEPT ![s] = "accounts"]
      /\ upto' = [upto EXCEPT ![s] = hi]
      /\ added' = [added EXCEPT ![s] = ins]
      /\ modified' = [modified EXCEPT ![s] = mod]
      /\ removed' = [removed EXCEPT ![s] = rem]
  BY <1>3 DEF Fetch, bankVars, connVars, rowVars
<1>5. /\ upto'[s] = hi /\ added'[s] = ins /\ modified'[s] = mod /\ removed'[s] = rem
      /\ step'[s] = "accounts"
      /\ \A q \in Syncs \ {s} :
           /\ upto'[q] = upto[q] /\ added'[q] = added[q] /\ modified'[q] = modified[q]
           /\ removed'[q] = removed[q] /\ step'[q] = step[q]
  BY <1>1, <1>4
<1>6. \A kind, t : Has(log, kind, t, 0, hi) <=> Has(log, kind, t, 0, lo) \/ Has(log, kind, t, lo, hi)
  BY <1>1, <1>2 DEF Has
<1>7. \A t \in ins : Has(log, "added", t, 0, hi) /\ ~Has(log, "removed", t, 0, hi)
  <2> SUFFICES ASSUME NEW t \in ins
               PROVE  Has(log, "added", t, 0, hi) /\ ~Has(log, "removed", t, 0, hi)
    OBVIOUS
  <2>1. Has(log, "added", t, lo, hi) /\ ~Has(log, "removed", t, lo, hi) /\ t \in Txns
    OBVIOUS
  <2>2. ~Has(log, "removed", t, 0, lo)
    BY <1>1, <1>2, <2>1, AddedFirst DEF IInv
  <2> QED
    BY <1>6, <2>1, <2>2
<1>8. \A t \in mod : Has(log, "modified", t, 0, hi)
  BY <1>6
<1>9. \A t \in Txns :
         Has(log, "added", t, lo, hi) /\ ~Has(log, "removed", t, lo, hi) => t \in ins
  OBVIOUS
<1>10. Mirror(log, row, live, lo, {}, {}) => Mirror(log, row, live, hi, mod, rem)
  BY <1>1, <1>2, FetchedMirror DEF IInv
<1> HIDE DEF lo, hi, ins, mod, rem
<1>11. Positions'
  BY <1>2, <1>4, <1>5 DEF IInv, Positions, Working, lo
<1>12. Orderly(log)' /\ AtHome'
  BY <1>4 DEF IInv, AtHome
<1>13. Sourced'
  BY <1>4, <1>5, <1>7, <1>8 DEF IInv, Sourced
<1>14. NothingSkipped'
  <2>1. Owes(log, row, lo, hi, ins)
    BY <1>9 DEF Owes
  <2>2. \A q \in Syncs \ {s} : Working(q)' <=> Working(q)
    BY <1>5 DEF Working
  <2>3. \A q \in Syncs : (Working(q) /\ ~failed[q])' =>
           Owes(log, row, base[q], upto'[q], added'[q])
    BY <1>4, <1>5, <2>1, <2>2 DEF IInv, NothingSkipped, lo
  <2> QED
    BY <1>4, <2>3 DEF IInv, NothingSkipped
<1>15. Calm'
  <2>1. SUFFICES ASSUME ~disturbed
                 PROVE  Calm'
    BY <1>4 DEF Calm
  <2>2. /\ \A q \in Syncs : step[q] # "idle" => q = s
        /\ base[s] = cursor
    BY <1>4, <2>1 DEF IInv, Calm
  <2>3. \A q \in Syncs : ~Working(q)
    BY <1>4, <2>2 DEF Working
  <2>4. Mirror(log, row, live, hi, mod, rem)
    BY <1>10, <2>1, <2>2, <2>3 DEF IInv, Calm, lo
  <2>5. \A q \in Syncs : step'[q] # "idle" => q = s
    BY <1>5, <2>2
  <2>6. Working(s)'
    BY <1>5 DEF Working
  <2> QED
    BY <1>4, <1>5, <2>2, <2>4, <2>5, <2>6 DEF Calm, Working
<1> QED
  BY <1>11, <1>12, <1>13, <1>14, <1>15 DEF IInv

\* What is owed but for a row that is there.
LEMMA OwesLess ==
  ASSUME NEW l, NEW r, NEW b, NEW u, NEW ins, NEW t, Owes(l, r, b, u, ins), InLedger(r, t)
  PROVE  Owes(l, r, b, u, ins \ {t})
BY DEF Owes

\* A sync at work before anything disturbed it is the only one.
LEMMA WorkerIsAlone ==
  ASSUME Calm, ~disturbed, NEW s \in Syncs, Working(s)
  PROVE  /\ base[s] = cursor
         /\ \A q \in Syncs : Working(q) \/ step[q] # "idle" => q = s
         /\ ~failed[s] => Mirror(log, row, live, upto[s], modified[s], removed[s])
BY DEF Calm, Working

LEMMA InsertStep ==
  ASSUME PlaidConstants, IInv, TypeOK', NEW s \in Syncs, InsertAdded(s), [Next]_vars
  PROVE  IInv'
<1>1. TypeOK /\ Sourced
  BY DEF IInv
<1>2. PICK t \in Txns : Inserts(s, t)
  BY <1>1, InsertedRows
<1>3. /\ UNCHANGED <<log, cursor, step, base, upto, modified, removed, moved, disturbed>>
      /\ t \in added[s] /\ step[s] = "apply"
      /\ added' = [added EXCEPT ![s] = added[s] \ {t}]
  BY <1>2 DEF Inserts, bankVars, connVars
<1>4. /\ added \in [Syncs -> SUBSET Txns] /\ failed \in [Syncs -> BOOLEAN]
      /\ row \in [Txns -> [Accounts -> Nat]]
  BY <1>1 DEF TypeOK
<1>5. /\ added'[s] = added[s] \ {t}
      /\ \A q \in Syncs \ {s} : added'[q] = added[q] /\ failed'[q] = failed[q]
  BY <1>2, <1>3, <1>4 DEF Inserts, RowInserted
<1>6. \A u \in Txns : InLedger(row, u) => InLedger(row', u)
  BY <1>1, RowsStay
<1>7. ~failed'[s] =>
        ~failed[s] /\ (RowInserted(s, t) \/ (row[t][Home[t]] # 0 /\ UNCHANGED rowVars))
  BY <1>2, <1>4 DEF Inserts, RowInserted
<1>8. ~failed'[s] => InLedger(row', t)
  <2>1. Home[t] \in Accounts
    BY AccountsTyped
  <2> QED
    BY <1>4, <1>7, <2>1 DEF RowInserted, InLedger, rowVars
<1>9. Positions' /\ Orderly(log)'
  BY <1>3 DEF IInv, Positions, Working
<1>10. Sourced'
  BY <1>3, <1>5 DEF IInv, Sourced
<1>11. NothingSkipped'
  <2>1. Covers(log, row', cursor) /\ \A q \in Syncs : Covers(log, row', base[q])
    BY <1>6, CoversStay DEF IInv, NothingSkipped
  <2>2. ASSUME NEW q \in Syncs, Working(q), ~failed'[q]
        PROVE  Owes(log, row', base[q], upto[q], added'[q])
    <3>1. Owes(log, row, base[q], upto[q], added[q])
      BY <1>5, <1>7, <2>2 DEF IInv, NothingSkipped
    <3>2. Owes(log, row', base[q], upto[q], added[q])
      BY <1>6, <3>1, OwesStay
    <3>3. CASE q = s
      BY <1>5, <1>8, <2>2, <3>2, <3>3, OwesLess
    <3>4. CASE q # s
      BY <1>5, <3>2, <3>4
    <3> QED
      BY <3>3, <3>4
  <2> QED
    BY <1>3, <2>1, <2>2 DEF NothingSkipped, Working
<1>12. AtHome'
  BY <1>2, <1>3 DEF IInv, AtHome, Inserts, RowInserted, rowVars
<1>13. Calm'
  <2>1. SUFFICES ASSUME ~disturbed
                 PROVE  Calm'
    BY <1>3 DEF Calm
  <2>2. Working(s)
    BY <1>3 DEF Working
  <2>3. /\ base[s] = cursor
        /\ \A q \in Syncs : Working(q) \/ step[q] # "idle" => q = s
        /\ ~failed[s] => Mirror(log, row, live, upto[s], modified[s], removed[s])
    BY <2>1, <2>2, WorkerIsAlone DEF IInv
  <2>4. ASSUME ~failed'[s]
        PROVE  Mirror(log, row', live', upto[s], modified[s], removed[s])
    <3>1. Mirror(log, row, live, upto[s], modified[s], removed[s])
      BY <1>7, <2>3, <2>4
    <3>2. CASE UNCHANGED rowVars
      BY <3>1, <3>2 DEF rowVars
    <3>3. CASE RowInserted(s, t)
      <4>1. Has(log, "added", t, 0, upto[s]) /\ ~Has(log, "removed", t, 0, upto[s])
        BY <1>3 DEF IInv, Sourced
      <4>2. Latest(log, t, upto[s], row'[t][Home[t]]) /\ live' = live \union {<<t, Home[t]>>}
        BY <3>3 DEF RowInserted
      <4>3. \A u \in Txns, a \in Accounts : u # t \/ a # Home[t] =>
               row'[u][a] = row[u][a] /\ (<<u, a>> \in live' => <<u, a>> \in live)
        BY <3>3 DEF RowInserted
      <4> QED
        BY <3>1, <4>1, <4>2, <4>3 DEF Mirror
    <3> QED
      BY <1>7, <2>4, <3>2, <3>3
  <2> QED
    BY <1>3, <2>2, <2>3, <2>4 DEF Calm, Working
<1> QED
  BY <1>9, <1>10, <1>11, <1>12, <1>13 DEF IInv

LEMMA UpdateStep ==
  ASSUME PlaidConstants, IInv, TypeOK', NEW s \in Syncs, UpdateModified(s), [Next]_vars
  PROVE  IInv'
<1>1. TypeOK /\ Sourced
  BY DEF IInv
<1>2. PICK t \in Txns : Updates(s, t)
  BY <1>1, UpdatedRows
<1>3. /\ UNCHANGED <<log, cursor, live, step, base, upto, added, removed, moved, disturbed>>
      /\ t \in modified[s] /\ step[s] = "apply"
      /\ modified' = [modified EXCEPT ![s] = modified[s] \ {t}]
  BY <1>2 DEF Updates, bankVars, connVars
<1>4. modified \in [Syncs -> SUBSET Txns] /\ failed \in [Syncs -> BOOLEAN]
  BY <1>1 DEF TypeOK
<1>5. /\ modified'[s] = modified[s] \ {t}
      /\ \A q \in Syncs \ {s} : modified'[q] = modified[q] /\ failed'[q] = failed[q]
  BY <1>2, <1>3, <1>4 DEF Updates, RowUpdated
<1>6. \A u \in Txns : InLedger(row, u) => InLedger(row', u)
  BY <1>1, RowsStay
<1>7. ~failed'[s] => ~failed[s] /\ RowUpdated(s, t)
  BY <1>2, <1>4 DEF Updates, RowUpdated
<1>8. Positions' /\ Orderly(log)'
  BY <1>3 DEF IInv, Positions, Working
<1>9. Sourced'
  BY <1>3, <1>5 DEF IInv, Sourced
<1>10. NothingSkipped'
  <2>1. \A q \in Syncs : ~failed'[q] => ~failed[q]
    BY <1>5, <1>7
  <2> QED
    BY <1>3, <1>6, <2>1, CoversStay, OwesStay DEF IInv, NothingSkipped, Working
<1>11. AtHome'
  BY <1>2, <1>3 DEF IInv, AtHome, Updates, RowUpdated
<1>12. Calm'
  <2>1. SUFFICES ASSUME ~disturbed
                 PROVE  Calm'
    BY <1>3 DEF Calm
  <2>2. Working(s)
    BY <1>3 DEF Working
  <2>3. /\ base[s] = cursor
        /\ \A q \in Syncs : Working(q) \/ step[q] # "idle" => q = s
        /\ ~failed[s] => Mirror(log, row, live, upto[s], modified[s], removed[s])
    BY <2>1, <2>2, WorkerIsAlone DEF IInv
  <2>4. ASSUME ~failed'[s]
        PROVE  Mirror(log, row', live, upto[s], modified'[s], removed[s])
    <3>1. Mirror(log, row, live, upto[s], modified[s], removed[s])
      BY <1>7, <2>3, <2>4
    <3>2. \A u \in Txns, a \in Accounts : row'[u][a] # 0 =>
             /\ row[u][a] # 0
             /\ u # t => row'[u][a] = row[u][a]
             /\ u = t => Latest(log, t, upto[s], row'[u][a])
      BY <1>7, <2>4 DEF RowUpdated
    <3> QED
      BY <1>5, <3>1, <3>2 DEF Mirror
  <2> QED
    BY <1>3, <2>2, <2>3, <2>4 DEF Calm, Working
<1> QED
  BY <1>8, <1>9, <1>10, <1>11, <1>12 DEF IInv

LEMMA SoftDeleteStep ==
  ASSUME IInv, TypeOK', NEW s \in Syncs, SoftDeleteRemoved(s)
  PROVE  IInv'
<1>1. PICK t \in removed[s] :
         /\ step[s] = "apply"
         /\ removed' = [removed EXCEPT ![s] = removed[s] \ {t}]
         /\ live' = {p \in live : p[1] # t}
         /\ UNCHANGED <<log, cursor, row, step, base, upto, added, modified, failed, moved, disturbed>>
  BY DEF SoftDeleteRemoved, bankVars, connVars
<1>2. removed'[s] = removed[s] \ {t} /\ \A q \in Syncs \ {s} : removed'[q] = removed[q]
  BY <1>1 DEF IInv, TypeOK
<1>3. Positions' /\ Orderly(log)' /\ Sourced' /\ NothingSkipped' /\ AtHome'
  BY <1>1 DEF IInv, Positions, Sourced, NothingSkipped, AtHome, Working
<1>4. Calm'
  <2>1. SUFFICES ASSUME ~disturbed
                 PROVE  Calm'
    BY <1>1 DEF Calm
  <2>2. Working(s)
    BY <1>1 DEF Working
  <2>3. /\ base[s] = cursor
        /\ \A q \in Syncs : Working(q) \/ step[q] # "idle" => q = s
        /\ ~failed[s] => Mirror(log, row, live, upto[s], modified[s], removed[s])
    BY <2>1, <2>2, WorkerIsAlone DEF IInv
  <2>4. ~failed[s] => Mirror(log, row, live', upto[s], modified[s], removed'[s])
    BY <1>1, <1>2, <2>3 DEF Mirror
  <2> QED
    BY <1>1, <2>2, <2>3, <2>4 DEF Calm, Working
<1> QED
  BY <1>3, <1>4 DEF IInv

LEMMA RowFailsStep ==
  ASSUME IInv, TypeOK', NEW s \in Syncs, RowFails(s)
  PROVE  IInv'
<1>1. /\ step[s] = "apply" /\ failed' = [failed EXCEPT ![s] = TRUE]
      /\ UNCHANGED <<log, cursor, row, live, step, base, upto, moved, disturbed>>
  BY DEF RowFails, Fails, bankVars, connVars, rowVars
<1>2. /\ added \in [Syncs -> SUBSET Txns] /\ modified \in [Syncs -> SUBSET Txns]
      /\ removed \in [Syncs -> SUBSET Txns] /\ failed \in [Syncs -> BOOLEAN]
  BY DEF IInv, TypeOK
<1>3. failed'[s] /\ \A q \in Syncs \ {s} : failed'[q] = failed[q]
  BY <1>1, <1>2
<1>4. /\ added'[s] \subseteq added[s]
      /\ \A q \in Syncs \ {s} : added'[q] = added[q]
  <2>1. UNCHANGED added \/ \E t \in added[s] : added' = [added EXCEPT ![s] = @ \ {t}]
    BY DEF RowFails
  <2> QED
    BY <1>2, <2>1
<1>5. /\ modified'[s] \subseteq modified[s]
      /\ \A q \in Syncs \ {s} : modified'[q] = modified[q]
  <2>1. UNCHANGED modified \/ \E t \in modified[s] : modified' = [modified EXCEPT ![s] = @ \ {t}]
    BY DEF RowFails
  <2> QED
    BY <1>2, <2>1
<1>6. Positions' /\ Orderly(log)' /\ AtHome'
  BY <1>1 DEF IInv, Positions, AtHome, Working
<1>7. Sourced'
  BY <1>1, <1>4, <1>5 DEF IInv, Sourced
<1>8. NothingSkipped'
  BY <1>1, <1>3, <1>4 DEF IInv, NothingSkipped, Working
<1>9. Calm'
  <2>1. SUFFICES ASSUME ~disturbed
                 PROVE  Calm'
    BY <1>1 DEF Calm
  <2>2. Working(s)
    BY <1>1 DEF Working
  <2>3. base[s] = cursor /\ \A q \in Syncs : Working(q) \/ step[q] # "idle" => q = s
    BY <2>1, <2>2, WorkerIsAlone DEF IInv
  <2> QED
    BY <1>1, <1>3, <2>2, <2>3 DEF Calm, Working
<1> QED
  BY <1>6, <1>7, <1>8, <1>9 DEF IInv

\* A sync without anything left has covered the position it got to.
LEMMA CoversOn ==
  ASSUME NEW l \in Seq(Change), NEW r, NEW b \in Nat, NEW u \in Nat, b <= u,
         Covers(l, r, b), Owes(l, r, b, u, {})
  PROVE  Covers(l, r, u)
<1>1. \A kind, t : Has(l, kind, t, 0, u) <=> Has(l, kind, t, 0, b) \/ Has(l, kind, t, b, u)
  <2>1. Len(l) \in Nat
    OBVIOUS
  <2> QED
    BY <2>1 DEF Has
<1> QED
  BY <1>1 DEF Covers, Owes

\* What a sync leaves that ends.
LEMMA Forgotten ==
  ASSUME TypeOK, NEW s \in Syncs, Forget(s)
  PROVE  /\ step'[s] = "idle" /\ base'[s] = 0 /\ upto'[s] = 0
         /\ added'[s] = {} /\ modified'[s] = {} /\ failed'[s] = FALSE
         /\ \A q \in Syncs \ {s} :
              /\ step'[q] = step[q] /\ base'[q] = base[q] /\ upto'[q] = upto[q]
              /\ added'[q] = added[q] /\ modified'[q] = modified[q] /\ removed'[q] = removed[q]
              /\ failed'[q] = failed[q]
BY DEF TypeOK, Forget

\* The end of a sync, with a cursor in the log that skips nothing, and calm only
\* if the mirror is exact there.
LEMMA EndOfSync ==
  ASSUME IInv, TypeOK', NEW s \in Syncs, Forget(s),
         UNCHANGED <<log, row, live, moved>>,
         cursor' <= Len(log), Covers(log, row, cursor'), disturbed => disturbed',
         ~disturbed' => /\ \A q \in Syncs \ {s} : step[q] = "idle"
                        /\ Mirror(log, row, live, cursor', {}, {})
  PROVE  IInv'
<1>1. /\ step'[s] = "idle" /\ base'[s] = 0 /\ upto'[s] = 0
      /\ added'[s] = {} /\ modified'[s] = {} /\ failed'[s] = FALSE
      /\ \A q \in Syncs \ {s} :
           /\ step'[q] = step[q] /\ base'[q] = base[q] /\ upto'[q] = upto[q]
           /\ added'[q] = added[q] /\ modified'[q] = modified[q] /\ removed'[q] = removed[q]
           /\ failed'[q] = failed[q]
  BY Forgotten DEF IInv
<1>2. ~Working(s)' /\ \A q \in Syncs \ {s} : Working(q)' <=> Working(q)
  BY <1>1 DEF Working
<1>3. log \in Seq(Change) /\ Len(log) \in Nat
  BY DEF IInv, TypeOK
<1>4. Positions'
  BY <1>1, <1>2, <1>3 DEF IInv, Positions
<1>5. Orderly(log)' /\ AtHome'
  BY DEF IInv, AtHome
<1>6. Sourced'
  <2>1. \A q \in Syncs \ {s} : \A t \in Txns :
           /\ t \in added'[q] => Has(log, "added", t, 0, upto'[q]) /\ ~Has(log, "removed", t, 0, upto'[q])
           /\ t \in modified'[q] => Has(log, "modified", t, 0, upto'[q])
    BY <1>1 DEF IInv, Sourced
  <2> QED
    BY <1>1, <2>1 DEF Sourced
<1>7. NothingSkipped'
  <2>1. Covers(log, row, 0)
    BY DEF Covers, Has
  <2>2. \A q \in Syncs : Covers(log, row, base'[q])
    BY <1>1, <2>1 DEF IInv, NothingSkipped
  <2>3. \A q \in Syncs : Working(q)' /\ ~failed'[q] => Owes(log, row, base'[q], upto'[q], added'[q])
    BY <1>1, <1>2 DEF IInv, NothingSkipped
  <2> QED
    BY <2>2, <2>3 DEF NothingSkipped
<1>8. Calm'
  BY <1>1 DEF Calm, Working
<1> QED
  BY <1>4, <1>5, <1>6, <1>7, <1>8 DEF IInv

LEMMA FinishStep ==
  ASSUME IInv, TypeOK', NEW s \in Syncs, FinishSync(s)
  PROVE  IInv'
<1>1. /\ step[s] = "apply" /\ added[s] = {} /\ modified[s] = {} /\ removed[s] = {}
      /\ Forget(s) /\ cursor' = IF failed[s] THEN base[s] ELSE upto[s]
      /\ disturbed' = (disturbed \/ failed[s])
      /\ UNCHANGED <<log, row, live, moved>>
  BY DEF FinishSync, NextCursor, bankVars, rowVars
<1>2. Working(s)
  BY <1>1 DEF Working
<1>3. /\ log \in Seq(Change) /\ base[s] \in Nat /\ upto[s] \in Nat /\ base[s] <= upto[s]
      /\ base[s] <= Len(log) /\ upto[s] <= Len(log)
  BY <1>2 DEF IInv, TypeOK, Positions
<1>4. cursor' <= Len(log)
  BY <1>1, <1>3
<1>5. Covers(log, row, cursor')
  <2>1. Covers(log, row, base[s]) /\ (~failed[s] => Owes(log, row, base[s], upto[s], {}))
    BY <1>1, <1>2 DEF IInv, NothingSkipped
  <2>2. ~failed[s] => Covers(log, row, upto[s])
    BY <1>3, <2>1, CoversOn
  <2> QED
    BY <1>1, <2>1, <2>2
<1>6. ASSUME ~disturbed'
      PROVE  /\ \A q \in Syncs \ {s} : step[q] = "idle"
             /\ Mirror(log, row, live, cursor', {}, {})
  BY <1>1, <1>2, <1>6, WorkerIsAlone DEF IInv
<1> QED
  BY <1>1, <1>4, <1>5, <1>6, EndOfSync

LEMMA DeathStep ==
  ASSUME IInv, TypeOK', NEW s \in Syncs, FetchFails(s) \/ SyncDies(s)
  PROVE  IInv'
<1>1. Forget(s) /\ disturbed' /\ UNCHANGED <<log, row, live, moved, cursor>>
  BY DEF FetchFails, SyncDies, bankVars, connVars, rowVars
<1>2. cursor' <= Len(log) /\ Covers(log, row, cursor')
  BY <1>1 DEF IInv, Positions, NothingSkipped
<1> QED
  BY <1>1, <1>2, EndOfSync

\* Steps of the user that move rows.
LEMMA RelocationStep ==
  ASSUME PlaidConstants, IInv, TypeOK', [Next]_vars,
         UNCHANGED <<log, cursor, step, base, upto, added, modified, removed, failed, disturbed>>,
         AtHome',
         \A k, mod, rem : Mirror(log, row, live, k, mod, rem) => Mirror(log, row', live', k, mod, rem)
  PROVE  IInv'
<1>1. \A u \in Txns : InLedger(row, u) => InLedger(row', u)
  BY RowsStay DEF IInv
<1>2. Positions' /\ Orderly(log)' /\ Sourced'
  BY DEF IInv, Positions, Sourced, Working
<1>3. NothingSkipped'
  BY <1>1, CoversStay, OwesStay DEF IInv, NothingSkipped, Working
<1>4. Calm'
  BY DEF IInv, Calm, Working
<1> QED
  BY <1>2, <1>3, <1>4 DEF IInv

LEMMA MoveStep ==
  ASSUME PlaidConstants, IInv, TypeOK', [Next]_vars,
         NEW t \in Txns, NEW a \in Accounts, NEW b \in Accounts, b # a, MoveRow(t, a, b)
  PROVE  IInv'
<1>1. RowGoes(t, a, b)
  BY MovedRows DEF IInv
<1>2. /\ live' = (live \ {<<t, a>>}) \union {<<t, b>>} /\ moved' = moved \union {t}
      /\ UNCHANGED <<log, cursor, step, base, upto, added, modified, removed, failed, disturbed>>
  BY DEF MoveRow, bankVars, connVars, syncVars
<1>3. AtHome'
  BY <1>1, <1>2 DEF IInv, AtHome, RowGoes
<1>4. ASSUME NEW k, NEW mod, NEW rem, Mirror(log, row, live, k, mod, rem)
      PROVE  Mirror(log, row', live', k, mod, rem)
  <2> SUFFICES ASSUME NEW u \in Txns, NEW c \in Accounts, row'[u][c] # 0
               PROVE  /\ Has(log, "added", u, 0, k)
                      /\ Has(log, "removed", u, 0, k) => <<u, c>> \notin live' \/ u \in rem
                      /\ ~Has(log, "removed", u, 0, k) => Latest(log, u, k, row'[u][c]) \/ u \in mod
    BY DEF Mirror
  <2>1. CASE u = t /\ c = b
    BY <1>1, <1>4, <2>1 DEF Mirror, RowGoes
  <2>2. CASE u = t /\ c = a
    BY <1>1, <2>2 DEF RowGoes
  <2>3. CASE u # t \/ (c # a /\ c # b)
    <3>1. row'[u][c] = row[u][c]
      BY <1>1, <2>3 DEF RowGoes
    <3>2. <<u, c>> \in live' => <<u, c>> \in live
      BY <1>2, <2>3
    <3> QED
      BY <1>4, <3>1, <3>2 DEF Mirror
  <2> QED
    BY <2>1, <2>2, <2>3
<1> QED
  BY <1>2, <1>3, <1>4, RelocationStep

LEMMA OrphanStep ==
  ASSUME PlaidConstants, IInv, TypeOK', [Next]_vars, NEW a \in BankAccounts, DeleteAccount(a)
  PROVE  IInv'
<1>1. RowsOrphaned(a)
  BY OrphanedRows DEF IInv
<1>2. /\ live' = live /\ moved' = moved \union {t \in Txns : row[t][a] # 0}
      /\ UNCHANGED <<log, cursor, step, base, upto, added, modified, removed, failed, disturbed>>
  BY DEF DeleteAccount, bankVars, connVars, syncVars
<1>3. a \in Accounts /\ NoAccount \in Accounts /\ a # NoAccount
  BY AccountsTyped
<1>4. AtHome'
  <2> SUFFICES ASSUME NEW t \in Txns \ moved', NEW c \in Accounts, row'[t][c] # 0
               PROVE  c = Home[t]
    BY DEF AtHome
  <2>1. t \notin moved /\ row[t][a] = 0
    BY <1>2
  <2>2. row[t][c] # 0
    BY <1>1, <2>1 DEF RowsOrphaned
  <2> QED
    BY <2>1, <2>2 DEF IInv, AtHome
<1>5. ASSUME NEW k, NEW mod, NEW rem, Mirror(log, row, live, k, mod, rem)
      PROVE  Mirror(log, row', live', k, mod, rem)
  <2> SUFFICES ASSUME NEW u \in Txns, NEW c \in Accounts, row'[u][c] # 0
               PROVE  /\ Has(log, "added", u, 0, k)
                      /\ Has(log, "removed", u, 0, k) => <<u, c>> \notin live' \/ u \in rem
                      /\ ~Has(log, "removed", u, 0, k) => Latest(log, u, k, row'[u][c]) \/ u \in mod
    BY DEF Mirror
  <2>1. CASE row[u][a] # 0 /\ c = NoAccount
    <3>1. row'[u][c] = row[u][a] /\ row[u][c] = 0
      BY <1>1, <2>1 DEF RowsOrphaned
    <3>2. <<u, c>> \notin live'
      BY <1>2, <3>1 DEF IInv, TypeOK
    <3> QED
      BY <1>3, <1>5, <2>1, <3>1, <3>2 DEF Mirror
  <2>2. CASE row[u][a] = 0 \/ c # NoAccount
    <3>1. row'[u][c] = row[u][c]
      BY <1>1, <2>2 DEF RowsOrphaned
    <3> QED
      BY <1>2, <1>5, <3>1 DEF Mirror
  <2> QED
    BY <2>1, <2>2
<1> QED
  BY <1>2, <1>4, <1>5, RelocationStep

-----------------------------------------------------------------------------
\* IInv is inductive: no step of a sync, of the bank or of the user ends it.
THEOREM Inductive == Spec => []IInv
<1>1. Init => IInv
  BY PlaidConstants, InitHolds
<1>2. IInv /\ [Next]_vars => IInv'
  <2> SUFFICES ASSUME IInv, [Next]_vars
               PROVE  IInv'
    OBVIOUS
  <2>1. TypeOK'
    BY PlaidConstants, TypeStep DEF IInv
  <2>2. CASE \E t \in Txns, k \in {"added", "modified", "removed"} : BankChanges(k, t)
    BY <2>1, <2>2, BankStep
  <2>3. CASE \E s \in Syncs : StartSync(s)
    BY <2>1, <2>3, StartStep
  <2>4. CASE \E s \in Syncs : Fetch(s)
    BY <2>1, <2>4, PlaidConstants, FetchStep
  <2>5. CASE \E s \in Syncs : InsertAdded(s)
    BY <2>1, <2>5, PlaidConstants, InsertStep
  <2>6. CASE \E s \in Syncs : UpdateModified(s)
    BY <2>1, <2>6, PlaidConstants, UpdateStep
  <2>7. CASE \E s \in Syncs : SoftDeleteRemoved(s)
    BY <2>1, <2>7, SoftDeleteStep
  <2>8. CASE \E s \in Syncs : FinishSync(s)
    BY <2>1, <2>8, FinishStep
  <2>9. CASE \E s \in Syncs : RowFails(s)
    BY <2>1, <2>9, RowFailsStep
  <2>10. CASE \E s \in Syncs : FetchFails(s)
    BY <2>1, <2>10, DeathStep
  <2>11. CASE \E s \in Syncs : SyncDies(s)
    BY <2>1, <2>11, DeathStep
  <2>12. CASE \E t \in Txns, a \in Accounts, b \in Accounts : b # a /\ MoveRow(t, a, b)
    BY <2>1, <2>12, PlaidConstants, MoveStep
  <2>13. CASE \E a \in BankAccounts : DeleteAccount(a)
    BY <2>1, <2>13, PlaidConstants, OrphanStep
  <2>14. CASE \/ createBankConnection \/ disconnectBankConnection
              \/ \E a \in BankAccounts : SeedAccount(a)
              \/ \E a \in BankAccounts : SeedFails(a)
              \/ \E s \in Syncs : ReadAccounts(s)
              \/ \E t \in Txns, a \in Accounts : ArchiveRow(t, a)
              \/ \E t \in Txns, a \in Accounts : RestoreRow(t, a)
              \/ \E t \in Txns, a \in Accounts : EditRow(t, a)
              \/ UNCHANGED vars
    BY <2>1, <2>14, QuietSteps
  <2> QED
    BY <2>2, <2>3, <2>4, <2>5, <2>6, <2>7, <2>8, <2>9, <2>10, <2>11, <2>12, <2>13, <2>14, StepCases
<1> QED
  BY <1>1, <1>2, PTL DEF Spec

\* The rows, cursors and what is to be written have their types; a live row exists.
THEOREM TypeCorrect == Spec => []TypeOK
<1>1. IInv => TypeOK
  BY DEF IInv
<1> QED
  BY <1>1, Inductive, PTL

\* Whatever fails, crashes or overlaps: a transaction that the bank has before the
\* stored cursor has a row (cursor saved by the sync route of plaid.routes.js).
THEOREM NeverSkips == Spec => []CursorNeverSkips
<1>1. IInv => CursorNeverSkips
  <2> SUFFICES ASSUME IInv
               PROVE  CursorNeverSkips
    OBVIOUS
  <2>1. \A kind, t, lo, hi : Happened(kind, t, lo, hi) <=> Has(log, kind, t, lo, hi)
    BY HappenedIsHas DEF IInv, TypeOK
  <2>2. Covers(log, row, cursor)
    BY DEF IInv, NothingSkipped
  <2> QED
    BY <2>1, <2>2 DEF CursorNeverSkips, Covered, Covers, HasRow, InLedger
<1> QED
  BY <1>1, Inductive, PTL

\* Syncs in sequence that do not fail leave the bank's state at the cursor: the last
\* amounts have been written to the rows (and only a user's PUT has written over them),
\* and no row is live that the bank has removed.
THEOREM ExactWhenCalm == Spec => []MirrorExactWhenCalm
<1>1. IInv => MirrorExactWhenCalm
  <2> SUFFICES ASSUME IInv, ~disturbed, InFlight = {}, NEW t \in Txns, NEW a \in Accounts,
                      row[t][a] # 0
               PROVE  IF Happened("removed", t, 0, cursor) THEN <<t, a>> \notin live
                      ELSE row[t][a] = Version(t, cursor)
    BY DEF MirrorExactWhenCalm
  <2>1. log \in Seq(Change) /\ cursor \in Nat
    BY DEF IInv, TypeOK
  <2>2. Happened("removed", t, 0, cursor) <=> Has(log, "removed", t, 0, cursor)
    BY <2>1, HappenedIsHas
  <2>3. \A s \in Syncs : ~Working(s)
    BY DEF InFlight, Working
  <2>4. Mirror(log, row, live, cursor, {}, {})
    BY <2>3 DEF IInv, Calm
  <2>5. CASE Has(log, "removed", t, 0, cursor)
    BY <2>2, <2>4, <2>5 DEF Mirror
  <2>6. CASE ~Has(log, "removed", t, 0, cursor)
    <3>1. Has(log, "added", t, 0, cursor) /\ Latest(log, t, cursor, row[t][a])
      BY <2>4, <2>6 DEF Mirror
    <3>2. Latest(log, t, cursor, Version(t, cursor))
      BY <2>1, <3>1, VersionIsLatest
    <3> QED
      BY <2>2, <2>6, <3>1, <3>2, LatestIsOne
  <2> QED
    BY <2>5, <2>6
<1> QED
  BY <1>1, Inductive, PTL

\* No step of a sync brings a transaction back that the user deleted, as long as
\* its row is at its account (ON CONFLICT DO NOTHING sees deleted rows).
THEOREM RevivesNothing == Spec => SyncRevivesNothing
<1>1. ASSUME IInv, [Next]_vars, NEW t \in Txns \ moved, Deleted(t), ~Deleted(t)'
      PROVE  syncVars' = syncVars
  <2>1. TypeOK /\ Sourced /\ AtHome
    BY <1>1 DEF IInv
  <2>2. InLedger(row, t) /\ \A a \in Accounts : <<t, a>> \notin live
    BY <1>1 DEF Deleted, HasRow, InLedger
  <2>3. InLedger(row', t)
    BY <1>1, <2>1, <2>2, PlaidConstants, RowsStay
  <2>4. ~(\A a \in Accounts : <<t, a>> \notin live')
    BY <1>1, <2>3 DEF Deleted, HasRow, InLedger
  <2>5. ASSUME NEW s \in Syncs, InsertAdded(s)
        PROVE  FALSE
    <3>1. PICK u \in Txns : Inserts(s, u)
      BY <2>1, <2>5, PlaidConstants, InsertedRows
    <3>2. row[t][Home[t]] # 0
      BY <2>1, <2>2 DEF AtHome, InLedger
    <3>3. RowInserted(s, u) => u # t
      BY <3>2 DEF RowInserted
    <3>4. \A a \in Accounts : <<t, a>> \notin live'
      BY <2>2, <3>1, <3>3 DEF Inserts, RowInserted, rowVars
    <3> QED
      BY <2>4, <3>4
  <2>6. CASE \E s \in Syncs : \/ StartSync(s) \/ Fetch(s) \/ ReadAccounts(s) \/ UpdateModified(s)
                              \/ SoftDeleteRemoved(s) \/ FinishSync(s) \/ FetchFails(s)
                              \/ RowFails(s) \/ SyncDies(s)
    <3>1. live' \subseteq live
      BY <2>6 DEF StartSync, Fetch, ReadAccounts, UpdateModified, SoftDeleteRemoved, FinishSync,
                  FetchFails, RowFails, SyncDies, rowVars
    <3> QED
      BY <2>2, <2>4, <3>1
  <2>7. CASE \/ \E u \in Txns, k \in {"added", "modified", "removed"} : BankChanges(k, u)
             \/ createBankConnection \/ disconnectBankConnection
             \/ \E a \in BankAccounts : SeedAccount(a) \/ SeedFails(a) \/ DeleteAccount(a)
             \/ \E u \in Txns, a \in Accounts : ArchiveRow(u, a) \/ RestoreRow(u, a) \/ EditRow(u, a)
             \/ \E u \in Txns, a \in Accounts, b \in Accounts : b # a /\ MoveRow(u, a, b)
             \/ UNCHANGED vars
    BY <2>7 DEF BankChanges, createBankConnection, disconnectBankConnection, SeedAccount, SeedFails,
                DeleteAccount, ArchiveRow, RestoreRow, EditRow, MoveRow, vars
  <2> QED
    BY <1>1, <2>5, <2>6, <2>7, StepCases
<1>2. IInv /\ [Next]_vars =>
        [\A t \in Txns \ moved : Deleted(t) /\ ~Deleted(t)' => syncVars' = syncVars]_vars
  BY <1>1
<1> QED
  BY <1>2, Inductive, PTL DEF Spec, SyncRevivesNothing
=============================================================================
