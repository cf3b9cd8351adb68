---------------------------- MODULE ReceiptsProofs ----------------------------
(***************************************************************************)
(* Receipts, for every number of files, transactions and requests and every*)
(* cap.  What the locks give: two requests never change one file (Files-   *)
(* Apart), and of those that add evidence only one is at work (Advisory-   *)
(* Exclusive), so the cap it has checked still has room when it commits    *)
(* (Room).  What no lock gives is the status: it follows only for requests *)
(* that meet nobody, whose count nobody invalidates (Synced).              *)
(***************************************************************************)
EXTENDS Receipts, FiniteSetTheorems, TLAPS

\* Which steps belong to which request, and what each of them has.
Shape(q) ==
  /\ step[q] = "begin" => op[q] = "upload"
  /\ step[q] \in {"lockReceipt", "change"} => op[q] \in {"attach", "delete"}
  /\ step[q] \in Changing => op[q] \in {"upload", "attach", "delete"}
  /\ step[q] = "attest" => op[q] = "attest" /\ to[q] \in Txns
  /\ step[q] \notin {"idle", "attest"} => file[q] \in Files
  /\ op[q] = "delete" => to[q] = NoTxn
  /\ step[q] \in {"countFrom", "writeFrom"} => from[q] \in Txns /\ from[q] # to[q]
  /\ step[q] \in {"countTo", "writeTo"} => to[q] \in Txns
  /\ step[q] \notin Changing => from[q] = NoTxn /\ held[q] = {}
  /\ held[q] \subseteq {from[q], to[q]}
  /\ step[q] \in {"countFrom", "writeFrom"} => held[q] = {}
  /\ step[q] \in {"countTo", "writeTo"} => to[q] \notin held[q]

\* The file of a request: new, or there and linked to the transaction it leaves.
Owns(q) ==
  /\ step[q] # "idle" /\ op[q] = "upload" => file[q] \notin stored /\ from[q] = NoTxn
  /\ HoldsReceipt(q) => file[q] \in stored
  /\ HoldsReceipt(q) /\ step[q] \in Changing => link[file[q]] = from[q]
FilesApart ==
  \A p, q \in Requests :
    /\ HoldsReceipt(p) /\ HoldsReceipt(q) /\ file[p] = file[q] => p = q
    /\ step[p] # "idle" /\ op[p] = "upload" /\ step[q] # "idle" /\ op[q] = "upload"
         /\ file[p] = file[q] => p = q
AdvisoryExclusive == \A p, q \in Requests : HoldsAdvisory(p) /\ HoldsAdvisory(q) => p = q

\* The one request that adds evidence has room for it.
Room(q) ==
  HoldsAdvisory(q) /\ to[q] # NoTxn => Cardinality(Evidence(to[q]) \union {file[q]}) <= MaxReceipts

\* What a request has checked of the lock lasts, unless the period was locked since.
Dated(q) ==
  q \notin late =>
    /\ step[q] \in Changing \union {"attest"} => to[q] \notin locked
    /\ step[q] = "begin" => to[q] \notin locked
    /\ step[q] \in Changing /\ to[q] = NoTxn => from[q] \notin locked

\* A request that has met nobody shares its transactions with nobody.
Alone(q) == q \notin crossed => \A p \in Requests \ {q} : WorksOn(p) \intersect WorksOn(q) = {}

\* What t will say, and have, when q commits.
Says(q, t) == IF t \in held[q] THEN pending[q][t] ELSE status[t]
MyEvidence(q, t) == {f \in MyFiles(q) : MyLink(q)[f] = t}
Right(q, t) == Says(q, t) = "attached" <=> MyEvidence(q, t) # {}
Synced(q) ==
  q \notin crossed =>
    /\ step[q] = "writeFrom" => (found[q] <=> MyEvidence(q, from[q]) # {})
    /\ step[q] = "writeTo" => (found[q] <=> MyEvidence(q, to[q]) # {})
    /\ step[q] \in {"countTo", "writeTo", "commit"} /\ from[q] \notin {NoTxn, to[q]} => Right(q, from[q])
    /\ step[q] = "commit" /\ to[q] # NoTxn => Right(q, to[q])
    /\ step[q] = "attest" => Evidence(to[q]) = {}

Reflects == \A t \in Txns \ raced : status[t] = "attached" <=> Evidence(t) # {}

IInv ==
  /\ TypeOK
  /\ IsFiniteSet(stored)
  /\ FilesApart /\ AdvisoryExclusive
  /\ \A q \in Requests : Shape(q) /\ Owns(q) /\ Room(q) /\ Dated(q) /\ Alone(q) /\ Synced(q)
  /\ CapHolds
  /\ Reflects

----------------------------------------------------------------------------
(* Type correctness. *)

LEMMA FinishTyped ==
  ASSUME TypeOK, NEW q \in Requests, Finish(q)
  PROVE  /\ step' \in [Requests -> Step] /\ op' \in [Requests -> {"upload", "attach", "delete", "attest"}]
         /\ file' \in [Requests -> Files \union {NoFile}]
         /\ from' \in [Requests -> Txns \union {NoTxn}] /\ to' \in [Requests -> Txns \union {NoTxn}]
         /\ found' \in [Requests -> BOOLEAN]
         /\ held' \in [Requests -> SUBSET Txns]
         /\ pending' \in [Requests -> [Txns -> Status]]
         /\ crossed' \subseteq {p \in Requests : step'[p] # "idle"}
         /\ late' \subseteq {p \in Requests : step'[p] # "idle"}
<1>1. [t \in Txns |-> "pending"] \in [Txns -> Status]
  BY DEF Status
<1>2. pending' \in [Requests -> [Txns -> Status]]
  BY <1>1 DEF TypeOK, Finish
<1> QED BY <1>2 DEF TypeOK, Finish, Goto, Step

LEMMA MeetTyped ==
  ASSUME TypeOK, NEW q \in Requests, NEW S, Meet(q, S)
  PROVE  crossed' \subseteq {p \in Requests : step[p] # "idle"} \union {q} /\ raced' = raced
         /\ late' = late
<1>1. \A p \in Requests : WorksOn(p) \intersect S # {} => step[p] # "idle"
  BY DEF WorksOn, Changing
<1> QED BY <1>1 DEF Meet, TypeOK

LEMMA StartTyped ==
  ASSUME TypeOK, NEW q \in Requests, NEW o \in {"upload", "attach", "delete", "attest"},
         NEW f \in Files \union {NoFile}, NEW t \in Txns \union {NoTxn},
         NEW st \in Step \ {"idle"}, Start(q, o, f, t, st),
         UNCHANGED historyVars \/ Meet(q, {t})
  PROVE  TypeOK'
<1>1. crossed' \subseteq {p \in Requests : step'[p] # "idle"} /\ raced' = raced
      /\ late' \subseteq {p \in Requests : step'[p] # "idle"}
  BY MeetTyped DEF TypeOK, Start, Goto, historyVars
<1> QED BY <1>1 DEF TypeOK, Start, Goto, tableVars

LEMMA SyncTyped ==
  ASSUME TypeOK, NEW q \in Requests, NEW t \in Txns \union {NoTxn}, Sync(q, t), step[q] # "idle"
  PROVE  TypeOK'
<1>1. PICK st \in Step \ {"idle"} : Goto(q, st)
  BY DEF Sync, SyncTo, Step
<1>2. crossed' \subseteq {p \in Requests : step'[p] # "idle"} /\ raced' = raced
      /\ late' \subseteq {p \in Requests : step'[p] # "idle"}
  BY <1>1, MeetTyped DEF TypeOK, Sync, Goto
<1> QED BY <1>1, <1>2 DEF TypeOK, Sync, Goto, tableVars

LEMMA CommitTyped ==
  ASSUME IInv, NEW q \in Requests, Commit(q)
  PROVE  TypeOK'
<1>0. TypeOK /\ Shape(q) /\ Owns(q) /\ step[q] = "commit" /\ file[q] \in Files
      /\ op[q] \in {"upload", "attach", "delete"} /\ to[q] \in Txns \union {NoTxn}
  BY DEF IInv, Commit, Shape, Changing, TypeOK
<1>1. stored' = IF op[q] = "delete" THEN stored \ {file[q]} ELSE stored \union {file[q]}
  BY <1>0 DEF Commit, MyFiles, Changing
<1>2. link' = [link EXCEPT ![file[q]] = to[q]]
  BY <1>0 DEF Commit, MyLink, Changing
<1>3. stored' \subseteq Files /\ link' \in [Files -> Txns \union {NoTxn}]
      /\ \A f \in Files \ stored' : link'[f] = NoTxn
  BY <1>0, <1>1, <1>2 DEF TypeOK, Shape
<1>4. status' \in [Txns -> Status]
  BY <1>0 DEF Commit, TypeOK
<1>5. raced' \subseteq Txns
  BY <1>0 DEF Commit, Settle, WorksOn, TypeOK
<1> QED BY <1>0, <1>3, <1>4, <1>5, FinishTyped DEF Commit, TypeOK

LEMMA TypeStep ==
  ASSUME IInv, Next
  PROVE  TypeOK'
<1>0. TypeOK
  BY DEF IInv
<1>1. ASSUME NEW q \in Requests, Rollback(q)
      PROVE  TypeOK'
  BY <1>0, <1>1, FinishTyped DEF Rollback, TypeOK, tableVars
<1>2. ASSUME NEW q \in Requests,
             \/ \E f \in Files, t \in Txns \union {NoTxn} : StartUpload(q, f, t) \/ StartAttach(q, f, t)
             \/ \E f \in Files : StartDelete(q, f)
             \/ \E t \in Txns : ReadCount(q, t)
      PROVE  TypeOK'
  BY <1>0, <1>2, StartTyped DEF StartUpload, StartAttach, StartDelete, ReadCount, Step
<1>3. ASSUME NEW q \in Requests, Upload(q) \/ Attach(q) \/ Delete(q)
      PROVE  TypeOK'
  <2>1. step[q] # "idle" /\ NoTxn \in Txns \union {NoTxn}
        /\ (step[q] = "change" => link[file[q]] \in Txns \union {NoTxn})
    BY <1>0, <1>3 DEF Upload, Attach, Delete, IInv, Shape, TypeOK
  <2> QED BY <1>0, <1>1, <1>3, <2>1, SyncTyped DEF Upload, Attach, Delete
<1>4. ASSUME NEW q \in Requests, LockReceipt(q)
      PROVE  TypeOK'
  BY <1>0, <1>1, <1>4 DEF LockReceipt, TypeOK, Goto, tableVars, historyVars, Step
<1>5. ASSUME NEW q \in Requests, CountReceipts(q)
      PROVE  TypeOK'
  <2>1. PICK b \in BOOLEAN, st \in Step \ {"idle"} : found' = [found EXCEPT ![q] = b] /\ Goto(q, st)
    <3>1. \A t \in Txns \union {NoTxn} : (Count(q, t) > 0) \in BOOLEAN
      OBVIOUS
    <3> QED BY <1>0, <1>5, <3>1 DEF CountReceipts, Step, TypeOK
  <2>2. /\ crossed' \subseteq {p \in Requests : step'[p] # "idle"}
        /\ late' \subseteq {p \in Requests : step'[p] # "idle"}
    BY <1>0, <1>5, <2>1 DEF CountReceipts, TypeOK, Goto, historyVars
  <2> QED BY <1>0, <1>5, <2>1, <2>2 DEF CountReceipts, TypeOK, Goto, tableVars, historyVars
<1>6. ASSUME NEW q \in Requests, syncReceiptStatusForTransaction(q)
      PROVE  TypeOK'
  <2>1. PICK t \in Txns, st \in Step \ {"idle"} : SetStatus(q, t) /\ Goto(q, st)
    BY <1>6 DEF syncReceiptStatusForTransaction, IInv, Shape, SyncTo, Step
  <2>2. held' \in [Requests -> SUBSET Txns]
    BY <1>0, <2>1 DEF TypeOK, SetStatus
  <2>3. pending' \in [Requests -> [Txns -> Status]]
    <3>1. \A s \in Status : [pending[q] EXCEPT ![t] = s] \in [Txns -> Status]
      BY <1>0 DEF TypeOK
    <3>2. \/ pending' = pending
          \/ \E s \in Status : pending' = [pending EXCEPT ![q] = [pending[q] EXCEPT ![t] = s]]
      BY <1>0, <2>1 DEF SetStatus, Status, TypeOK
    <3> QED BY <1>0, <3>1, <3>2 DEF TypeOK
  <2>4. /\ step' \in [Requests -> Step] /\ crossed' \subseteq {p \in Requests : step'[p] # "idle"}
        /\ late' \subseteq {p \in Requests : step'[p] # "idle"}
    BY <1>0, <1>6, <2>1 DEF TypeOK, Goto, syncReceiptStatusForTransaction, historyVars
  <2> QED BY <1>0, <1>6, <2>2, <2>3, <2>4 DEF syncReceiptStatusForTransaction, TypeOK, tableVars, historyVars
<1>7. ASSUME NEW q \in Requests, Attest(q)
      PROVE  TypeOK'
  <2>1. status' \in [Txns -> Status] /\ raced' \subseteq Txns
    <3>1. WorksOn(q) \subseteq Txns
      BY <1>0 DEF WorksOn, TypeOK
    <3>2. raced' \subseteq Txns
      BY <1>0, <1>7, <3>1 DEF Attest, Settle, TypeOK
    <3>3. status' \in [Txns -> Status]
      BY <1>0, <1>7 DEF Attest, TypeOK, Status
    <3> QED BY <3>2, <3>3
  <2> QED BY <1>0, <1>7, <2>1, FinishTyped DEF Attest, TypeOK
<1>8. CASE MoveLock
  <2>1. \A q \in Requests : Checked(q) # {} => step[q] # "idle"
    BY DEF Checked, Changing
  <2> QED BY <1>0, <1>8, <2>1 DEF MoveLock, TypeOK, tableVars
<1> QED BY <1>1, <1>2, <1>3, <1>4, <1>5, <1>6, <1>7, <1>8, CommitTyped DEF Next, Proceed, Fails

----------------------------------------------------------------------------
(* A step that commits nothing. *)

\* Only q moves.
OnlyOf(q) ==
  \A p \in Requests \ {q} :
    /\ step'[p] = step[p] /\ op'[p] = op[p] /\ file'[p] = file[p] /\ from'[p] = from[p]
    /\ to'[p] = to[p] /\ found'[p] = found[p] /\ held'[p] = held[p] /\ pending'[p] = pending[p]

LEMMA StartsAlone ==
  ASSUME TypeOK, NEW q \in Requests, NEW o, NEW f, NEW t, NEW st, Start(q, o, f, t, st)
  PROVE  /\ OnlyOf(q) /\ UNCHANGED <<tableVars, locked>>
         /\ step[q] = "idle" /\ step'[q] = st /\ op'[q] = o /\ file'[q] = f /\ to'[q] = t
         /\ from'[q] = from[q] /\ held'[q] = held[q]
BY DEF TypeOK, Start, Goto, OnlyOf

LEMMA FinishesAlone ==
  ASSUME TypeOK, NEW q \in Requests, Finish(q)
  PROVE  /\ OnlyOf(q)
         /\ step'[q] = "idle" /\ op'[q] = "upload" /\ file'[q] = NoFile /\ to'[q] = NoTxn
         /\ from'[q] = NoTxn /\ held'[q] = {}
BY DEF TypeOK, Finish, Goto, OnlyOf

LEMMA SyncsAlone ==
  ASSUME TypeOK, NEW q \in Requests, NEW t \in Txns \union {NoTxn}, Sync(q, t)
  PROVE  /\ OnlyOf(q) /\ UNCHANGED <<tableVars, locked>>
         /\ step'[q] = IF t # NoTxn /\ t # to[q] THEN "countFrom" ELSE SyncTo(q)
         /\ op'[q] = op[q] /\ file'[q] = file[q] /\ to'[q] = to[q] /\ from'[q] = t
         /\ held'[q] = held[q]
BY DEF TypeOK, Sync, Goto, OnlyOf, SyncTo

\* Others see nothing of it.
LEMMA OthersSame ==
  ASSUME NEW q \in Requests, OnlyOf(q), UNCHANGED tableVars, NEW p \in Requests \ {q}
  PROVE  /\ HoldsReceipt(p)' = HoldsReceipt(p) /\ HoldsAdvisory(p)' = HoldsAdvisory(p)
         /\ WorksOn(p)' = WorksOn(p)
         /\ \A t : MyEvidence(p, t)' = MyEvidence(p, t) /\ Right(p, t)' = Right(p, t)
<1>1. HoldsReceipt(p)' = HoldsReceipt(p) /\ HoldsAdvisory(p)' = HoldsAdvisory(p)
      /\ WorksOn(p)' = WorksOn(p)
  BY DEF OnlyOf, HoldsReceipt, HoldsAdvisory, WorksOn
<1>2. MyFiles(p)' = MyFiles(p) /\ MyLink(p)' = MyLink(p)
  BY DEF OnlyOf, MyFiles, MyLink, tableVars
<1>3. \A t : MyEvidence(p, t)' = MyEvidence(p, t)
  BY <1>2 DEF MyEvidence
<1>4. \A t : Says(p, t)' = Says(p, t)
  BY DEF OnlyOf, Says, tableVars
<1> QED BY <1>1, <1>3, <1>4 DEF Right

\* The transactions q works on are those it worked on, or q has looked who is there.
Looked(q) ==
  \/ /\ WorksOn(q)' \subseteq WorksOn(q) /\ crossed \ {q} \subseteq crossed'
     /\ q \in crossed => q \in crossed' \/ WorksOn(q)' = {}
  \/ Meet(q, WorksOn(q)')

LEMMA LocalStep ==
  ASSUME IInv, TypeOK', NEW q \in Requests, OnlyOf(q), Looked(q),
         UNCHANGED <<tableVars, locked, raced>>, late \subseteq late' \union {q},
         Shape(q)', Owns(q)', Room(q)', Dated(q)', Synced(q)',
         HoldsAdvisory(q)' => HoldsAdvisory(q) \/ AdvisoryFree,
         HoldsReceipt(q)' => (HoldsReceipt(q) /\ file'[q] = file[q]) \/ ReceiptFree(file'[q]),
         step'[q] # "idle" /\ op'[q] = "upload" =>
           \A p \in Requests \ {q} : step[p] # "idle" /\ op[p] = "upload" => file[p] # file'[q]
  PROVE  IInv'
<1>1. \A p \in Requests \ {q} : HoldsReceipt(p)' = HoldsReceipt(p) /\ HoldsAdvisory(p)' = HoldsAdvisory(p)
        /\ WorksOn(p)' = WorksOn(p) /\ file'[p] = file[p] /\ step'[p] = step[p] /\ op'[p] = op[p]
  BY OthersSame DEF OnlyOf
<1>2. FilesApart'
  <2> SUFFICES ASSUME NEW p \in Requests, NEW r \in Requests
               PROVE  /\ HoldsReceipt(p)' /\ HoldsReceipt(r)' /\ file'[p] = file'[r] => p = r
                      /\ step'[p] # "idle" /\ op'[p] = "upload" /\ step'[r] # "idle" /\ op'[r] = "upload"
                           /\ file'[p] = file'[r] => p = r
    BY DEF FilesApart
  <2>1. CASE p # q /\ r # q
    BY <1>1, <2>1 DEF IInv, FilesApart
  <2>2. CASE p = q /\ r # q
    BY <1>1, <2>2 DEF IInv, FilesApart, ReceiptFree
  <2>3. CASE p # q /\ r = q
    BY <1>1, <2>3 DEF IInv, FilesApart, ReceiptFree
  <2> QED BY <2>1, <2>2, <2>3
<1>3. AdvisoryExclusive'
  BY <1>1 DEF IInv, AdvisoryExclusive, AdvisoryFree
<1>4. ASSUME NEW p \in Requests, p # q
      PROVE  Shape(p)' /\ Owns(p)' /\ Room(p)' /\ Dated(p)'
  <2>1. Shape(p)' /\ Dated(p)'
    BY <1>4 DEF IInv, OnlyOf, Shape, Dated
  <2>2. Owns(p)'
    BY <1>1, <1>4 DEF IInv, OnlyOf, Owns, tableVars
  <2>3. Evidence(to[p])' = Evidence(to[p]) /\ to'[p] = to[p]
    BY <1>4 DEF OnlyOf, Evidence, tableVars
  <2>4. Room(p)'
    BY <1>1, <1>4, <2>3 DEF IInv, Room
  <2> QED BY <2>1, <2>2, <2>4
<1>5. \A p \in Requests : p # q => (p \notin crossed' => p \notin crossed)
  BY DEF Looked, Meet
<1>6. ASSUME NEW p \in Requests
      PROVE  Alone(p)'
  <2> SUFFICES ASSUME p \notin crossed', NEW r \in Requests \ {p}
               PROVE  WorksOn(r)' \intersect WorksOn(p)' = {}
    BY DEF Alone
  <2>1. CASE p # q /\ r # q
    BY <1>1, <1>5, <2>1 DEF IInv, Alone
  <2>2. CASE Meet(q, WorksOn(q)') /\ p = q
    BY <1>1, <2>2 DEF Meet
  <2>3. CASE Meet(q, WorksOn(q)') /\ r = q
    BY <1>1, <2>3 DEF Meet
  <2>4. CASE ~Meet(q, WorksOn(q)') /\ p = q
    BY <1>1, <2>4 DEF Looked, IInv, Alone
  <2>5. CASE ~Meet(q, WorksOn(q)') /\ r = q
    BY <1>1, <1>5, <2>5 DEF Looked, IInv, Alone
  <2> QED BY <2>1, <2>2, <2>3, <2>4, <2>5
<1>7. ASSUME NEW p \in Requests, p # q
      PROVE  Synced(p)'
  <2>1. \A t : MyEvidence(p, t)' = MyEvidence(p, t) /\ Right(p, t)' = Right(p, t)
    BY <1>7, OthersSame
  <2>2. Evidence(to[p])' = Evidence(to[p]) /\ to'[p] = to[p] /\ from'[p] = from[p] /\ step'[p] = step[p]
        /\ found'[p] = found[p]
    BY <1>7 DEF OnlyOf, Evidence, tableVars
  <2>3. Synced(p)
    BY DEF IInv
  <2> QED BY <1>5, <1>7, <2>1, <2>2, <2>3 DEF Synced
<1>8. IsFiniteSet(stored') /\ CapHolds' /\ Reflects'
  BY DEF IInv, CapHolds, Reflects, Evidence, tableVars
<1> QED BY <1>2, <1>3, <1>4, <1>6, <1>7, <1>8 DEF IInv

LEMMA StartKeeps ==
  ASSUME IInv, NEW q \in Requests, TypeOK',
         \/ \E f \in Files, t \in Txns \union {NoTxn} : StartUpload(q, f, t) \/ StartAttach(q, f, t)
         \/ \E f \in Files : StartDelete(q, f)
         \/ \E t \in Txns : ReadCount(q, t)
  PROVE  IInv'
<1>0. TypeOK /\ Shape(q)
  BY DEF IInv
<1>1. ASSUME NEW f \in Files, NEW t \in Txns \union {NoTxn}, NEW o \in {"attach", "delete"},
             Start(q, o, f, t, "lockReceipt"), UNCHANGED historyVars, o = "delete" => t = NoTxn
      PROVE  IInv'
  <2>1. /\ OnlyOf(q) /\ UNCHANGED <<tableVars, locked>>
        /\ step[q] = "idle" /\ step'[q] = "lockReceipt" /\ op'[q] = o /\ file'[q] = f /\ to'[q] = t
        /\ from'[q] = from[q] /\ held'[q] = held[q]
    BY <1>0, <1>1, StartsAlone
  <2>2. Shape(q)'
    BY <1>0, <1>1, <2>1 DEF Shape, Changing
  <2>3. Owns(q)' /\ Room(q)' /\ Dated(q)' /\ Synced(q)' /\ ~HoldsAdvisory(q)' /\ ~HoldsReceipt(q)'
    BY <1>1, <2>1 DEF Owns, Room, Dated, Synced, HoldsAdvisory, HoldsReceipt, Changing
  <2>4. WorksOn(q)' = {}
    BY <2>1 DEF WorksOn, Changing
  <2> QED BY <1>1, <2>1, <2>2, <2>3, <2>4, LocalStep DEF Looked, historyVars
<1>2. ASSUME NEW f \in Files, NEW t \in Txns \union {NoTxn}, StartUpload(q, f, t)
      PROVE  IInv'
  <2>1. /\ OnlyOf(q) /\ UNCHANGED <<tableVars, locked>>
        /\ step[q] = "idle" /\ step'[q] = "begin" /\ op'[q] = "upload" /\ file'[q] = f /\ to'[q] = t
        /\ from'[q] = from[q] /\ held'[q] = held[q]
    BY <1>0, <1>2, StartsAlone DEF StartUpload
  <2>2. Shape(q)'
    BY <1>0, <1>2, <2>1 DEF Shape, Changing
  <2>3. Owns(q)' /\ Room(q)' /\ Dated(q)' /\ Synced(q)' /\ ~HoldsAdvisory(q)' /\ ~HoldsReceipt(q)'
    BY <1>0, <1>2, <2>1 DEF StartUpload, Owns, Room, Dated, Synced, HoldsAdvisory, HoldsReceipt, Changing,
                            Shape, tableVars
  <2>4. WorksOn(q)' = {}
    BY <2>1 DEF WorksOn, Changing
  <2>5. \A p \in Requests \ {q} : step[p] # "idle" => file[p] # f
    BY <1>2 DEF StartUpload
  <2> QED BY <1>2, <2>1, <2>2, <2>3, <2>4, <2>5, LocalStep DEF Looked, historyVars, StartUpload
<1>3. ASSUME NEW t \in Txns, ReadCount(q, t)
      PROVE  IInv'
  <2>1. /\ OnlyOf(q) /\ UNCHANGED <<tableVars, locked>>
        /\ step[q] = "idle" /\ step'[q] = "attest" /\ op'[q] = "attest" /\ file'[q] = NoFile /\ to'[q] = t
        /\ from'[q] = from[q] /\ held'[q] = held[q]
    BY <1>0, <1>3, StartsAlone DEF ReadCount
  <2>2. Shape(q)'
    BY <1>0, <1>3, <2>1 DEF Shape, Changing
  <2>3. Owns(q)' /\ Room(q)' /\ Dated(q)' /\ ~HoldsAdvisory(q)' /\ ~HoldsReceipt(q)'
    BY <1>0, <1>3, <2>1 DEF ReadCount, Owns, Room, Dated, HoldsAdvisory, HoldsReceipt, Changing
  <2>4. WorksOn(q)' = {t}
    BY <1>0, <2>1, ReceiptsConstants DEF WorksOn, Changing, Shape
  <2>5. Evidence(t) = {}
    BY <1>3, FS_Subset, FS_EmptySet DEF ReadCount, Evidence, IInv
  <2>6. Synced(q)'
    BY <2>1, <2>5 DEF Synced, Evidence, tableVars
  <2> QED BY <1>3, <2>1, <2>2, <2>3, <2>4, <2>6, LocalStep DEF Looked, ReadCount, Meet
<1> QED BY <1>1, <1>2, <1>3, ReceiptsConstants DEF StartAttach, StartDelete

LEMMA RollbackKeeps ==
  ASSUME IInv, NEW q \in Requests, TypeOK', Rollback(q)
  PROVE  IInv'
<1>1. /\ OnlyOf(q)
      /\ step'[q] = "idle" /\ op'[q] = "upload" /\ file'[q] = NoFile /\ to'[q] = NoTxn
      /\ from'[q] = NoTxn /\ held'[q] = {}
  BY FinishesAlone DEF IInv, Rollback
<1>2. Shape(q)' /\ Owns(q)' /\ Room(q)' /\ Dated(q)' /\ Synced(q)' /\ ~HoldsAdvisory(q)'
      /\ ~HoldsReceipt(q)'
  BY <1>1 DEF Shape, Owns, Room, Dated, Synced, HoldsAdvisory, HoldsReceipt, Changing
<1>3. WorksOn(q)' = {}
  BY <1>1 DEF WorksOn, Changing
<1> QED BY <1>1, <1>2, <1>3, LocalStep DEF Rollback, Finish, Looked

LEMMA LockReceiptKeeps ==
  ASSUME IInv, NEW q \in Requests, TypeOK', LockReceipt(q)
  PROVE  IInv'
<1>1. CASE Rollback(q)
  BY <1>1, RollbackKeeps
<1>2. CASE ~Rollback(q)
  <2>1. /\ OnlyOf(q) /\ UNCHANGED <<tableVars, locked, historyVars>> /\ file[q] \in stored /\ ReceiptFree(file[q])
        /\ step[q] = "lockReceipt" /\ step'[q] = "change" /\ op'[q] = op[q] /\ file'[q] = file[q]
        /\ to'[q] = to[q] /\ from'[q] = from[q] /\ held'[q] = held[q]
    BY <1>2 DEF IInv, TypeOK, LockReceipt, Goto, OnlyOf
  <2>2. Shape(q) /\ WorksOn(q)' = {}
    BY <2>1 DEF IInv, WorksOn, Changing
  <2>3. Shape(q)'
    BY <2>1, <2>2 DEF Shape, Changing
  <2>4. Owns(q)' /\ Room(q)' /\ Dated(q)' /\ Synced(q)' /\ ~HoldsAdvisory(q)'
    BY <2>1, <2>2 DEF Owns, Room, Dated, Synced, HoldsAdvisory, Changing, Shape, tableVars
  <2> QED BY <2>1, <2>2, <2>3, <2>4, LocalStep DEF Looked, historyVars, Shape
<1> QED BY <1>1, <1>2

\* The change is made: from now on q works on the transaction left and the one joined.
LEMMA SyncKeeps ==
  ASSUME IInv, NEW q \in Requests, TypeOK', NEW t \in Txns \union {NoTxn}, Sync(q, t),
         \/ step[q] = "begin" /\ t = NoTxn /\ AdvisoryFree
         \/ step[q] = "change" /\ op[q] = "attach" /\ t = link[file[q]] /\ AdvisoryFree
         \/ step[q] = "change" /\ op[q] = "delete" /\ t = link[file[q]],
         op[q] # "delete" /\ to[q] # NoTxn =>
           Cardinality(Evidence(to[q]) \union {file[q]}) <= MaxReceipts,
         q \notin late => to[q] \notin locked /\ (to[q] = NoTxn => t \notin locked)
  PROVE  IInv'
<1>1. /\ OnlyOf(q) /\ UNCHANGED <<tableVars, locked>>
      /\ step'[q] = IF t # NoTxn /\ t # to[q] THEN "countFrom" ELSE SyncTo(q)
      /\ op'[q] = op[q] /\ file'[q] = file[q] /\ to'[q] = to[q] /\ from'[q] = t
      /\ held'[q] = held[q]
  BY SyncsAlone DEF IInv
<1>2. Shape(q) /\ Owns(q) /\ to[q] \in Txns \union {NoTxn}
  BY DEF IInv, TypeOK
<1>3. step'[q] \in Changing /\ step[q] \notin Changing
  BY <1>1 DEF Changing, SyncTo
<1>4. Shape(q)'
  BY <1>1, <1>2 DEF Shape, Changing, SyncTo
<1>5. Owns(q)'
  BY <1>1, <1>2, <1>3 DEF Owns, HoldsReceipt, Shape, tableVars
<1>6. Room(q)'
  <2>1. Evidence(to[q])' = Evidence(to[q])
    BY <1>1 DEF Evidence, tableVars
  <2> QED BY <1>1, <1>3, <2>1 DEF Room, HoldsAdvisory
<1>7. Dated(q)' /\ late' = late
  BY <1>1 DEF Dated, Sync, Meet
<1>8. Synced(q)'
  BY <1>1, <1>2 DEF Synced, SyncTo
<1>9. WorksOn(q)' = {t, to[q]} \ {NoTxn}
  BY <1>1, <1>3 DEF WorksOn
<1>10. Looked(q) /\ UNCHANGED raced
  BY <1>9 DEF Looked, Sync, Meet
<1>11. HoldsAdvisory(q)' => AdvisoryFree
  BY <1>1, <1>2 DEF HoldsAdvisory, Shape
<1>12. HoldsReceipt(q)' => HoldsReceipt(q)
  BY <1>1, <1>2 DEF HoldsReceipt, Shape
<1>13. step'[q] # "idle" /\ op'[q] = "upload" =>
         \A p \in Requests \ {q} : step[p] # "idle" /\ op[p] = "upload" => file[p] # file'[q]
  BY <1>1, <1>2 DEF IInv, FilesApart, Shape
<1> QED BY <1>1, <1>4, <1>5, <1>6, <1>7, <1>8, <1>10, <1>11, <1>12, <1>13, LocalStep

LEMMA EvidenceFinite ==
  ASSUME IInv, NEW t
  PROVE  IsFiniteSet(Evidence(t)) /\ Cardinality(Evidence(t)) \in Nat
BY FS_Subset, FS_CardinalityType DEF IInv, Evidence

LEMMA UploadKeeps ==
  ASSUME IInv, NEW q \in Requests, TypeOK', Upload(q)
  PROVE  IInv'
<1>1. CASE Rollback(q)
  BY <1>1, RollbackKeeps
<1>2. CASE ~Rollback(q)
  <2>1. step[q] = "begin" /\ AdvisoryFree /\ Sync(q, NoTxn)
        /\ (to[q] # NoTxn => ~(Count(q, to[q]) >= MaxReceipts))
    BY <1>2 DEF Upload
  <2>2. to[q] # NoTxn => Cardinality(Evidence(to[q]) \union {file[q]}) <= MaxReceipts
    <3>1. Count(q, to[q]) = Cardinality(Evidence(to[q]))
      BY <2>1 DEF Count, MyFiles, MyLink, Changing, Evidence
    <3>2. Cardinality(Evidence(to[q]) \union {file[q]}) \in {Cardinality(Evidence(to[q])), Cardinality(Evidence(to[q])) + 1}
      BY EvidenceFinite, FS_AddElement
    <3> QED BY <2>1, <3>1, <3>2, EvidenceFinite, ReceiptsConstants
  <2>3. q \notin late => to[q] \notin locked /\ NoTxn \notin locked
    BY <2>1, ReceiptsConstants DEF IInv, Dated, TypeOK
  <2> QED BY <2>1, <2>2, <2>3, SyncKeeps
<1> QED BY <1>1, <1>2

LEMMA AttachKeeps ==
  ASSUME IInv, NEW q \in Requests, TypeOK', Attach(q)
  PROVE  IInv'
<1>1. CASE Rollback(q)
  BY <1>1, RollbackKeeps
<1>2. CASE ~Rollback(q)
  <2>1. step[q] = "change" /\ op[q] = "attach" /\ AdvisoryFree /\ ~AttachRefused(q) /\ Sync(q, link[file[q]])
    BY <1>2 DEF Attach
  <2>2. file[q] \in stored /\ link[file[q]] \in Txns \union {NoTxn}
    BY <2>1 DEF IInv, Owns, HoldsReceipt, TypeOK
  <2>3. to[q] # NoTxn => Cardinality(Evidence(to[q]) \union {file[q]}) <= MaxReceipts
    <3>1. Count(q, to[q]) = Cardinality(Evidence(to[q]))
      BY <2>1 DEF Count, MyFiles, MyLink, Changing, Evidence
    <3>2. Cardinality(Evidence(to[q]) \union {file[q]}) =
            IF link[file[q]] = to[q] THEN Cardinality(Evidence(to[q])) ELSE Cardinality(Evidence(to[q])) + 1
      <4>1. CASE link[file[q]] = to[q]
        <5>1. Evidence(to[q]) \union {file[q]} = Evidence(to[q])
          BY <2>2, <4>1 DEF Evidence
        <5> QED BY <4>1, <5>1
      <4>2. CASE link[file[q]] # to[q]
        <5>1. file[q] \notin Evidence(to[q])
          BY <4>2 DEF Evidence
        <5> QED BY <4>2, <5>1, EvidenceFinite, FS_AddElement
      <4> QED BY <4>1, <4>2
    <3> QED BY <2>1, <3>1, <3>2, EvidenceFinite, ReceiptsConstants DEF AttachRefused
  <2> QED BY <2>1, <2>2, <2>3, SyncKeeps DEF AttachRefused
<1> QED BY <1>1, <1>2

LEMMA DeleteKeeps ==
  ASSUME IInv, NEW q \in Requests, TypeOK', Delete(q)
  PROVE  IInv'
<1>1. CASE Rollback(q)
  BY <1>1, RollbackKeeps
<1>2. CASE ~Rollback(q)
  <2>1. step[q] = "change" /\ op[q] = "delete" /\ link[file[q]] \notin locked /\ Sync(q, link[file[q]])
    BY <1>2 DEF Delete
  <2>2. link[file[q]] \in Txns \union {NoTxn}
    BY <2>1 DEF IInv, Owns, HoldsReceipt, TypeOK
  <2>3. to[q] = NoTxn /\ NoTxn \notin locked
    BY <2>1, ReceiptsConstants DEF IInv, Shape, TypeOK
  <2> QED BY <2>1, <2>2, <2>3, SyncKeeps
<1> QED BY <1>1, <1>2

\* What q sees does not depend on how far it is with its counts and updates.
LEMMA SeesSame ==
  ASSUME NEW q \in Requests, step[q] \in Changing, step'[q] \in Changing, op'[q] = op[q],
         file'[q] = file[q], to'[q] = to[q], UNCHANGED tableVars
  PROVE  \A t : MyEvidence(q, t)' = MyEvidence(q, t)
<1>1. MyFiles(q)' = MyFiles(q) /\ MyLink(q)' = MyLink(q)
  BY DEF MyFiles, MyLink, tableVars
<1> QED BY <1>1 DEF MyEvidence

LEMMA CountsEvidence ==
  ASSUME IInv, NEW q \in Requests, NEW t
  PROVE  Count(q, t) > 0 <=> MyEvidence(q, t) # {}
<1>1. IsFiniteSet(MyFiles(q))
  BY FS_AddElement, FS_RemoveElement DEF IInv, MyFiles
<1>2. IsFiniteSet(MyEvidence(q, t)) /\ Count(q, t) = Cardinality(MyEvidence(q, t))
  BY <1>1, FS_Subset DEF MyEvidence, Count
<1> QED BY <1>2, FS_CardinalityType, FS_EmptySet

\* A step of q between its change and its commit.
LEMMA ChangingStep ==
  ASSUME IInv, NEW q \in Requests, TypeOK', OnlyOf(q), UNCHANGED <<tableVars, locked, historyVars>>,
         step[q] \in Changing, step'[q] \in Changing, op'[q] = op[q], file'[q] = file[q],
         from'[q] = from[q], to'[q] = to[q], Shape(q)', Synced(q)'
  PROVE  IInv'
<1>1. Owns(q)' /\ Dated(q)'
  BY DEF IInv, Owns, Dated, HoldsReceipt, tableVars, historyVars, Changing
<1>2. Evidence(to[q])' = Evidence(to[q])
  BY DEF Evidence, tableVars
<1>3. Room(q)'
  BY <1>2 DEF IInv, Room, HoldsAdvisory
<1>4. WorksOn(q)' = WorksOn(q)
  BY DEF WorksOn
<1>5. HoldsAdvisory(q)' = HoldsAdvisory(q) /\ HoldsReceipt(q)' = HoldsReceipt(q) /\ step[q] # "idle"
  BY DEF HoldsAdvisory, HoldsReceipt, Changing
<1>6. Looked(q)
  BY <1>4 DEF Looked, historyVars
<1>7. \A p \in Requests \ {q} : step'[q] # "idle" /\ op'[q] = "upload" /\ step[p] # "idle" /\ op[p] = "upload" => file[p] # file'[q]
  BY <1>5 DEF IInv, FilesApart
<1> QED BY <1>1, <1>3, <1>5, <1>6, <1>7, LocalStep DEF historyVars

LEMMA CountKeeps ==
  ASSUME IInv, NEW q \in Requests, TypeOK', CountReceipts(q)
  PROVE  IInv'
<1>1. /\ OnlyOf(q) /\ UNCHANGED <<tableVars, locked, historyVars>>
      /\ op'[q] = op[q] /\ file'[q] = file[q] /\ from'[q] = from[q] /\ to'[q] = to[q] /\ held'[q] = held[q]
      /\ pending'[q] = pending[q]
      /\ \/ step[q] = "countFrom" /\ step'[q] = "writeFrom" /\ found'[q] = (Count(q, from[q]) > 0)
         \/ step[q] = "countTo" /\ step'[q] = "writeTo" /\ found'[q] = (Count(q, to[q]) > 0)
  BY DEF IInv, TypeOK, CountReceipts, Goto, OnlyOf
<1>2. step[q] \in Changing /\ step'[q] \in Changing /\ Shape(q) /\ Synced(q)
  BY <1>1 DEF IInv, Changing
<1>3. Shape(q)'
  BY <1>1, <1>2 DEF Shape, Changing
<1>4. \A t : MyEvidence(q, t)' = MyEvidence(q, t) /\ Right(q, t)' = Right(q, t)
  BY <1>1, <1>2, SeesSame DEF Right, Says, tableVars
<1>5. Synced(q)'
  BY <1>1, <1>2, <1>4, CountsEvidence DEF Synced, historyVars
<1> QED BY <1>1, <1>2, <1>3, <1>5, ChangingStep

LEMMA WriteKeeps ==
  ASSUME IInv, NEW q \in Requests, TypeOK', syncReceiptStatusForTransaction(q)
  PROVE  IInv'
<1>1. /\ OnlyOf(q) /\ UNCHANGED <<tableVars, locked, historyVars>>
      /\ op'[q] = op[q] /\ file'[q] = file[q] /\ from'[q] = from[q] /\ to'[q] = to[q]
      /\ found'[q] = found[q]
  BY DEF IInv, TypeOK, syncReceiptStatusForTransaction, SetStatus, Goto, OnlyOf
<1>2. Shape(q) /\ Synced(q) /\ TypeOK
  BY DEF IInv
<1>3. \/ step[q] = "writeFrom" /\ step'[q] = SyncTo(q) /\ SetStatus(q, from[q])
      \/ step[q] = "writeTo" /\ step'[q] = "commit" /\ SetStatus(q, to[q])
  BY <1>2 DEF TypeOK, syncReceiptStatusForTransaction, Goto
<1>4. step[q] \in Changing /\ step'[q] \in Changing
  BY <1>3 DEF Changing, SyncTo
<1>5. \A t : MyEvidence(q, t)' = MyEvidence(q, t)
  BY <1>1, <1>4, SeesSame
<1>6. ASSUME NEW t \in Txns, SetStatus(q, t), t \notin held[q]
      PROVE  /\ held'[q] \in {held[q], held[q] \union {t}}
             /\ \A u \in Txns \ {t} : Says(q, u)' = Says(q, u)
             /\ Says(q, t)' = "attached" <=> found[q]
  <2>1. CASE Matches(q, t)
    <3>1. held'[q] = held[q] \union {t} /\ pending'[q] = [pending[q] EXCEPT ![t] = IF found[q] THEN "attached" ELSE "pending"]
      BY <1>2, <1>6, <2>1 DEF SetStatus, TypeOK
    <3>2. pending[q] \in [Txns -> Status]
      BY <1>2 DEF TypeOK
    <3> QED BY <1>1, <3>1, <3>2 DEF Says, tableVars
  <2>2. CASE ~Matches(q, t)
    BY <1>1, <1>6, <2>2 DEF SetStatus, Matches, Says, tableVars
  <2> QED BY <2>1, <2>2
<1>7. CASE step[q] = "writeFrom"
  <2>1. from[q] \in Txns /\ from[q] # to[q] /\ held[q] = {} /\ step'[q] = SyncTo(q)
    BY <1>2, <1>3, <1>7 DEF Shape
  <2>2. held'[q] \subseteq {from[q]} /\ (Says(q, from[q])' = "attached" <=> found[q])
    <3>1. PICK t \in Txns : t = from[q] /\ SetStatus(q, t) /\ t \notin held[q]
      BY <1>3, <1>7, <2>1
    <3>2. held'[q] \in {held[q], held[q] \union {t}} /\ (Says(q, t)' = "attached" <=> found[q])
      BY <1>6, <3>1
    <3>3. Says(q, from[q])' = Says(q, t)'
      BY <1>1, <3>1 DEF Says
    <3> QED BY <2>1, <3>1, <3>2, <3>3
  <2>3. Shape(q)'
    BY <1>1, <1>2, <1>4, <1>7, <2>1, <2>2 DEF Shape, Changing, SyncTo, TypeOK
  <2>4. q \notin crossed => Right(q, from[q])'
    BY <1>1, <1>2, <1>5, <1>7, <2>2 DEF Synced, Right
  <2>5. Synced(q)'
    BY <1>1, <2>1, <2>4 DEF Synced, historyVars, SyncTo
  <2> QED BY <1>1, <1>4, <2>3, <2>5, ChangingStep
<1>8. CASE step[q] = "writeTo"
  <2>1. to[q] \in Txns /\ to[q] \notin held[q] /\ step'[q] = "commit" /\ SetStatus(q, to[q])
    BY <1>2, <1>3, <1>8 DEF Shape
  <2>2. /\ held'[q] \in {held[q], held[q] \union {to[q]}}
        /\ \A u \in Txns \ {to[q]} : Says(q, u)' = Says(q, u)
        /\ Says(q, to[q])' = "attached" <=> found[q]
    <3>1. PICK t \in Txns : t = to[q] /\ SetStatus(q, t) /\ t \notin held[q]
      BY <2>1
    <3>2. /\ held'[q] \in {held[q], held[q] \union {t}} /\ \A u \in Txns \ {t} : Says(q, u)' = Says(q, u)
          /\ Says(q, t)' = "attached" <=> found[q]
      BY <1>6, <3>1
    <3>3. Says(q, to[q])' = Says(q, t)'
      BY <1>1, <3>1 DEF Says
    <3> QED BY <3>1, <3>2, <3>3
  <2>3. Shape(q)'
    BY <1>1, <1>2, <1>4, <1>8, <2>1, <2>2 DEF Shape, Changing
  <2>4. q \notin crossed => Right(q, to[q])'
    BY <1>1, <1>2, <1>5, <1>8, <2>2 DEF Synced, Right
  <2>5. q \notin crossed /\ from[q] \notin {NoTxn, to[q]} => Right(q, from[q])'
    BY <1>1, <1>2, <1>5, <1>8, <2>2 DEF Synced, Right, TypeOK
  <2>6. Synced(q)'
    BY <1>1, <2>1, <2>4, <2>5 DEF Synced, historyVars
  <2> QED BY <1>1, <1>4, <2>3, <2>6, ChangingStep
<1> QED BY <1>3, <1>7, <1>8

----------------------------------------------------------------------------
(* A step that commits. *)

\* Requests that share no transaction with q do not notice that it has committed.
LEMMA CommitsStep ==
  ASSUME IInv, TypeOK', NEW q \in Requests, Finish(q), Settle(q), UNCHANGED locked,
         \A t \in Txns \ WorksOn(q) : Evidence(t)' = Evidence(t) /\ status'[t] = status[t],
         \A p \in Requests \ {q} : Owns(p)' /\ Room(p)',
         \A p \in Requests \ {q}, t \in Txns \ WorksOn(q) :
           step[p] \in Changing => MyEvidence(p, t)' = MyEvidence(p, t),
         q \notin crossed => \A t \in WorksOn(q) : status'[t] = "attached" <=> Evidence(t)' # {},
         IsFiniteSet(stored'), CapHolds'
  PROVE  IInv'
<1>1. /\ OnlyOf(q) /\ step'[q] = "idle" /\ op'[q] = "upload" /\ from'[q] = NoTxn /\ to'[q] = NoTxn
      /\ held'[q] = {} /\ crossed' = crossed \ {q} /\ late' = late \ {q}
  BY FinishesAlone DEF IInv, Finish
<1>2. \A p \in Requests \ {q} : HoldsReceipt(p)' = HoldsReceipt(p) /\ HoldsAdvisory(p)' = HoldsAdvisory(p)
        /\ WorksOn(p)' = WorksOn(p) /\ file'[p] = file[p] /\ step'[p] = step[p] /\ op'[p] = op[p]
  BY <1>1 DEF OnlyOf, HoldsReceipt, HoldsAdvisory, WorksOn
<1>3. Shape(q)' /\ Owns(q)' /\ Room(q)' /\ Dated(q)' /\ Synced(q)' /\ ~HoldsAdvisory(q)' /\ ~HoldsReceipt(q)'
      /\ WorksOn(q)' = {}
  BY <1>1 DEF Shape, Owns, Room, Dated, Synced, HoldsAdvisory, HoldsReceipt, Changing, WorksOn
<1>4. FilesApart' /\ AdvisoryExclusive'
  BY <1>1, <1>2, <1>3 DEF IInv, FilesApart, AdvisoryExclusive
<1>5. ASSUME NEW p \in Requests, p # q
      PROVE  Shape(p)' /\ Dated(p)'
  BY <1>1, <1>5 DEF IInv, OnlyOf, Shape, Dated
<1>6. \A p \in Requests : Alone(p)'
  BY <1>1, <1>2, <1>3 DEF IInv, Alone
<1>7. ASSUME NEW p \in Requests, p # q
      PROVE  Synced(p)'
  <2> SUFFICES ASSUME p \notin crossed' PROVE Synced(p)'
    BY DEF Synced
  <2>1. p \notin crossed /\ WorksOn(q) \intersect WorksOn(p) = {}
    BY <1>1, <1>7 DEF IInv, Alone
  <2>2. /\ step'[p] = step[p] /\ from'[p] = from[p] /\ to'[p] = to[p] /\ found'[p] = found[p]
        /\ held'[p] = held[p] /\ pending'[p] = pending[p]
    BY <1>1, <1>7 DEF OnlyOf
  <2>3. ASSUME NEW t \in Txns, t \in {from[p], to[p]}, step[p] \in Changing
        PROVE  MyEvidence(p, t)' = MyEvidence(p, t) /\ Right(p, t)' = Right(p, t)
    <3>1. t \notin WorksOn(q)
      BY <2>1, <2>3, ReceiptsConstants DEF WorksOn
    <3>2. MyEvidence(p, t)' = MyEvidence(p, t)
      BY <1>7, <2>3, <3>1
    <3>3. Says(p, t)' = Says(p, t)
      BY <2>2, <3>1 DEF Says
    <3> QED BY <3>2, <3>3 DEF Right
  <2>4. ASSUME step[p] = "attest"
        PROVE  Evidence(to[p])' = {}
    <3>1. PICK t \in Txns : t = to[p]
      BY <2>4 DEF IInv, Shape
    <3>2. t \notin WorksOn(q)
      BY <2>1, <2>4, <3>1, ReceiptsConstants DEF WorksOn
    <3>3. Evidence(t)' = Evidence(t) /\ Evidence(t) = {}
      BY <2>1, <2>4, <3>1, <3>2 DEF IInv, Synced
    <3> QED BY <2>2, <3>1, <3>3 DEF Evidence
  <2>5. ASSUME step[p] \in {"writeFrom", "countTo", "writeTo", "commit"}, from[p] \in Txns
        PROVE  MyEvidence(p, from[p])' = MyEvidence(p, from[p]) /\ Right(p, from[p])' = Right(p, from[p])
    <3>1. PICK t \in Txns : t = from[p]
      BY <2>5
    <3>2. MyEvidence(p, t)' = MyEvidence(p, t) /\ Right(p, t)' = Right(p, t)
      BY <2>3, <2>5, <3>1 DEF Changing
    <3> QED BY <2>2, <3>1, <3>2 DEF MyEvidence, Right, Says
  <2>6. ASSUME step[p] \in {"writeTo", "commit"}, to[p] \in Txns
        PROVE  MyEvidence(p, to[p])' = MyEvidence(p, to[p]) /\ Right(p, to[p])' = Right(p, to[p])
    <3>1. PICK t \in Txns : t = to[p]
      BY <2>6
    <3>2. MyEvidence(p, t)' = MyEvidence(p, t) /\ Right(p, t)' = Right(p, t)
      BY <2>3, <2>6, <3>1 DEF Changing
    <3> QED BY <2>2, <3>1, <3>2 DEF MyEvidence, Right, Says
  <2>7. Synced(p) /\ Shape(p) /\ from[p] \in Txns \union {NoTxn} /\ to[p] \in Txns \union {NoTxn}
    BY DEF IInv, TypeOK
  <2>8. (step[p] = "writeFrom" => from[p] \in Txns) /\ (step[p] = "writeTo" => to[p] \in Txns)
    BY <2>7 DEF Shape
  <2> QED BY <2>1, <2>2, <2>4, <2>5, <2>6, <2>7, <2>8 DEF Synced
<1>8. Reflects'
  <2> SUFFICES ASSUME NEW t \in Txns, t \notin raced'
               PROVE  status'[t] = "attached" <=> Evidence(t)' # {}
    BY DEF Reflects
  <2>1. CASE t \in WorksOn(q)
    BY <2>1 DEF Settle
  <2>2. CASE t \notin WorksOn(q)
    BY <2>2 DEF Settle, IInv, Reflects
  <2> QED BY <2>1, <2>2
<1> QED BY <1>3, <1>4, <1>5, <1>6, <1>7, <1>8 DEF IInv

\* What a commit makes of the tables.
LEMMA CommitEffect ==
  ASSUME IInv, NEW q \in Requests, Commit(q)
  PROVE  /\ stored' = IF op[q] = "delete" THEN stored \ {file[q]} ELSE stored \union {file[q]}
         /\ link' = [link EXCEPT ![file[q]] = to[q]]
         /\ file[q] \in Files /\ op[q] \in {"upload", "attach", "delete"}
         /\ file[q] \in stored => link[file[q]] = from[q]
         /\ step[q] \in Changing /\ WorksOn(q) = {from[q], to[q]} \ {NoTxn}
         /\ \A t : Evidence(t)' = MyEvidence(q, t)
         /\ \A t \in Txns : status'[t] = Says(q, t)
<1>1. step[q] = "commit" /\ Shape(q) /\ Owns(q)
  BY DEF IInv, Commit
<1>2. /\ stored' = IF op[q] = "delete" THEN stored \ {file[q]} ELSE stored \union {file[q]}
      /\ link' = [link EXCEPT ![file[q]] = to[q]]
  BY <1>1 DEF Commit, MyFiles, MyLink, Changing
<1>3. /\ file[q] \in Files /\ op[q] \in {"upload", "attach", "delete"}
      /\ file[q] \in stored => link[file[q]] = from[q]
      /\ step[q] \in Changing /\ WorksOn(q) = {from[q], to[q]} \ {NoTxn}
  BY <1>1 DEF Shape, Owns, HoldsReceipt, Changing, WorksOn
<1>4. \A t : Evidence(t)' = MyEvidence(q, t)
  BY DEF Commit, Evidence, MyEvidence
<1>5. \A t \in Txns : status'[t] = Says(q, t)
  BY DEF Commit, Says
<1> QED BY <1>2, <1>3, <1>4, <1>5

LEMMA CommitKeeps ==
  ASSUME IInv, NEW q \in Requests, TypeOK', Commit(q)
  PROVE  IInv'
<1>0. TypeOK /\ Shape(q) /\ Owns(q) /\ step[q] = "commit"
  BY DEF IInv, Commit
<1>1. /\ stored' = IF op[q] = "delete" THEN stored \ {file[q]} ELSE stored \union {file[q]}
      /\ link' = [link EXCEPT ![file[q]] = to[q]]
      /\ file[q] \in Files /\ op[q] \in {"upload", "attach", "delete"}
      /\ file[q] \in stored => link[file[q]] = from[q]
      /\ step[q] \in Changing /\ WorksOn(q) = {from[q], to[q]} \ {NoTxn}
  BY CommitEffect
<1>2. \A t : Evidence(t)' = MyEvidence(q, t)
  BY CommitEffect
<1>3. \A t \in Txns : status'[t] = Says(q, t)
  BY CommitEffect
<1>4. \A f \in Files : link'[f] = IF f = file[q] THEN to[q] ELSE link[f]
  BY <1>0, <1>1 DEF TypeOK
<1>5. OnlyOf(q)
  BY <1>0, FinishesAlone DEF Commit
<1>6. \A t \in Txns : t # to[q] \/ op[q] = "delete" => Evidence(t)' \subseteq Evidence(t)
  BY <1>0, <1>1, <1>4 DEF Evidence, TypeOK, Shape
<1>8. ASSUME NEW t \in Txns \ WorksOn(q)
      PROVE  Evidence(t)' = Evidence(t) /\ status'[t] = status[t]
  <2>1. t # from[q] /\ t # to[q]
    BY <1>1, <1>8, ReceiptsConstants
  <2>2. Evidence(t)' = Evidence(t)
    BY <1>0, <1>1, <1>4, <2>1 DEF Evidence, TypeOK
  <2>3. status'[t] = status[t]
    BY <1>0, <1>3, <2>1 DEF Says, Shape
  <2> QED BY <2>2, <2>3
<1>9. \A p \in Requests \ {q} : step[p] \in Changing => file[p] # file[q]
  BY <1>0, <1>1 DEF IInv, FilesApart, Shape, Owns, HoldsReceipt, Changing
<1>10. ASSUME NEW p \in Requests, p # q
       PROVE  Owns(p)'
  <2>1. /\ step'[p] = step[p] /\ op'[p] = op[p] /\ file'[p] = file[p] /\ from'[p] = from[p]
        /\ HoldsReceipt(p)' = HoldsReceipt(p)
    BY <1>5, <1>10 DEF OnlyOf, HoldsReceipt
  <2>2. Owns(p)
    BY DEF IInv
  <2>3. ASSUME step[p] # "idle", op[p] = "upload"
        PROVE  file[p] \notin stored'
    <3>1. CASE op[q] = "upload"
      <4>1. file[p] # file[q]
        BY <1>0, <1>10, <2>3, <3>1 DEF IInv, FilesApart
      <4> QED BY <1>1, <2>2, <2>3, <3>1, <4>1 DEF Owns
    <3>2. CASE op[q] # "upload"
      <4>1. file[q] \in stored
        BY <1>0, <1>1, <3>2 DEF Owns, HoldsReceipt
      <4> QED BY <1>1, <2>2, <2>3, <4>1 DEF Owns
    <3> QED BY <3>1, <3>2
  <2>4. ASSUME HoldsReceipt(p)
        PROVE  file[p] \in stored' /\ link'[file[p]] = link[file[p]]
    <3>1. file[p] \in stored /\ file[p] \in Files
      BY <1>0, <2>2, <2>4 DEF Owns, TypeOK
    <3>2. file[p] # file[q]
      <4>1. CASE op[q] = "upload"
        BY <1>0, <3>1, <4>1 DEF Owns
      <4>2. CASE op[q] # "upload"
        BY <1>0, <1>1, <1>10, <2>4, <4>2 DEF IInv, FilesApart, HoldsReceipt
      <4> QED BY <4>1, <4>2
    <3> QED BY <1>1, <1>4, <3>1, <3>2
  <2> QED BY <2>1, <2>2, <2>3, <2>4 DEF Owns
<1>11. ASSUME NEW p \in Requests, p # q
       PROVE  Room(p)'
  <2>1. HoldsAdvisory(p)' = HoldsAdvisory(p) /\ to'[p] = to[p] /\ file'[p] = file[p]
    BY <1>5, <1>11 DEF OnlyOf, HoldsAdvisory
  <2> SUFFICES ASSUME HoldsAdvisory(p), to[p] # NoTxn
               PROVE  Cardinality((Evidence(to[p]) \union {file[p]})') <= MaxReceipts
    BY <2>1 DEF Room
  <2>2. op[q] = "delete"
    BY <1>0, <1>1, <1>11 DEF IInv, AdvisoryExclusive, HoldsAdvisory
  <2>3. PICK t \in Txns : t = to[p]
    BY <1>0 DEF TypeOK
  <2>4. Evidence(to[p])' = Evidence(t)' /\ Evidence(to[p]) = Evidence(t)
    BY <2>1, <2>3 DEF Evidence
  <2>5. Evidence(t)' \union {file[p]} \subseteq Evidence(t) \union {file[p]}
    BY <1>6, <2>2
  <2>6. IsFiniteSet(Evidence(t) \union {file[p]})
    BY EvidenceFinite, FS_AddElement
  <2>7. Cardinality(Evidence(t) \union {file[p]}) <= MaxReceipts
    BY <2>3, <2>4 DEF IInv, Room
  <2>8. Cardinality(Evidence(t)' \union {file[p]}) <= Cardinality(Evidence(t) \union {file[p]})
        /\ Cardinality(Evidence(t)' \union {file[p]}) \in Nat /\ Cardinality(Evidence(t) \union {file[p]}) \in Nat
    BY <2>5, <2>6, FS_Subset, FS_CardinalityType
  <2> QED BY <2>1, <2>4, <2>7, <2>8, ReceiptsConstants
<1>12. ASSUME NEW p \in Requests, p # q, NEW t \in Txns \ WorksOn(q), step[p] \in Changing
       PROVE  MyEvidence(p, t)' = MyEvidence(p, t)
  <2>1. step'[p] = step[p] /\ op'[p] = op[p] /\ file'[p] = file[p] /\ to'[p] = to[p]
    BY <1>5, <1>12 DEF OnlyOf
  <2>2. t # from[q] /\ t # to[q]
    BY <1>1, <1>12, ReceiptsConstants
  <2>3. file[p] # file[q] /\ file[p] \in Files
    BY <1>9, <1>12 DEF IInv, Shape, Changing
  <2>4. ASSUME NEW f \in Files
        PROVE  f \in MyEvidence(p, t)' <=> f \in MyEvidence(p, t)
    <3>1. MyLink(p)'[f] = IF f = file[p] THEN to[p] ELSE link'[f]
      BY <1>12, <2>1, <2>3 DEF MyLink, TypeOK
    <3>2. MyLink(p)[f] = IF f = file[p] THEN to[p] ELSE link[f]
      BY <1>0, <1>12, <2>3 DEF MyLink, TypeOK
    <3>3. f \in MyFiles(p)' <=> IF f = file[p] THEN op[p] # "delete" ELSE f \in stored'
      BY <1>12, <2>1 DEF MyFiles
    <3>4. f \in MyFiles(p) <=> IF f = file[p] THEN op[p] # "delete" ELSE f \in stored
      BY <1>12 DEF MyFiles
    <3>5. f # file[q] => link'[f] = link[f] /\ (f \in stored' <=> f \in stored)
      BY <1>1, <1>4
    <3>6. f = file[q] => link'[f] # t /\ ~(f \in stored /\ link[f] = t)
      BY <1>1, <1>4, <2>2
    <3> QED BY <2>3, <3>1, <3>2, <3>3, <3>4, <3>5, <3>6 DEF MyEvidence
  <2>5. MyEvidence(p, t) \subseteq Files
    BY <1>0, <2>3 DEF MyEvidence, MyFiles, TypeOK
  <2>6. MyEvidence(p, t)' \subseteq Files
    BY <2>1, <2>3 DEF MyEvidence, MyFiles, TypeOK
  <2> QED BY <2>4, <2>5, <2>6
<1>13. q \notin crossed => \A t \in WorksOn(q) : status'[t] = "attached" <=> Evidence(t)' # {}
  <2> SUFFICES ASSUME q \notin crossed, NEW t \in WorksOn(q)
               PROVE  status'[t] = "attached" <=> Evidence(t)' # {}
    OBVIOUS
  <2>1. t \in Txns /\ t \in {from[q], to[q]} /\ t # NoTxn
    BY <1>0, <1>1 DEF TypeOK
  <2>2. Right(q, t)
    BY <1>0, <2>1 DEF IInv, Synced
  <2> QED BY <1>2, <1>3, <2>1, <2>2 DEF Right
<1>14. IsFiniteSet(stored')
  BY <1>1, FS_AddElement, FS_RemoveElement DEF IInv
<1>15. CapHolds'
  <2> SUFFICES ASSUME NEW t \in Txns
               PROVE  Cardinality(Evidence(t)') <= MaxReceipts
    BY DEF CapHolds
  <2>1. Cardinality(Evidence(t)) <= MaxReceipts
    BY DEF IInv, CapHolds
  <2>2. CASE t # to[q] \/ op[q] = "delete"
    <3>1. Evidence(t)' \subseteq Evidence(t)
      BY <1>6, <2>2
    <3> QED BY <2>1, <3>1, EvidenceFinite, FS_Subset, FS_CardinalityType, ReceiptsConstants
  <2>3. CASE t = to[q] /\ op[q] # "delete"
    <3>1. Cardinality(Evidence(t) \union {file[q]}) <= MaxReceipts
      BY <1>1, <2>3, ReceiptsConstants DEF IInv, Room, HoldsAdvisory
    <3>2. Evidence(t)' \subseteq Evidence(t) \union {file[q]}
      BY <1>0, <1>1, <1>4 DEF Evidence, TypeOK
    <3>3. IsFiniteSet(Evidence(t) \union {file[q]})
      BY EvidenceFinite, FS_AddElement
    <3> QED BY <3>1, <3>2, <3>3, FS_Subset, FS_CardinalityType, ReceiptsConstants
  <2> QED BY <2>2, <2>3
<1> QED BY <1>8, <1>10, <1>11, <1>12, <1>13, <1>14, <1>15, CommitsStep DEF Commit

LEMMA AttestKeeps ==
  ASSUME IInv, NEW q \in Requests, TypeOK', Attest(q)
  PROVE  IInv'
<1>0. TypeOK /\ Shape(q) /\ Synced(q) /\ step[q] = "attest" /\ UNCHANGED <<stored, link, locked>>
  BY DEF IInv, Attest
<1>1. to[q] \in Txns /\ WorksOn(q) = {to[q]}
  BY <1>0, ReceiptsConstants DEF Shape, WorksOn, Changing
<1>2. OnlyOf(q)
  BY <1>0, FinishesAlone DEF Attest
<1>3. \A t \in Txns \ {to[q]} : status'[t] = status[t]
  BY <1>0 DEF Attest, TypeOK
<1>4. \A t : Evidence(t)' = Evidence(t)
  BY <1>0 DEF Evidence
<1>5. status'[to[q]] # "attached"
  BY <1>0, <1>1 DEF Attest, TypeOK
<1>6. q \notin crossed => Evidence(to[q]) = {}
  BY <1>0 DEF Synced
<1>7. ASSUME NEW p \in Requests, p # q
      PROVE  Owns(p)' /\ Room(p)'
  <2>1. /\ step'[p] = step[p] /\ op'[p] = op[p] /\ file'[p] = file[p] /\ from'[p] = from[p] /\ to'[p] = to[p]
        /\ HoldsReceipt(p)' = HoldsReceipt(p) /\ HoldsAdvisory(p)' = HoldsAdvisory(p)
    BY <1>2, <1>7 DEF OnlyOf, HoldsReceipt, HoldsAdvisory
  <2>2. Evidence(to[p])' = Evidence(to[p])
    BY <1>0, <2>1 DEF Evidence
  <2> QED BY <1>0, <2>1, <2>2 DEF IInv, Owns, Room
<1>8. ASSUME NEW p \in Requests, p # q, NEW t
      PROVE  MyEvidence(p, t)' = MyEvidence(p, t)
  BY <1>0, <1>2, <1>8 DEF OnlyOf, MyEvidence, MyFiles, MyLink
<1>9. q \notin crossed => \A t \in WorksOn(q) : status'[t] = "attached" <=> Evidence(t)' # {}
  BY <1>1, <1>4, <1>5, <1>6
<1>10. IsFiniteSet(stored') /\ CapHolds'
  BY <1>0, <1>4 DEF IInv, CapHolds
<1> QED BY <1>0, <1>1, <1>3, <1>4, <1>7, <1>8, <1>9, <1>10, CommitsStep DEF Attest

----------------------------------------------------------------------------
(* The theorems. *)

LEMMA InitIInv == Init => IInv
<1> SUFFICES ASSUME Init PROVE IInv
  OBVIOUS
<1> USE DEF Init
<1>1. TypeOK
  <2>1. pending \in [Requests -> [Txns -> Status]] /\ status \in [Txns -> Status]
    BY DEF Status
  <2> QED BY <2>1 DEF TypeOK, Step
<1>2. \A q \in Requests : Shape(q) /\ Owns(q) /\ Room(q) /\ Dated(q) /\ Synced(q)
        /\ ~HoldsReceipt(q) /\ ~HoldsAdvisory(q) /\ WorksOn(q) = {}
  BY DEF Shape, Owns, Room, Dated, Synced, HoldsReceipt, HoldsAdvisory, WorksOn, Changing
<1>3. FilesApart /\ AdvisoryExclusive /\ \A q \in Requests : Alone(q)
  BY <1>2 DEF FilesApart, AdvisoryExclusive, Alone
<1>4. \A t : Evidence(t) = {}
  BY DEF Evidence
<1>5. CapHolds /\ Reflects /\ IsFiniteSet(stored)
  BY <1>4, FS_EmptySet, ReceiptsConstants DEF CapHolds, Reflects
<1> QED BY <1>1, <1>2, <1>3, <1>5 DEF IInv

LEMMA MoveLockKeeps ==
  ASSUME IInv, TypeOK', MoveLock
  PROVE  IInv'
<1> USE DEF MoveLock, tableVars, historyVars
<1>1. \A q \in Requests : Shape(q)' /\ Owns(q)' /\ Room(q)' /\ Alone(q)' /\ Synced(q)'
  <2>1. \A q \in Requests : Shape(q)' /\ Owns(q)' /\ Alone(q)'
    BY DEF IInv, Shape, Owns, HoldsReceipt, Alone, WorksOn, Changing
  <2>2. \A q \in Requests : Room(q)'
    BY DEF IInv, Room, HoldsAdvisory, Evidence, Changing
  <2>3. \A q \in Requests : Synced(q)'
    BY DEF IInv, Synced, Right, Says, MyEvidence, MyFiles, MyLink, Evidence, Changing
  <2> QED BY <2>1, <2>2, <2>3
<1>2. ASSUME NEW q \in Requests, q \notin late'
      PROVE  Dated(q)'
  <2>1. q \notin late /\ Dated(q) /\ Checked(q) \intersect (locked' \ locked) = {}
    BY <1>2 DEF IInv
  <2>2. NoTxn \notin locked'
    BY ReceiptsConstants DEF TypeOK
  <2>3. to[q] \in Txns \union {NoTxn}
    BY DEF IInv, TypeOK
  <2> QED BY <2>1, <2>2, <2>3 DEF Dated, Checked, Changing
<1>3. FilesApart' /\ AdvisoryExclusive' /\ CapHolds' /\ Reflects'
  BY DEF IInv, FilesApart, HoldsReceipt, AdvisoryExclusive, HoldsAdvisory, CapHolds, Reflects, Evidence
<1>4. \A q \in Requests : Dated(q)'
  BY <1>2 DEF Dated
<1> QED BY <1>1, <1>3, <1>4 DEF IInv

LEMMA IInvStep == IInv /\ [Next]_vars => IInv'
<1>1. CASE IInv /\ Next
  BY <1>1, TypeStep, StartKeeps, RollbackKeeps, LockReceiptKeeps, UploadKeeps, AttachKeeps, DeleteKeeps,
     CountKeeps, WriteKeeps, CommitKeeps, AttestKeeps, MoveLockKeeps DEF Next, Proceed, Fails
<1>2. CASE IInv /\ UNCHANGED vars
  <2> USE DEF vars, tableVars, historyVars
  <2>1. TypeOK' /\ IsFiniteSet(stored')
    BY <1>2 DEF IInv, TypeOK
  <2>2. FilesApart' /\ AdvisoryExclusive' /\ CapHolds' /\ Reflects'
    BY <1>2 DEF IInv, FilesApart, HoldsReceipt, AdvisoryExclusive, HoldsAdvisory, CapHolds, Reflects, Evidence
  <2>3. \A q \in Requests : Shape(q)' /\ Owns(q)' /\ Dated(q)' /\ Alone(q)'
    BY <1>2 DEF IInv, Shape, Owns, HoldsReceipt, Dated, Alone, WorksOn
  <2>4. \A q \in Requests : Room(q)'
    BY <1>2 DEF IInv, Room, HoldsAdvisory, Evidence
  <2>5. \A q \in Requests : Synced(q)'
    BY <1>2 DEF IInv, Synced, Right, Says, MyEvidence, MyFiles, MyLink, Evidence
  <2> QED BY <2>1, <2>2, <2>3, <2>4, <2>5 DEF IInv
<1> QED BY <1>1, <1>2

\* The invariant holds of every behaviour.
THEOREM Inductive == Spec => []IInv
BY InitIInv, IInvStep, PTL DEF Spec

\* Every variable keeps its type.
THEOREM TypeCorrect == Spec => []TypeOK
<1>1. IInv => TypeOK
  BY DEF IInv
<1> QED BY <1>1, Inductive, PTL

\* A transaction never has more receipts than the cap, however uploads, attaches and
\* deletes overlap.
THEOREM Capped == Spec => []CapHolds
<1>1. IInv => CapHolds
  BY DEF IInv
<1> QED BY <1>1, Inductive, PTL

\* At rest a transaction says 'attached' if and only if it has a receipt, unless its
\* last change was by a request that had met another one there.
THEOREM StatusRight == Spec => []StatusReflectsReality
<1>1. IInv => StatusReflectsReality
  BY DEF IInv, Reflects, StatusReflectsReality
<1> QED BY <1>1, Inductive, PTL

\* No step touches the evidence or the status of a transaction in a locked period, but
\* the commit of a move to another transaction, and the last write of a request that
\* had checked it before the period was locked.
THEOREM LockedEvidenceStays == Spec => LockedEvidenceKept
<1> DEFINE Excused(t) == \E q \in Requests : Moves(q, t) \/ Overtaken(q, t)
<1>1. ASSUME IInv, Next, NEW t \in locked \intersect locked'
      PROVE  Kept(t) \/ Excused(t)
  <2>0. TypeOK /\ t \in Txns
    BY <1>1 DEF IInv, TypeOK
  <2>1. ASSUME NEW q \in Requests, Commit(q)
        PROVE  Kept(t) \/ Excused(t)
    <3>1. Dated(q) /\ Shape(q) /\ step[q] = "commit" /\ step[q] \in Changing
          /\ step'[q] = "idle" /\ t \in locked
      BY <1>1, <2>1, FinishesAlone DEF IInv, Commit, Changing
    <3>2. CASE t = to[q]
      <4>1. q \in late /\ t \in Checked(q)
        BY <2>0, <3>1, <3>2, ReceiptsConstants DEF Dated, Checked
      <4> QED BY <3>1, <4>1 DEF Overtaken
    <3>3. CASE t # to[q] /\ t = from[q]
      <4>1. CASE to[q] \in Txns
        BY <3>1, <3>3, <4>1 DEF Moves
      <4>2. CASE to[q] \notin Txns
        <5>1. to[q] = NoTxn /\ t # NoTxn
          BY <2>0, <4>2, ReceiptsConstants DEF TypeOK
        <5>2. q \in late /\ t \in Checked(q)
          BY <3>1, <3>3, <5>1 DEF Dated, Checked
        <5> QED BY <3>1, <5>2 DEF Overtaken
      <4> QED BY <4>1, <4>2
    <3>4. CASE t # to[q] /\ t # from[q]
      <4>1. /\ stored' = IF op[q] = "delete" THEN stored \ {file[q]} ELSE stored \union {file[q]}
            /\ link' = [link EXCEPT ![file[q]] = to[q]]
            /\ file[q] \in Files /\ op[q] \in {"upload", "attach", "delete"}
            /\ file[q] \in stored => link[file[q]] = from[q]
            /\ \A u \in Txns : status'[u] = Says(q, u)
        BY <1>1, <2>1, CommitEffect
      <4>2. Evidence(t)' = Evidence(t)
        BY <2>0, <3>4, <4>1 DEF Evidence, TypeOK
      <4>3. status'[t] = status[t]
        BY <2>0, <3>1, <3>4, <4>1 DEF Says, Shape
      <4> QED BY <4>2, <4>3 DEF Kept
    <3> QED BY <3>2, <3>3, <3>4
  <2>2. ASSUME NEW q \in Requests, Attest(q)
        PROVE  Kept(t) \/ Excused(t)
    <3>1. CASE t = to[q]
      <4>1. step[q] = "attest" /\ step'[q] = "idle" /\ Dated(q) /\ t # NoTxn
        BY <2>0, <1>1, <2>2, FinishesAlone, ReceiptsConstants DEF IInv, Attest
      <4>2. q \in late /\ t \in Checked(q)
        BY <1>1, <3>1, <4>1 DEF Dated, Checked
      <4> QED BY <4>1, <4>2 DEF Overtaken
    <3>2. CASE t # to[q]
      <4>1. status'[t] = status[t]
        BY <2>0, <2>2, <3>2 DEF Attest, TypeOK
      <4> QED BY <2>2, <4>1 DEF Kept, Attest, Evidence
    <3> QED BY <3>1, <3>2
  <2>3. CASE UNCHANGED tableVars
    BY <2>3 DEF Kept, Evidence, tableVars
  <2>4. Next => UNCHANGED tableVars \/ \E q \in Requests : Commit(q) \/ Attest(q)
    BY DEF Next, Proceed, Fails, Rollback, MoveLock, StartUpload, StartAttach, StartDelete, Start, ReadCount,
           Upload, LockReceipt, Attach, Delete, Sync, CountReceipts, syncReceiptStatusForTransaction
  <2> QED BY <1>1, <2>1, <2>2, <2>3, <2>4
<1>2. ASSUME IInv, [Next]_vars
      PROVE  [\A t \in locked \intersect locked' : Kept(t) \/ Excused(t)]_vars
  BY <1>1, <1>2
<1> QED BY <1>2, Inductive, PTL DEF Spec, LockedEvidenceKept

-----------------------------------------------------------------------------
(* No circle of waiting. *)

\* A row is held by a request that commits next, or by the one that has the advisory
\* lock: a delete joins no transaction, so it has one row at most.
LEMMA HoldersOfRows ==
  ASSUME IInv, NEW q \in Requests, held[q] # {}
  PROVE  step[q] = "commit" \/ (HoldsAdvisory(q) /\ step[q] \in {"countTo", "writeTo"})
<1>1. Shape(q)
  BY DEF IInv
<1>2. step[q] \in {"countTo", "writeTo", "commit"}
  BY <1>1 DEF Shape, Changing
<1>3. step[q] # "commit" => to[q] \in Txns /\ to[q] # NoTxn
  BY <1>1, <1>2, ReceiptsConstants DEF Shape
<1>4. step[q] # "commit" => op[q] \in {"upload", "attach"}
  BY <1>1, <1>2, <1>3 DEF Shape, Changing
<1> QED BY <1>2, <1>4 DEF HoldsAdvisory, Changing

\* Who waits for the advisory lock waits for one that waits for a commit at most, and
\* who waits for a receipt for one of these: some request in flight waits for nobody.
THEOREM NoCircle == Spec => []NobodyWaitsForEver
<1>1. ASSUME IInv, ~AtRest
      PROVE  \E q \in Requests : step[q] # "idle" /\ ~Waits(q)
  <2>1. CASE \E q \in Requests : step[q] = "commit"
    BY <2>1 DEF Waits
  <2>2. ASSUME \A q \in Requests : step[q] # "commit",
               NEW a \in Requests, HoldsAdvisory(a)
        PROVE  ~Waits(a) /\ step[a] # "idle"
    <3>1. \A p \in Requests \ {a} : held[p] = {}
      BY <1>1, <2>2, HoldersOfRows DEF IInv, AdvisoryExclusive
    <3>2. \A t : RowFree(a, t)
      BY <3>1 DEF RowFree
    <3> QED BY <2>2, <3>2 DEF Waits, WaitsForRow, HoldsAdvisory, Changing
  <2>3. CASE (\A q \in Requests : step[q] # "commit") /\ AdvisoryFree
    <3>1. \A p \in Requests : held[p] = {}
      BY <1>1, <2>3, HoldersOfRows DEF AdvisoryFree
    <3>2. \A t : \A p \in Requests : RowFree(p, t)
      BY <3>1 DEF RowFree
    <3>3. \A p \in Requests : Waits(p) => step[p] = "lockReceipt" /\ ~ReceiptFree(file[p])
      BY <2>3, <3>2 DEF Waits, WaitsForRow
    <3>4. \A p \in Requests : HoldsReceipt(p) => step[p] \notin {"idle", "lockReceipt"}
      BY DEF HoldsReceipt, Changing
    <3>5. PICK q \in Requests : step[q] # "idle"
      BY <1>1 DEF AtRest
    <3>6. CASE Waits(q)
      <4>1. PICK p \in Requests : HoldsReceipt(p)
        BY <3>3, <3>6 DEF ReceiptFree
      <4> QED BY <3>3, <3>4, <4>1
    <3> QED BY <3>5, <3>6
  <2> QED BY <2>1, <2>2, <2>3 DEF AdvisoryFree
<1>2. IInv => NobodyWaitsForEver
  BY <1>1 DEF NobodyWaitsForEver
<1> QED BY <1>2, Inductive, PTL
=============================================================================
