---------------------------- MODULE ExportsProofs ----------------------------
(***************************************************************************)
(* What Exports guarantees for every number of requests, grants, packages  *)
(* and edits.  Three arguments meet in the inductive invariant: a package  *)
(* that is being built is known to its request alone and listed by nobody; *)
(* a package that lags behind the data is marked, missed, or about to be   *)
(* marked; and a stale mail, sent or still to be sent, has a snapshot of   *)
(* its own that it marked.                                                 *)
(***************************************************************************)
EXTENDS Exports, FiniteSetTheorems, TLAPS

Building == {"granted", "read", "saved"}

\* A package being built belongs to one request only, and is listed by nobody
\* before its rows are there; its snapshot is not there before it is stored.
BuildsAlone(q) ==
  LET p == req[q].pkg IN
  /\ req[q].step \in Building => p \notin listed /\ \A r \in Requests : req[r].pkg = p => r = q
  /\ req[q].step \in Building \union {"stored"} =>
       /\ p \in 1..made /\ snap[p] = "none"
       /\ \A r \in Requests : req[r].step \in Building \union {"stored"} /\ req[r].pkg = p => r = q

\* Its file is written once, before its rows; a file is removed after the rows.
FileInOrder(q) ==
  LET p == req[q].pkg IN
  /\ req[q].step \in {"granted", "read"} => p \notin pdf
  /\ req[q].step = "saved" => p \in file
  /\ req[q].step = "unlink" => p \notin listed
  /\ req[q].step \in {"rows", "unlink"} => p \in 1..made

\* Packages are numbered as they are begun: nothing is known of the next ones.
Numbered ==
  /\ listed \subseteq 1..made /\ pdf \subseteq 1..made
  /\ \A p \in Packages : p > made => snap[p] = "none" /\ from[p] = NoGrant
  /\ \A q \in Requests : req[q].pkg <= made

\* The grant of a package is spent, on it.
GrantsSpentOnce ==
  \A p \in Packages : from[p] # NoGrant =>
    /\ grant[from[p]] = "spent"
    /\ \A r \in Packages : from[r] = from[p] => r = p

\* A package that lags behind the data is marked, or will be, unless an edit missed it.
LaggardsAreMarked ==
  \A p \in (1..made) \ missed :
    /\ seen[p] <= data
    /\ seen[p] < data /\ snap[p] # "invalidated" => Pending

\* Every mail, sent or on its way, has a package that became stale for it.
Invalidated == {p \in Packages : snap[p] = "invalidated"}
Mailing == {q \in Requests : req[q].step \in {"marked", "unsent"}}
MailsPaidFor == IsFiniteSet(Mailing) /\ mails + Cardinality(Mailing) <= Cardinality(Invalidated)

IInv ==
  /\ TypeOK
  /\ \A q \in Requests : BuildsAlone(q) /\ FileInOrder(q)
  /\ listed \intersect pdf \subseteq file
  /\ Numbered
  /\ GrantsSpentOnce
  /\ LaggardsAreMarked
  /\ MailsPaidFor

\* The steps, by what they write.
GrantStep == \E g \in Grants : issueExportGrant(g) \/ GrantExpires(g)
BeginStep(q) == SecureExport(q) \/ \E g \in Grants : Generate(q, g)
EditStep == EditUnnoticed \/ \E q \in Requests : Edit(q)
MailStep(q) == hasExportStaleReminderState(q) \/ sendExportStaleEmail(q)
                 \/ saveExportStaleReminderState(q) \/ MailFails(q)
FailStep(q) == GenerationFails(q) \/ DeleteFails(q) \/ clearExportStaleReminderState(q)
DeleteStep(q) == DeleteRows(q) \/ cleanupExportFile(q) \/ \E p \in Packages : StartDelete(q, p)
BuildStep(q) == fetchExportSourceRows(q) \/ saveRedactedPdf(q) \/ storeCompletedExport(q)
SnapStep(q) == InsertSnapshot(q) \/ SkipSnapshot(q) \/ invalidateSnapshotsForBusiness(q)
                 \/ InvalidationLost(q)

RequestStep(q) == BeginStep(q) \/ BuildStep(q) \/ SnapStep(q) \/ DeleteStep(q) \/ FailStep(q)
                    \/ MailStep(q)

LEMMA NextCases ==
  ASSUME Next
  PROVE  GrantStep \/ RecordHistory \/ EditStep \/ \E q \in Requests : RequestStep(q)
BY DEF Next, GrantStep, RequestStep, BeginStep, BuildStep, SnapStep, DeleteStep, FailStep, MailStep,
       EditStep

\* A request's entry stays a step and a package.
Entries == [step : Steps, pkg : 0..MaxPackages]

LEMMA RequestTyped ==
  ASSUME req \in [Requests -> Entries], NEW q \in Requests,
         \/ UNCHANGED req
         \/ Ends(q)
         \/ \E s \in Steps : Goto(q, s)
         \/ \E e \in Entries : req' = [req EXCEPT ![q] = e]
  PROVE  req' \in [Requests -> Entries]
<1>1. Idle \in Entries
  BY BoundsAssumption DEF Idle, Entries, Steps
<1>2. ASSUME NEW s \in Steps, Goto(q, s)
      PROVE  req' \in [Requests -> Entries]
  BY <1>2 DEF Goto, Entries
<1> QED BY <1>1, <1>2 DEF Ends

LEMMA BeginCases ==
  ASSUME NEW q \in Requests, BeginStep(q)
  PROVE  \E g \in Grants \union {NoGrant} :
           /\ Begin(q, g)
           /\ (g = NoGrant /\ UNCHANGED grant) \/ (g \in Grants /\ Consume(g))
<1>1. CASE SecureExport(q)
  BY <1>1 DEF SecureExport
<1>2. CASE \E g \in Grants : Generate(q, g)
  BY <1>2 DEF Generate
<1> QED BY <1>1, <1>2 DEF BeginStep

LEMMA TypeStep ==
  ASSUME IInv, Next
  PROVE  TypeOK'
<1> USE DEF packageVars, historyVars
<1>0. TypeOK /\ req \in [Requests -> Entries]
  BY DEF IInv, TypeOK, Entries
<1>1. CASE GrantStep
  BY <1>0, <1>1 DEF GrantStep, issueExportGrant, GrantExpires, TypeOK
<1>2. CASE RecordHistory
  BY <1>0, <1>2, BoundsAssumption DEF RecordHistory, TypeOK, Packages, Misses
<1>3. CASE EditUnnoticed
  BY <1>0, <1>3, BoundsAssumption DEF EditUnnoticed, TypeOK, Packages, Misses
<1>4. ASSUME NEW q \in Requests, RequestStep(q) \/ Edit(q)
      PROVE  TypeOK'
  <2>0. req[q].step \in Building \union {"stored", "rows", "unlink"} => req[q].pkg \in Packages
    BY <1>0, BoundsAssumption DEF IInv, BuildsAlone, FileInOrder, TypeOK, Packages
  <2>1. CASE BeginStep(q)
    <3>1. PICK g \in Grants \union {NoGrant} :
            /\ Begin(q, g)
            /\ (g = NoGrant /\ UNCHANGED grant) \/ (g \in Grants /\ Consume(g))
      BY <2>1, BeginCases
    <3>2. [step |-> "granted", pkg |-> made + 1] \in Entries
      BY <1>0, <3>1, BoundsAssumption DEF Begin, Entries, Steps, TypeOK
    <3>3. req' \in [Requests -> Entries]
      BY <1>0, <3>1, <3>2, RequestTyped DEF Begin
    <3>4. grant' \in [Grants -> {"none", "live", "spent", "expired"}]
      BY <1>0, <3>1 DEF Consume, TypeOK
    <3> QED BY <1>0, <3>1, <3>3, <3>4, BoundsAssumption DEF Begin, Entries, TypeOK, Packages
  <2>2. CASE BuildStep(q)
    <3>1. req' \in [Requests -> Entries]
      BY <1>0, <2>2, RequestTyped DEF BuildStep, fetchExportSourceRows, saveRedactedPdf,
                                      storeCompletedExport, Steps
    <3>2. req[q].pkg \in Packages
      BY <2>0, <2>2 DEF BuildStep, fetchExportSourceRows, saveRedactedPdf, storeCompletedExport,
                        Building, At
    <3> QED BY <1>0, <2>2, <3>1, <3>2 DEF Entries, BuildStep, fetchExportSourceRows,
                                      saveRedactedPdf, storeCompletedExport, TypeOK
  <2>3. CASE SnapStep(q)
    <3>1. req' \in [Requests -> Entries]
      BY <1>0, <2>3, RequestTyped DEF SnapStep, InsertSnapshot, SkipSnapshot,
              invalidateSnapshotsForBusiness, InvalidationLost, Steps, Goto
    <3>2. snap' \in [Packages -> {"none", "snapshotted", "invalidated"}]
      BY <1>0, <2>3 DEF SnapStep, InsertSnapshot, SkipSnapshot, invalidateSnapshotsForBusiness,
                        InvalidationLost, TypeOK
    <3>3. missed' \subseteq Packages
      BY <1>0, <2>0, <2>3, BoundsAssumption
         DEF SnapStep, InsertSnapshot, SkipSnapshot, invalidateSnapshotsForBusiness,
             InvalidationLost, TypeOK, Misses, Old, At, Packages
    <3> QED BY <1>0, <2>3, <3>1, <3>2, <3>3 DEF SnapStep, InsertSnapshot, SkipSnapshot,
                  invalidateSnapshotsForBusiness, InvalidationLost, TypeOK, Entries
  <2>4. CASE DeleteStep(q)
    <3>1. req' \in [Requests -> Entries]
      BY <1>0, <2>4, RequestTyped, BoundsAssumption
         DEF DeleteStep, StartDelete, DeleteRows, cleanupExportFile, Steps, Entries, Packages
    <3> QED BY <1>0, <2>4, <3>1 DEF DeleteStep, StartDelete, DeleteRows, cleanupExportFile, TypeOK,
                                  Entries
  <2>5. CASE FailStep(q)
    BY <1>0, <2>5, RequestTyped DEF FailStep, GenerationFails, DeleteFails,
                                    clearExportStaleReminderState, TypeOK, Entries
  <2>6. CASE MailStep(q)
    <3>1. Ends(q) \/ Goto(q, "unsent") \/ Goto(q, "sent")
      BY <2>6 DEF MailStep, hasExportStaleReminderState, sendExportStaleEmail,
                  saveExportStaleReminderState, MailFails
    <3>2. req' \in [Requests -> Entries]
      BY <1>0, <3>1, RequestTyped DEF Steps
    <3>3. /\ UNCHANGED <<data, grant, packageVars, made, seen, from, pdf, missed>>
          /\ reminder' \in {TRUE, reminder} /\ mails' \in {mails, mails + 1}
      BY <2>6 DEF MailStep, hasExportStaleReminderState, sendExportStaleEmail,
                  saveExportStaleReminderState, MailFails
    <3>4. mails' \in Nat
      BY <1>0, <3>3 DEF TypeOK
    <3> QED BY <1>0, <3>2, <3>3, <3>4 DEF TypeOK, Entries
  <2>7. CASE Edit(q)
    <3>1. req' \in [Requests -> Entries]
      BY <1>0, <2>7, RequestTyped DEF Edit, Steps
    <3> QED BY <1>0, <2>7, <3>1, BoundsAssumption DEF Edit, TypeOK, Entries
  <2> QED BY <1>4, <2>1, <2>2, <2>3, <2>4, <2>5, <2>6, <2>7 DEF RequestStep
<1> QED BY <1>1, <1>2, <1>3, <1>4, NextCases DEF EditStep

----------------------------------------------------------------------------
(* Packages under construction. *)

Ownership ==
  /\ \A q \in Requests : BuildsAlone(q) /\ FileInOrder(q)
  /\ listed \intersect pdf \subseteq file
  /\ Numbered

\* A request moves on, or gives up, with the package it had, and nobody else moves.
Settled == {"idle", "inserted", "edited", "marked", "unsent", "sent"}

LEMMA OwnershipQuiet ==
  ASSUME IInv, NEW q \in Requests,
         UNCHANGED <<listed, file, pdf, made, from>>,
         \/ UNCHANGED <<req, snap>>
         \/ UNCHANGED snap /\ At(q, "granted") /\ Goto(q, "read")
         \/ /\ Ends(q) \/ \E s \in Settled : Goto(q, s)
            /\ \A p \in Packages : snap[p] = "none" =>
                 snap'[p] = "none" \/ (At(q, "stored") /\ p = req[q].pkg)
  PROVE  Ownership'
<1>1. \A r \in Requests : r # q => req'[r] = req[r]
  BY DEF Ends, Goto, IInv, TypeOK
<1>2. /\ req'[q].pkg \in {0, req[q].pkg}
      /\ \/ req'[q] = req[q] /\ UNCHANGED snap
         \/ UNCHANGED snap /\ req[q].step = "granted" /\ req'[q].step = "read"
            /\ req'[q].pkg = req[q].pkg
         \/ req'[q].step \in Settled
  BY DEF Ends, Goto, IInv, TypeOK, Idle, At, Settled
<1>3. \A r \in Requests : r # q /\ req[r].step \in Building \union {"stored"} =>
        snap'[req[r].pkg] = "none"
  BY BoundsAssumption DEF IInv, BuildsAlone, TypeOK, Packages, At
<1>4. Numbered'
  <2>1. \A p \in Packages : p > made => snap'[p] = "none"
    BY BoundsAssumption DEF IInv, Numbered, BuildsAlone, At, TypeOK, Packages
  <2>2. \A r \in Requests : req'[r].pkg <= made
    BY <1>1, <1>2, BoundsAssumption DEF IInv, Numbered, TypeOK
  <2> QED BY <2>1, <2>2 DEF IInv, Numbered
<1>5. ASSUME NEW r \in Requests
      PROVE  BuildsAlone(r)' /\ FileInOrder(r)'
  <2>1. CASE r = q
    <3>1. CASE req'[q] = req[q] /\ UNCHANGED snap
      BY <1>1, <1>2, <2>1, <3>1 DEF IInv, BuildsAlone, FileInOrder
    <3>2. CASE req'[q].step = "read" /\ req[q].step = "granted" /\ UNCHANGED snap
      BY <1>1, <1>2, <2>1, <3>2 DEF IInv, BuildsAlone, FileInOrder, Settled, Building
    <3>3. CASE req'[q].step \in Settled
      BY <2>1, <3>3 DEF BuildsAlone, FileInOrder, Settled, Building
    <3> QED BY <1>2, <3>1, <3>2, <3>3
  <2>2. CASE r # q
    <3>1. req'[r] = req[r] /\ BuildsAlone(r) /\ FileInOrder(r)
      BY <1>1, <2>2 DEF IInv
    <3>2. req[r].step \in Building \union {"stored"} /\ req'[q].pkg = req[r].pkg =>
            req[q].pkg = req[r].pkg
      BY <1>2, <3>1 DEF BuildsAlone, IInv, TypeOK
    <3> QED BY <1>1, <1>2, <1>3, <2>2, <3>1, <3>2 DEF BuildsAlone, FileInOrder, Building, Settled
  <2> QED BY <2>1, <2>2
<1> QED BY <1>4, <1>5 DEF Ownership, IInv

LEMMA OwnershipBegins ==
  ASSUME IInv, NEW q \in Requests, NEW g, Begin(q, g)
  PROVE  Ownership'
<1> USE BoundsAssumption DEF Begin, packageVars
<1>1. \A r \in Requests : req'[r] = IF r = q THEN [step |-> "granted", pkg |-> made + 1] ELSE req[r]
  BY DEF IInv, TypeOK
<1>2. made + 1 \in Packages /\ made \in Nat /\ \A p \in Packages : p # made + 1 => from'[p] = from[p]
  BY DEF IInv, TypeOK, Packages
<1>3. Numbered'
  BY <1>1, <1>2 DEF IInv, Numbered, TypeOK, Packages
<1>4. ASSUME NEW r \in Requests
      PROVE  BuildsAlone(r)' /\ FileInOrder(r)'
  <2>1. \A t \in Requests : req[t].pkg # made + 1
    BY <1>2 DEF IInv, Numbered, TypeOK
  <2>2. CASE r = q
    BY <1>1, <1>2, <2>1, <2>2 DEF IInv, Numbered, BuildsAlone, FileInOrder, Building, TypeOK
  <2>3. CASE r # q
    BY <1>1, <1>2, <2>1, <2>3 DEF IInv, BuildsAlone, FileInOrder, TypeOK
  <2> QED BY <2>2, <2>3
<1> QED BY <1>3, <1>4 DEF Ownership, IInv

LEMMA OwnershipSaves ==
  ASSUME IInv, NEW q \in Requests, saveRedactedPdf(q)
  PROVE  Ownership'
<1> USE DEF saveRedactedPdf, At, Goto
<1>1. \A r \in Requests : IF r = q THEN req'[r].step = "saved" /\ req'[r].pkg = req[r].pkg
                                   ELSE req'[r] = req[r]
  BY DEF IInv, TypeOK
<1>2. BuildsAlone(q) /\ req[q].step = "read"
  BY DEF IInv
<1>3. Numbered'
  BY <1>1, <1>2, BoundsAssumption DEF IInv, Numbered, BuildsAlone, Building, TypeOK
<1>4. ASSUME NEW r \in Requests
      PROVE  BuildsAlone(r)' /\ FileInOrder(r)'
  BY <1>1, <1>2 DEF IInv, BuildsAlone, FileInOrder, Building
<1> QED BY <1>2, <1>3, <1>4 DEF Ownership, IInv, BuildsAlone, Building

LEMMA OwnershipStores ==
  ASSUME IInv, NEW q \in Requests, storeCompletedExport(q)
  PROVE  Ownership'
<1> USE DEF storeCompletedExport, At, Goto, historyVars
<1>1. \A r \in Requests : IF r = q THEN req'[r].step = "stored" /\ req'[r].pkg = req[r].pkg
                                   ELSE req'[r] = req[r]
  BY DEF IInv, TypeOK
<1>2. BuildsAlone(q) /\ FileInOrder(q) /\ req[q].step \in {"read", "saved"}
  BY DEF IInv
<1>3. Numbered'
  BY <1>1, <1>2, BoundsAssumption DEF IInv, Numbered, BuildsAlone, Building, TypeOK
<1>4. ASSUME NEW r \in Requests
      PROVE  BuildsAlone(r)' /\ FileInOrder(r)'
  BY <1>1, <1>2 DEF IInv, BuildsAlone, FileInOrder, Building
<1> QED BY <1>2, <1>3, <1>4 DEF Ownership, IInv, FileInOrder

LEMMA OwnershipDeletes ==
  ASSUME IInv, NEW q \in Requests, DeleteStep(q)
  PROVE  Ownership'
<1> USE DEF At, Goto, Ends, Idle, historyVars
<1>1. CASE \E p \in Packages : StartDelete(q, p)
  <2>1. PICK p \in Packages : StartDelete(q, p)
    BY <1>1
  <2> USE DEF StartDelete, packageVars
  <2>2. \A r \in Requests : req'[r] = IF r = q THEN [step |-> "rows", pkg |-> p] ELSE req[r]
    BY <2>1 DEF IInv, TypeOK
  <2>3. Numbered'
    BY <2>1, <2>2, BoundsAssumption DEF IInv, Numbered, TypeOK
  <2>4. ASSUME NEW r \in Requests
        PROVE  BuildsAlone(r)' /\ FileInOrder(r)'
    BY <2>1, <2>2 DEF IInv, BuildsAlone, FileInOrder, Building, Numbered
  <2> QED BY <2>1, <2>3, <2>4 DEF Ownership, IInv
<1>2. CASE DeleteRows(q)
  <2> USE DEF DeleteRows
  <2>1. \A r \in Requests : IF r = q THEN req'[r].step = "unlink" /\ req'[r].pkg = req[r].pkg
                                     ELSE req'[r] = req[r]
    BY <1>2 DEF IInv, TypeOK
  <2>2. Numbered'
    BY <1>2, <2>1, BoundsAssumption DEF IInv, Numbered, TypeOK
  <2>3. ASSUME NEW r \in Requests
        PROVE  BuildsAlone(r)' /\ FileInOrder(r)'
    BY <1>2, <2>1 DEF IInv, BuildsAlone, FileInOrder, Building
  <2> QED BY <1>2, <2>2, <2>3 DEF Ownership, IInv
<1>3. CASE cleanupExportFile(q)
  <2> USE DEF cleanupExportFile
  <2>1. \A r \in Requests : req'[r] = IF r = q THEN [step |-> "idle", pkg |-> 0] ELSE req[r]
    BY <1>3 DEF IInv, TypeOK
  <2>2. Numbered'
    BY <1>3, <2>1, BoundsAssumption DEF IInv, Numbered, TypeOK
  <2>3. req[q].pkg \notin listed
    BY <1>3 DEF IInv, FileInOrder
  <2>4. ASSUME NEW r \in Requests
        PROVE  BuildsAlone(r)' /\ FileInOrder(r)'
    BY <1>3, <2>1 DEF IInv, BuildsAlone, FileInOrder, Building, TypeOK
  <2> QED BY <1>3, <2>2, <2>3, <2>4 DEF Ownership, IInv
<1> QED BY <1>1, <1>2, <1>3 DEF DeleteStep

LEMMA OwnershipRecords ==
  ASSUME IInv, RecordHistory
  PROVE  Ownership'
<1> USE BoundsAssumption DEF RecordHistory
<1>1. made + 1 \in Packages /\ made \in Nat
  BY DEF IInv, TypeOK, Packages
<1>2. Numbered'
  BY <1>1 DEF IInv, Numbered, TypeOK, Packages
<1>3. ASSUME NEW r \in Requests
      PROVE  BuildsAlone(r)' /\ FileInOrder(r)'
  BY <1>1 DEF IInv, Numbered, BuildsAlone, FileInOrder, Building, TypeOK
<1> QED BY <1>1, <1>2, <1>3 DEF Ownership, IInv, Numbered

LEMMA OwnershipStep ==
  ASSUME IInv, Next
  PROVE  Ownership'
<1> USE DEF packageVars, historyVars
<1>1. CASE RecordHistory
  BY <1>1, OwnershipRecords
<1>2. ASSUME NEW q \in Requests, RequestStep(q) \/ Edit(q)
      PROVE  Ownership'
  <2>1. CASE BeginStep(q)
    BY <2>1, BeginCases, OwnershipBegins
  <2>2. CASE saveRedactedPdf(q) \/ storeCompletedExport(q) \/ DeleteStep(q)
    BY <2>2, OwnershipSaves, OwnershipStores, OwnershipDeletes
  <2>3. CASE fetchExportSourceRows(q)
    BY <2>3, OwnershipQuiet DEF fetchExportSourceRows
  <2>4. CASE InsertSnapshot(q)
    <3>1. \A p \in Packages : snap[p] = "none" => snap'[p] = "none" \/ (At(q, "stored") /\ p = req[q].pkg)
      BY <2>4 DEF InsertSnapshot, IInv, TypeOK
    <3> QED BY <2>4, <3>1, OwnershipQuiet DEF InsertSnapshot, Settled
  <2>5. CASE invalidateSnapshotsForBusiness(q)
    <3>1. \A p \in Packages : snap[p] = "none" => snap'[p] = "none"
      BY <2>5 DEF invalidateSnapshotsForBusiness, ToMark
    <3>2. \E s \in Settled : Goto(q, s)
      BY <2>5 DEF invalidateSnapshotsForBusiness, Goto, Settled
    <3> QED BY <2>5, <3>1, <3>2, OwnershipQuiet DEF invalidateSnapshotsForBusiness
  <2>6. CASE SkipSnapshot(q) \/ InvalidationLost(q) \/ FailStep(q) \/ MailStep(q) \/ Edit(q)
    <3>1. /\ UNCHANGED <<listed, file, pdf, made, from, snap>>
          /\ Ends(q) \/ \E s \in Settled : Goto(q, s)
      BY <2>6 DEF SkipSnapshot, InvalidationLost, FailStep, GenerationFails, DeleteFails,
            clearExportStaleReminderState, MailStep, hasExportStaleReminderState,
            sendExportStaleEmail, saveExportStaleReminderState, MailFails, Edit, Settled
    <3> QED BY <3>1, OwnershipQuiet
  <2> QED BY <1>2, <2>1, <2>2, <2>3, <2>4, <2>5, <2>6 DEF RequestStep, BuildStep, SnapStep
<1>3. CASE GrantStep \/ EditUnnoticed
  <2>1. UNCHANGED <<listed, file, pdf, made, from, req, snap>>
    BY <1>3 DEF GrantStep, issueExportGrant, GrantExpires, EditUnnoticed
  <2> QED BY <2>1 DEF Ownership, IInv, BuildsAlone, FileInOrder, Numbered
<1> QED BY <1>1, <1>2, <1>3, NextCases DEF EditStep

----------------------------------------------------------------------------
(* Grants. *)

LEMMA GrantsStep ==
  ASSUME IInv, Next
  PROVE  GrantsSpentOnce'
<1> USE DEF packageVars, historyVars
<1>1. CASE GrantStep
  <2>1. UNCHANGED from /\ \A h \in Grants : grant[h] = "spent" => grant'[h] = "spent"
    BY <1>1 DEF GrantStep, issueExportGrant, GrantExpires, IInv, TypeOK
  <2>2. \A p \in Packages : from[p] # NoGrant => from[p] \in Grants
    BY DEF IInv, TypeOK
  <2> QED BY <2>1, <2>2 DEF IInv, GrantsSpentOnce
<1>2. ASSUME NEW q \in Requests, BeginStep(q)
      PROVE  GrantsSpentOnce'
  <2>1. PICK g \in Grants \union {NoGrant} :
          /\ Begin(q, g)
          /\ (g = NoGrant /\ UNCHANGED grant) \/ (g \in Grants /\ Consume(g))
    BY <1>2, BeginCases
  <2>2. made + 1 \in Packages /\ from[made + 1] = NoGrant
    BY <2>1, BoundsAssumption DEF Begin, IInv, Numbered, TypeOK, Packages
  <2>3. \A p \in Packages : from'[p] = IF p = made + 1 THEN g ELSE from[p]
    BY <2>1 DEF Begin, IInv, TypeOK
  <2>4. \A h \in Grants : grant[h] = "spent" => grant'[h] = "spent"
    BY <2>1 DEF Consume, IInv, TypeOK
  <2>5. g # NoGrant => grant'[g] = "spent" /\ \A p \in Packages : from[p] # g
    BY <2>1 DEF Consume, IInv, TypeOK, GrantsSpentOnce
  <2>6. \A p \in Packages : from[p] # NoGrant => from[p] \in Grants
    BY DEF IInv, TypeOK
  <2> QED BY <2>2, <2>3, <2>4, <2>5, <2>6 DEF GrantsSpentOnce, IInv
<1>3. ASSUME NEW q \in Requests, RequestStep(q) \/ Edit(q), ~BeginStep(q)
      PROVE  UNCHANGED <<grant, from>>
  BY <1>3 DEF RequestStep, BuildStep, SnapStep, DeleteStep, FailStep, MailStep, fetchExportSourceRows,
       saveRedactedPdf, storeCompletedExport, InsertSnapshot, SkipSnapshot,
       invalidateSnapshotsForBusiness, InvalidationLost, StartDelete, DeleteRows, cleanupExportFile,
       GenerationFails, DeleteFails, clearExportStaleReminderState, hasExportStaleReminderState,
       sendExportStaleEmail, saveExportStaleReminderState, MailFails, Edit
<1>4. CASE RecordHistory \/ EditUnnoticed
  BY <1>4 DEF RecordHistory, EditUnnoticed, IInv, GrantsSpentOnce
<1>5. CASE UNCHANGED <<grant, from>>
  BY <1>5 DEF IInv, GrantsSpentOnce
<1> QED BY <1>1, <1>2, <1>3, <1>4, <1>5, NextCases DEF EditStep

----------------------------------------------------------------------------
(* Freshness. *)

LEMMA LaggardsStep ==
  ASSUME IInv, Next
  PROVE  LaggardsAreMarked'
<1> USE DEF packageVars, historyVars, LaggardsAreMarked
<1>0. TypeOK /\ LaggardsAreMarked
  BY DEF IInv
<1>1. ASSUME UNCHANGED <<data, made, seen>>, missed \subseteq missed',
             \A p \in Packages : snap[p] = "invalidated" => snap'[p] = "invalidated",
             Pending => Pending'
      PROVE  LaggardsAreMarked'
  BY <1>0, <1>1, BoundsAssumption DEF TypeOK, Packages
<1>2. ASSUME NEW q \in Requests, At(q, "edited") => At(q, "edited")',
             \A r \in Requests : r # q => req'[r] = req[r]
      PROVE  Pending => Pending'
  BY <1>2 DEF Pending, At
<1>3. CASE GrantStep
  BY <1>1, <1>3 DEF GrantStep, issueExportGrant, GrantExpires, Pending, At
<1>4. CASE RecordHistory
  <2>1. Pending => Pending'
    BY <1>4 DEF RecordHistory, Pending, At
  <2> QED BY <1>0, <1>4, <2>1, BoundsAssumption DEF RecordHistory, TypeOK, Packages, Misses
<1>5. CASE EditUnnoticed
  BY <1>5 DEF EditUnnoticed, Misses
<1>6. ASSUME NEW q \in Requests, Edit(q)
      PROVE  LaggardsAreMarked'
  <2>1. Pending'
    BY <1>0, <1>6 DEF Edit, Pending, At, Goto, TypeOK
  <2> QED BY <1>0, <1>6, <2>1, BoundsAssumption DEF Edit, TypeOK, Packages
<1>7. ASSUME NEW q \in Requests, BeginStep(q)
      PROVE  LaggardsAreMarked'
  <2>1. PICK g \in Grants \union {NoGrant} : Begin(q, g)
    BY <1>7, BeginCases
  <2>2. Pending => Pending'
    BY <1>0, <1>2, <2>1 DEF Begin, At, TypeOK
  <2>3. \A p \in (1..made)' : seen'[p] = IF p = made + 1 THEN data ELSE seen[p]
    BY <1>0, <2>1, BoundsAssumption DEF Begin, TypeOK, Packages
  <2> QED BY <1>0, <2>1, <2>2, <2>3, BoundsAssumption DEF Begin, TypeOK, Packages
<1>8. ASSUME NEW q \in Requests, invalidateSnapshotsForBusiness(q)
      PROVE  LaggardsAreMarked'
  <2>1. \A p \in 1..made : p \in missed' \/ seen[p] >= data \/ snap'[p] = "invalidated"
    BY <1>0, <1>8, BoundsAssumption
       DEF invalidateSnapshotsForBusiness, TypeOK, Packages, Misses, Old, ToMark
  <2>2. UNCHANGED <<data, made, seen>> /\ missed \subseteq missed'
    BY <1>8 DEF invalidateSnapshotsForBusiness, Misses
  <2>3. \A p \in 1..made : data \in Nat /\ seen[p] \in Nat
    BY <1>0, BoundsAssumption DEF TypeOK, Packages
  <2> QED BY <1>0, <2>1, <2>2, <2>3
<1>9. ASSUME NEW q \in Requests, InvalidationLost(q)
      PROVE  LaggardsAreMarked'
  BY <1>0, <1>9, BoundsAssumption DEF InvalidationLost, TypeOK, Packages, Misses, Old
<1>10. ASSUME NEW q \in Requests, InsertSnapshot(q)
       PROVE  LaggardsAreMarked'
  <2>1. \A p \in Packages : snap[p] = "invalidated" => snap'[p] = "invalidated"
    BY <1>0, <1>10 DEF InsertSnapshot, IInv, BuildsAlone, TypeOK, At
  <2>2. Pending => Pending'
    BY <1>0, <1>2, <1>10 DEF InsertSnapshot, TypeOK, At, Goto
  <2> QED BY <1>1, <1>10, <2>1, <2>2 DEF InsertSnapshot
<1>11. ASSUME NEW q \in Requests,
              SkipSnapshot(q) \/ BuildStep(q) \/ DeleteStep(q) \/ FailStep(q) \/ MailStep(q)
       PROVE  LaggardsAreMarked'
  <2>1. /\ UNCHANGED <<data, made, seen, snap>> /\ missed \subseteq missed'
        /\ ~At(q, "edited") /\ \A r \in Requests : r # q => req'[r] = req[r]
    <3> USE DEF At, Goto, Ends
    <3>1. CASE SkipSnapshot(q)
      BY <1>0, <3>1 DEF SkipSnapshot, Misses, TypeOK
    <3>2. CASE BuildStep(q)
      BY <1>0, <3>2 DEF BuildStep, fetchExportSourceRows, saveRedactedPdf, storeCompletedExport, TypeOK
    <3>3. CASE DeleteStep(q)
      BY <1>0, <3>3 DEF DeleteStep, StartDelete, DeleteRows, cleanupExportFile, TypeOK
    <3>4. CASE FailStep(q)
      BY <1>0, <3>4 DEF FailStep, GenerationFails, DeleteFails, clearExportStaleReminderState, TypeOK
    <3>5. CASE MailStep(q)
      BY <1>0, <3>5 DEF MailStep, hasExportStaleReminderState, sendExportStaleEmail,
                        saveExportStaleReminderState, MailFails, TypeOK
    <3> QED BY <1>11, <3>1, <3>2, <3>3, <3>4, <3>5
  <2> QED BY <1>1, <1>2, <2>1
<1> QED BY <1>3, <1>4, <1>5, <1>6, <1>7, <1>8, <1>9, <1>10, <1>11, NextCases
        DEF EditStep, RequestStep, SnapStep

----------------------------------------------------------------------------
(* Stale mails. *)

\* The mail of one request: it begins with a snapshot marked, and is sent or given up.
LEMMA OneMail ==
  ASSUME IInv, NEW q \in Requests,
         \A r \in Requests : r # q => req'[r] = req[r],
         \/ mails' = mails
         \/ mails' = mails + 1 /\ q \in Mailing,
         q \notin Mailing',
         Invalidated' = Invalidated
  PROVE  MailsPaidFor'
<1>1. Mailing' = Mailing \ {q}
  BY DEF Mailing
<1>2. /\ IsFiniteSet(Mailing) /\ Cardinality(Mailing) \in Nat /\ mails \in Nat
      /\ mails + Cardinality(Mailing) <= Cardinality(Invalidated)
  BY FS_CardinalityType DEF IInv, TypeOK, MailsPaidFor
<1>3. IsFiniteSet(Mailing')
      /\ Cardinality(Mailing') = IF q \in Mailing THEN Cardinality(Mailing) - 1 ELSE Cardinality(Mailing)
  BY <1>1, <1>2, FS_RemoveElement
<1>4. Cardinality(Invalidated) \in Nat
  <2>1. IsFiniteSet(Packages)
    BY BoundsAssumption, FS_Interval DEF Packages
  <2> QED BY <2>1, FS_Subset, FS_CardinalityType DEF Invalidated
<1> QED BY <1>2, <1>3, <1>4 DEF MailsPaidFor

LEMMA MailsStep ==
  ASSUME IInv, Next
  PROVE  MailsPaidFor'
<1> USE DEF packageVars, historyVars
<1>1. ASSUME UNCHANGED <<Mailing, mails, Invalidated>>
      PROVE  MailsPaidFor'
  BY <1>1 DEF IInv, MailsPaidFor
<1>2. CASE GrantStep \/ RecordHistory \/ EditUnnoticed
  BY <1>1, <1>2 DEF GrantStep, issueExportGrant, GrantExpires, RecordHistory, EditUnnoticed, Mailing,
                    Invalidated
<1>3. ASSUME NEW q \in Requests, RequestStep(q) \/ Edit(q),
             ~invalidateSnapshotsForBusiness(q), ~hasExportStaleReminderState(q)
      PROVE  MailsPaidFor'
  <2> USE DEF At, Goto, Ends, Idle, Mailing, Invalidated
  <2>0. TypeOK
    BY DEF IInv
  <2>1. CASE BeginStep(q)
    BY <2>0, <2>1, BeginCases, OneMail DEF Begin, TypeOK
  <2>2. CASE BuildStep(q)
    BY <2>0, <2>2, OneMail DEF BuildStep, fetchExportSourceRows, saveRedactedPdf,
                               storeCompletedExport, TypeOK
  <2>3. CASE InsertSnapshot(q)
    <3>1. Invalidated' = Invalidated
      BY <2>0, <2>3 DEF InsertSnapshot, TypeOK, IInv, BuildsAlone
    <3> QED BY <2>0, <2>3, <3>1, OneMail DEF InsertSnapshot, TypeOK
  <2>4. CASE SkipSnapshot(q) \/ InvalidationLost(q)
    BY <2>0, <2>4, OneMail DEF SkipSnapshot, InvalidationLost, TypeOK
  <2>5. CASE DeleteStep(q)
    BY <2>0, <2>5, OneMail DEF DeleteStep, StartDelete, DeleteRows, cleanupExportFile, TypeOK
  <2>6. CASE FailStep(q)
    <3>1. Ends(q) /\ UNCHANGED <<snap, mails>>
      BY <2>6 DEF FailStep, GenerationFails, DeleteFails, clearExportStaleReminderState
    <3> QED BY <2>0, <3>1, OneMail DEF TypeOK
  <2>7. CASE MailStep(q)
    BY <1>3, <2>0, <2>7, OneMail DEF MailStep, sendExportStaleEmail, saveExportStaleReminderState,
                                     MailFails, TypeOK
  <2>8. CASE Edit(q)
    BY <2>0, <2>8, OneMail DEF Edit, TypeOK
  <2> QED BY <1>3, <2>1, <2>2, <2>3, <2>4, <2>5, <2>6, <2>7, <2>8 DEF RequestStep, SnapStep
<1>4. ASSUME NEW q \in Requests, hasExportStaleReminderState(q)
      PROVE  MailsPaidFor'
  <2>1. CASE reminder
    BY <1>4, <2>1, OneMail DEF hasExportStaleReminderState, Ends, Idle, Mailing, Invalidated, IInv, TypeOK
  <2>2. CASE ~reminder
    <3>1. Mailing' = Mailing
      BY <1>4, <2>2 DEF hasExportStaleReminderState, At, Goto, Mailing, IInv, TypeOK
    <3> QED BY <1>1, <1>4, <3>1 DEF hasExportStaleReminderState, Invalidated
  <2> QED BY <2>1, <2>2
<1>5. ASSUME NEW q \in Requests, invalidateSnapshotsForBusiness(q)
      PROVE  MailsPaidFor'
  <2> USE DEF invalidateSnapshotsForBusiness
  <2>1. CASE ToMark = {}
    <3>1. Mailing' = Mailing
      BY <1>5, <2>1 DEF At, Mailing, IInv, TypeOK
    <3>2. snap' = snap
      BY <1>5, <2>1 DEF IInv, TypeOK
    <3> QED BY <1>1, <1>5, <3>1, <3>2 DEF Invalidated
  <2>2. CASE ToMark # {}
    <3>1. Mailing' = Mailing \union {q} /\ q \notin Mailing /\ mails' = mails
      BY <1>5, <2>2 DEF At, Mailing, IInv, TypeOK
    <3>2. PICK p \in ToMark : TRUE
      BY <2>2
    <3>3. Invalidated \union {p} \subseteq Invalidated' /\ p \notin Invalidated
      BY <1>5, <3>2 DEF Invalidated, ToMark, IInv, TypeOK
    <3>4. IsFiniteSet(Invalidated) /\ IsFiniteSet(Invalidated')
      <4>1. IsFiniteSet(Packages)
        BY BoundsAssumption, FS_Interval DEF Packages
      <4> QED BY <4>1, FS_Subset DEF Invalidated
    <3>5. Cardinality(Invalidated') >= Cardinality(Invalidated) + 1
      BY <3>3, <3>4, FS_Subset, FS_AddElement, FS_CardinalityType
    <3>6. IsFiniteSet(Mailing') /\ Cardinality(Mailing') = Cardinality(Mailing) + 1
      BY <3>1, FS_AddElement DEF IInv, MailsPaidFor
    <3>7. mails + Cardinality(Mailing) <= Cardinality(Invalidated) /\ mails \in Nat
          /\ Cardinality(Mailing) \in Nat /\ Cardinality(Invalidated) \in Nat
          /\ Cardinality(Invalidated') \in Nat
      BY <3>4, FS_CardinalityType DEF IInv, MailsPaidFor, TypeOK
    <3> QED BY <3>1, <3>5, <3>6, <3>7 DEF MailsPaidFor
  <2> QED BY <2>1, <2>2
<1> QED BY <1>2, <1>3, <1>4, <1>5, NextCases DEF EditStep

----------------------------------------------------------------------------
(* The theorems. *)

LEMMA InitIInv == Init => IInv
<1> SUFFICES ASSUME Init PROVE IInv
  OBVIOUS
<1> USE DEF Init
<1>1. TypeOK
  <2>1. req \in [Requests -> [step : Steps, pkg : 0..MaxPackages]]
    BY BoundsAssumption DEF Idle, Steps
  <2>2. /\ data \in 0..MaxEdits /\ made \in 0..MaxPackages /\ mails \in Nat
        /\ seen \in [Packages -> 0..MaxEdits]
    BY BoundsAssumption
  <2> QED BY <2>1, <2>2 DEF TypeOK
<1>2. \A q \in Requests : BuildsAlone(q) /\ FileInOrder(q)
  BY DEF BuildsAlone, FileInOrder, Building, Idle
<1>3. Numbered /\ GrantsSpentOnce
  BY DEF Numbered, GrantsSpentOnce, Idle
<1>4. LaggardsAreMarked
  BY DEF LaggardsAreMarked
<1>5. Mailing = {} /\ Invalidated = {}
  BY DEF Mailing, Invalidated, Idle
<1>6. MailsPaidFor
  BY <1>5, FS_EmptySet DEF MailsPaidFor
<1> QED BY <1>1, <1>2, <1>3, <1>4, <1>6 DEF IInv

\* The invariant holds of every behaviour.
THEOREM Inductive == Spec => []IInv
<1>1. IInv /\ [Next]_vars => IInv'
  <2>1. CASE IInv /\ Next
    BY <2>1, TypeStep, OwnershipStep, GrantsStep, LaggardsStep, MailsStep DEF IInv, Ownership
  <2>2. CASE IInv /\ UNCHANGED vars
    BY <2>2 DEF IInv, vars, packageVars, historyVars, TypeOK, BuildsAlone, FileInOrder, Numbered,
                GrantsSpentOnce, LaggardsAreMarked, Pending, At, MailsPaidFor, Mailing, Invalidated
  <2> QED BY <2>1, <2>2
<1> QED BY <1>1, InitIInv, PTL DEF Spec

\* Every variable keeps its type.
THEOREM TypeCorrect == Spec => []TypeOK
<1>1. IInv => TypeOK
  BY DEF IInv
<1> QED BY <1>1, Inductive, PTL

\* A listed package shown as current contains every edit, once the edits in flight
\* have marked what they find and unless an edit missed it.
THEOREM Fresh == Spec => []ShownCurrentIsCurrent
<1>1. IInv => ShownCurrentIsCurrent
  BY BoundsAssumption DEF IInv, TypeOK, Numbered, LaggardsAreMarked, ShownCurrentIsCurrent, Packages
<1> QED BY <1>1, Inductive, PTL

\* No more stale mails are sent than packages have become stale, however many edits
\* and generations overlap: each was paid for by the snapshot it marked.
THEOREM NoMailForNothing == Spec => []MailsNeedNewPackages
<1>1. ASSUME IInv
      PROVE  MailsNeedNewPackages
  <2>1. IsFiniteSet(Packages)
    BY BoundsAssumption, FS_Interval DEF Packages
  <2>2. Cardinality(Invalidated) \in Nat
    BY <2>1, FS_Subset, FS_CardinalityType DEF Invalidated
  <2>3. mails \in Nat /\ Cardinality(Mailing) \in Nat
        /\ mails + Cardinality(Mailing) <= Cardinality(Invalidated)
    BY <1>1, FS_CardinalityType DEF IInv, TypeOK, MailsPaidFor
  <2> QED BY <2>2, <2>3 DEF MailsNeedNewPackages, Invalidated
<1> QED BY <1>1, Inductive, PTL

\* A listed PDF is in storage, and no grant has paid for two listed exports.
THEOREM Genuine == Spec => []ListedIsGenuine
<1>1. IInv => ListedIsGenuine
  BY DEF IInv, TypeOK, GrantsSpentOnce, ListedIsGenuine
<1> QED BY <1>1, Inductive, PTL
=============================================================================
