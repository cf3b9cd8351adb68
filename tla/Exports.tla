------------------------------ MODULE Exports -------------------------------
\* Export packages of one business: routes/exports.routes.js with
\* services/exportGrantService.js, exportSnapshotService.js, exportStorage.js and the
\* stale mail of exportEmailService.js.  A package is generated from data read at
\* one moment and recorded much later, statement by statement; whoever edits the
\* data commits first and marks the snapshots 'invalidated' afterwards.  What a package contains is
\* abstracted to the edit it has seen last; its row, file and snapshot are followed.
EXTENDS Naturals, FiniteSets

CONSTANTS
  Requests,     \* requests in flight, of any kind
  Grants,       \* grants that may be issued
  MaxPackages,  \* bound of the exports made
  MaxEdits      \* bound of the edits
ASSUME BoundsAssumption == MaxPackages \in Nat /\ MaxEdits \in Nat

Packages == 1..MaxPackages

VARIABLES
  data,      \* the edits committed so far
  grant,     \* export_grant_jtis, and what became of a grant without a row
  listed,    \* exports with their metadata
  file,      \* the redacted PDFs in storage/exports
  snap,      \* export_snapshots.status by the export they were made for
  reminder,  \* business_email_reminders has the stale reminder
  req,       \* the requests and the tails they leave running behind the answer
  made,      \* the number of generations begun
  seen,      \* history: the edits a package's data includes for certain
  from,      \* history: the grant of a package
  pdf,       \* history: the packages that are PDFs of the server
  missed,    \* history: packages that an edit went by without marking them
  mails      \* history: the stale mails sent

packageVars == <<listed, file, snap>>
historyVars == <<seen, from, pdf, missed, mails>>
vars == <<data, grant, packageVars, reminder, req, made, historyVars>>

NoGrant == "no grant"  \* POST /secure-export needs none
Idle == [step |-> "idle", pkg |-> 0]
Steps == {"idle", "granted", "read", "saved", "stored", "inserted",
          "edited", "marked", "unsent", "sent", "rows", "unlink"}

TypeOK ==
  /\ data \in 0..MaxEdits
  /\ grant \in [Grants -> {"none", "live", "spent", "expired"}]
  /\ listed \subseteq Packages
  /\ file \subseteq Packages
  /\ snap \in [Packages -> {"none", "snapshotted", "invalidated"}]
  /\ reminder \in BOOLEAN
  /\ req \in [Requests -> [step : Steps, pkg : 0..MaxPackages]]
  /\ made \in 0..MaxPackages
  /\ seen \in [Packages -> 0..MaxEdits]
  /\ from \in [Packages -> Grants \union {NoGrant}]
  /\ pdf \subseteq Packages
  /\ missed \subseteq Packages
  /\ mails \in Nat

Init ==
  /\ data = 0
  /\ grant = [g \in Grants |-> "none"]
  /\ listed = {}
  /\ file = {}
  /\ snap = [p \in Packages |-> "none"]
  /\ reminder = FALSE
  /\ req = [q \in Requests |-> Idle]
  /\ made = 0
  /\ seen = [p \in Packages |-> 0]
  /\ from = [p \in Packages |-> NoGrant]
  /\ pdf = {}
  /\ missed = {}
  /\ mails = 0

At(q, step) == req[q].step = step
Goto(q, step) == req' = [req EXCEPT ![q].step = step]
Ends(q) == req' = [req EXCEPT ![q] = Idle]

\* The packages whose data were read before the last edit.  An edit that has ended
\* without marking them, for whatever reason, has missed them.
Old == {p \in 1..made : seen[p] < data}
Misses(S) == missed' = missed \union S

-----------------------------------------------------------------------------
\* Grants.

\* POST /exports/request-grant signs a token and stores its jti.
issueExportGrant(g) ==
  /\ grant[g] = "none"
  /\ grant' = [grant EXCEPT ![g] = "live"]
  /\ UNCHANGED <<data, packageVars, reminder, req, made, historyVars>>

\* Its minute is over: DELETE ... WHERE expires_at > NOW() no longer finds it.
GrantExpires(g) ==
  /\ grant[g] = "live"
  /\ grant' = [grant EXCEPT ![g] = "expired"]
  /\ UNCHANGED <<data, packageVars, reminder, req, made, historyVars>>

\* Mutant of Consume: the jti is only looked up.
ConsumeLater(g) == grant[g] = "live" /\ UNCHANGED grant
\* verifyExportGrant: DELETE ... RETURNING consumes the jti, before anything of the
\* export is done.
Consume(g) == grant[g] = "live" /\ grant' = [grant EXCEPT ![g] = "spent"]

Begin(q, g) ==
  /\ At(q, "idle")
  /\ made < MaxPackages
  /\ made' = made + 1
  /\ req' = [req EXCEPT ![q] = [step |-> "granted", pkg |-> made + 1]]
  /\ from' = [from EXCEPT ![made + 1] = g]
  /\ seen' = [seen EXCEPT ![made + 1] = data]
  /\ UNCHANGED <<data, packageVars, reminder, pdf, missed, mails>>

\* POST /exports/generate and POST /exports/secure-export.  fetchExportSourceRows
\* begins: its queries run on connections of their own, so what is certain is only
\* that the edits so far are in.
Generate(q, g) == Consume(g) /\ Begin(q, g)
SecureExport(q) == UNCHANGED grant /\ Begin(q, NoGrant)

\* The queries have answered; a finalized package with hard blockers ends here (Fails).
fetchExportSourceRows(q) ==
  /\ At(q, "granted")
  /\ Goto(q, "read")
  /\ UNCHANGED <<data, grant, packageVars, reminder, made, historyVars>>

\* A PDF: both versions are rendered and the redacted one is written to storage.
saveRedactedPdf(q) ==
  /\ At(q, "read")
  /\ file' = file \union {req[q].pkg}
  /\ pdf' = pdf \union {req[q].pkg}
  /\ Goto(q, "saved")
  /\ UNCHANGED <<data, grant, listed, snap, reminder, made, seen, from, missed, mails>>

\* The rows of exports and export_metadata in one transaction; a CSV has no file.
storeCompletedExport(q) ==
  /\ \/ At(q, "saved")
     \/ At(q, "read") /\ from[req[q].pkg] # NoGrant
  /\ listed' = listed \union {req[q].pkg}
  /\ Goto(q, "stored")
  /\ UNCHANGED <<data, grant, file, snap, reminder, made, historyVars>>

\* Mutant of InsertSnapshot: it begins as the specification's 'ephemeral'.
InsertEphemeral(q) ==
  /\ At(q, "stored")
  /\ snap' = [snap EXCEPT ![req[q].pkg] = "ephemeral"]
  /\ Goto(q, "inserted")
  /\ UNCHANGED <<data, grant, listed, file, reminder, made, historyVars>>

\* persistSnapshotBestEffort: the INSERT of the snapshot fails when the export was
\* deleted meanwhile (foreign key), and is then skipped.
InsertSnapshot(q) ==
  LET p == req[q].pkg IN
  /\ At(q, "stored")
  /\ p \in listed
  /\ snap' = [snap EXCEPT ![p] = "snapshotted"]
  /\ Goto(q, "inserted")
  /\ UNCHANGED <<data, grant, listed, file, reminder, made, historyVars>>

\* The INSERT fails for any reason: it is logged, and the export is answered all the
\* same.  No edit can mark the package.
SkipSnapshot(q) ==
  /\ At(q, "stored")
  /\ Misses({req[q].pkg})
  /\ Ends(q)
  /\ UNCHANGED <<data, grant, packageVars, reminder, made, seen, from, pdf, mails>>

\* The items are inserted and the stale reminder is cleared, each of which may fail:
\* without the items it is not even tried.
clearExportStaleReminderState(q) ==
  /\ At(q, "inserted")
  /\ reminder' \in {FALSE, reminder}
  /\ Ends(q)
  /\ UNCHANGED <<data, grant, packageVars, made, historyVars>>

\* A generation ends early: refused, failed or dead.  The grant is gone, and a file
\* that was saved stays, which no export lists.
GenerationFails(q) ==
  /\ req[q].step \in {"granted", "read", "saved"}
  /\ Ends(q)
  /\ UNCHANGED <<data, grant, packageVars, reminder, made, historyVars>>

\* POST /exports/history: the client made the file and has it listed; no snapshot.
RecordHistory ==
  /\ made < MaxPackages
  /\ made' = made + 1
  /\ listed' = listed \union {made'}
  /\ seen' = [seen EXCEPT ![made'] = data]
  /\ Misses({made'})
  /\ UNCHANGED <<data, grant, file, snap, reminder, req, from, pdf, mails>>

-----------------------------------------------------------------------------
\* Deleting an export.

\* The metadata is read for the path.
StartDelete(q, p) ==
  /\ At(q, "idle")
  /\ p \in listed
  /\ req' = [req EXCEPT ![q] = [step |-> "rows", pkg |-> p]]
  /\ UNCHANGED <<data, grant, packageVars, reminder, made, historyVars>>

\* Mutant of DeleteRows: the file is removed before the rows are.
RemoveFileFirst(q) ==
  /\ At(q, "rows")
  /\ file' = file \ {req[q].pkg}
  /\ Goto(q, "unlink")
  /\ UNCHANGED <<data, grant, listed, snap, reminder, made, historyVars>>

\* The rows go in one transaction; the snapshot stays, without its export_id.
DeleteRows(q) ==
  /\ At(q, "rows")
  /\ listed' = listed \ {req[q].pkg}
  /\ Goto(q, "unlink")
  /\ UNCHANGED <<data, grant, file, snap, reminder, made, historyVars>>

\* Then the file; one that is missing already is no error.
cleanupExportFile(q) ==
  /\ At(q, "unlink")
  /\ file' = file \ {req[q].pkg}
  /\ Ends(q)
  /\ UNCHANGED <<data, grant, listed, snap, reminder, made, historyVars>>

DeleteFails(q) ==
  /\ req[q].step \in {"rows", "unlink"}
  /\ Ends(q)
  /\ UNCHANGED <<data, grant, packageVars, reminder, made, historyVars>>

-----------------------------------------------------------------------------
\* Edits of what packages contain.

\* A route that edits the data has committed; its `void invalidateSnapshotsForBusiness`
\* is still to run.
Edit(q) ==
  /\ At(q, "idle")
  /\ data < MaxEdits
  /\ data' = data + 1
  /\ Goto(q, "edited")
  /\ UNCHANGED <<grant, packageVars, reminder, made, historyVars>>

\* Imports and their reverts, recurring runs and bank feeds never call it.
EditUnnoticed ==
  /\ data < MaxEdits
  /\ data' = data + 1
  /\ Misses(1..made)
  /\ UNCHANGED <<grant, packageVars, reminder, req, made, seen, from, pdf, mails>>

\* UPDATE ... WHERE status <> 'invalidated': the snapshots there are at this moment.
\* Mutants of ToMark: whatever there is, marked before or not; the newest one only.
AnySnapshot == {p \in Packages : snap[p] # "none"}
NewestSnapshot == {p \in Packages : snap[p] = "snapshotted" /\ \A r \in Packages : r > p => snap[r] = "none"}
ToMark == {p \in Packages : snap[p] = "snapshotted"}

\* A package read before the edit whose snapshot is not there yet will not be marked.
invalidateSnapshotsForBusiness(q) ==
  /\ At(q, "edited")
  /\ snap' = [p \in Packages |-> IF p \in ToMark THEN "invalidated" ELSE snap[p]]
  /\ Misses({p \in Old : snap[p] = "none"})
  /\ req' = [req EXCEPT ![q].step = IF ToMark = {} THEN "idle" ELSE "marked"]
  /\ UNCHANGED <<data, grant, listed, file, reminder, made, seen, from, pdf, mails>>

\* The call is lost, with the process or with its UPDATE: the edit stays.
InvalidationLost(q) ==
  /\ At(q, "edited")
  /\ Misses(Old)
  /\ Ends(q)
  /\ UNCHANGED <<data, grant, packageVars, reminder, made, seen, from, pdf, mails>>

\* sendExportStaleEmail: nothing when the owner was reminded already ...
hasExportStaleReminderState(q) ==
  /\ At(q, "marked")
  /\ IF reminder THEN Ends(q) ELSE Goto(q, "unsent")
  /\ UNCHANGED <<data, grant, packageVars, reminder, made, historyVars>>

sendExportStaleEmail(q) ==
  /\ At(q, "unsent")
  /\ mails' = mails + 1
  /\ Goto(q, "sent")
  /\ UNCHANGED <<data, grant, packageVars, reminder, made, seen, from, pdf, missed>>

saveExportStaleReminderState(q) ==
  /\ At(q, "sent")
  /\ reminder' = TRUE
  /\ Ends(q)
  /\ UNCHANGED <<data, grant, packageVars, made, historyVars>>

\* ... or has opted out, and each step may fail, or the process die.
MailFails(q) ==
  /\ req[q].step \in {"marked", "unsent", "sent"}
  /\ Ends(q)
  /\ UNCHANGED <<data, grant, packageVars, reminder, made, historyVars>>

-----------------------------------------------------------------------------
Next ==
  \/ \E g \in Grants : issueExportGrant(g) \/ GrantExpires(g)
  \/ \E q \in Requests :
       \/ \E g \in Grants : Generate(q, g)
       \/ \E p \in Packages : StartDelete(q, p)
       \/ SecureExport(q) \/ fetchExportSourceRows(q) \/ saveRedactedPdf(q)
       \/ storeCompletedExport(q) \/ InsertSnapshot(q) \/ SkipSnapshot(q)
       \/ clearExportStaleReminderState(q) \/ GenerationFails(q)
       \/ DeleteRows(q) \/ cleanupExportFile(q) \/ DeleteFails(q)
       \/ Edit(q) \/ invalidateSnapshotsForBusiness(q) \/ InvalidationLost(q)
       \/ hasExportStaleReminderState(q) \/ sendExportStaleEmail(q)
       \/ saveExportStaleReminderState(q) \/ MailFails(q)
  \/ RecordHistory
  \/ EditUnnoticed

Spec == Init /\ [][Next]_vars

-----------------------------------------------------------------------------
Pending == \E q \in Requests : At(q, "edited")

\* "required for trustworthy invalidation": a listed package that is shown as current
\* contains every edit, once the edits have marked what they find.  Except a package
\* no snapshot was kept of, one an edit by an import, a recurring run or a bank feed
\* or a lost call went by, and one that was being made while an edit marked the others.
ShownCurrentIsCurrent ==
  ~Pending => \A p \in listed \ missed : snap[p] # "invalidated" => seen[p] = data

\* "already guarded by the atomic UPDATE": the owner gets a stale mail only for a
\* package that has become stale since, however edits and generations overlap.
MailsNeedNewPackages == mails <= Cardinality({p \in Packages : snap[p] = "invalidated"})

\* A PDF that is listed can be downloaded, and a grant has paid for one export at
\* most: whatever fails or overlaps, in making an export and in deleting it.
ListedIsGenuine ==
  /\ listed \intersect pdf \subseteq file
  /\ \A p, r \in listed : from[p] = from[r] => p = r \/ from[p] = NoGrant
=============================================================================
