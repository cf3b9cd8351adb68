---------------------------- MODULE EmailDedupe ----------------------------
(***************************************************************************)
(* The reservation table email_delivery_dedupe and the senders that use it *)
(* (services/emailDeliveryDedupeService.js; callers sendBillingEmail,      *)
(* sendExportGeneratedEmail, sendExportFailedEmail and                     *)
(* sendInvoiceOwnerActivityEmail).  One row per dedupe key; a sender       *)
(* reserves the row, calls the mail provider, then marks the row.  Nothing *)
(* ties the mark to the reservation: it updates WHERE dedupe_key only.     *)
(***************************************************************************)
EXTENDS Naturals, FiniteSets

CONSTANTS
  Keys,          \* dedupe keys
  Senders,       \* requests that may be sending at one time
  StaleMinutes,  \* STALE_RESERVATION_MINUTES, in ticks of the clock
  MaxSend,       \* longest time from the reservation to the mark, in ticks
  MaxAttempts    \* bound of the model: reservations granted per key

\* The service's own premise: a send completes in well under a minute, and
\* the margin before a reservation counts as abandoned is 15 minutes.
ASSUME TimelySends ==
  /\ StaleMinutes \in Nat /\ MaxSend \in Nat /\ MaxAttempts \in Nat
  /\ MaxSend <= StaleMinutes

VARIABLES
  row,      \* the table: status, minutes since updated_at, attempts
  sender,   \* per sender: its step, its key and the minutes it has used
  mails,    \* per key: mails the provider accepted
  unknown   \* per key: accepted mails whose outcome never reached the row

mailVars == <<row, sender, mails, unknown>>

Status == {"absent", "reserved", "sent", "failed"}
SenderStep == {"idle", "sending", "accepted", "refused"}
Busy == SenderStep \ {"idle"}
MailTypeOK ==
  /\ row \in [Keys -> [status: Status, age: 0..(StaleMinutes + 1),
                       attempts: 0..MaxAttempts]]
  /\ sender \in [Senders -> [step: SenderStep, key: Keys, elapsed: 0..MaxSend]]
  /\ mails \in [Keys -> Nat]
  /\ unknown \in [Keys -> Nat]

MailInit ==
  /\ row = [k \in Keys |-> [status |-> "absent", age |-> 0, attempts |-> 0]]
  /\ sender \in [Senders -> [step: {"idle"}, key: Keys, elapsed: {0}]]
  /\ mails = [k \in Keys |-> 0]
  /\ unknown = [k \in Keys |-> 0]

\* Mutants of Reclaimable: the margin itself counts as stale; a sent row may be
\* taken over; only the age is compared; an abandoned reservation is never free.
ReclaimableAtMargin(k) ==
  row[k].status = "failed" \/ (row[k].status = "reserved" /\ row[k].age >= StaleMinutes)
ReclaimableSent(k) ==
  row[k].status \in {"failed", "sent"} \/ (row[k].status = "reserved" /\ row[k].age > StaleMinutes)
ReclaimableByAge(k) == row[k].status = "failed" \/ row[k].age > StaleMinutes
ReclaimableFailed(k) == row[k].status = "failed"

\* The WHERE of the upsert: which existing rows a new attempt may take over.
Reclaimable(k) ==
  \/ row[k].status = "failed"
  \/ row[k].status = "reserved" /\ row[k].age > StaleMinutes

\* Mutant of Mark: the mark counts an attempt as well.
MarkCounts(s, st) ==
  row' = [row EXCEPT ![sender[s].key] = [status |-> st, age |-> 0, attempts |-> @.attempts + 1]]

\* A sender goes to step st; a new status resets updated_at.
SenderGoes(s, st) == sender' = [sender EXCEPT ![s].step = st]
Mark(s, st) == row' = [row EXCEPT ![sender[s].key].status = st,
                                  ![sender[s].key].age = 0]

(***************************************************************************)
(* reserveEmailDelivery.  A conflict with a row it may not take returns no *)
(* row and the caller skips the mail: no state changes.                    *)
(***************************************************************************)
reserveEmailDelivery(s, k) ==
  /\ sender[s].step = "idle"
  /\ row[k].status = "absent" \/ Reclaimable(k)
  /\ row[k].attempts < MaxAttempts
  /\ row' = [row EXCEPT ![k] = [status |-> "reserved", age |-> 0,
                                attempts |-> row[k].attempts + 1]]
  /\ sender' = [sender EXCEPT ![s] = [step |-> "sending", key |-> k, elapsed |-> 0]]
  /\ UNCHANGED <<mails, unknown>>

\* The provider accepts the mail and the sender learns it.
SendAccepted(s) ==
  /\ sender[s].step = "sending"
  /\ SenderGoes(s, "accepted")
  /\ mails' = [mails EXCEPT ![sender[s].key] = @ + 1]
  /\ UNCHANGED <<row, unknown>>

\* The provider accepts the mail, the answer is lost: emails.send throws.
SendAnswerLost(s) ==
  /\ sender[s].step = "sending"
  /\ SenderGoes(s, "refused")
  /\ mails' = [mails EXCEPT ![sender[s].key] = @ + 1]
  /\ unknown' = [unknown EXCEPT ![sender[s].key] = @ + 1]
  /\ UNCHANGED row

\* result.error, or an exception before the provider took the mail.
SendRefused(s) ==
  /\ sender[s].step = "sending"
  /\ SenderGoes(s, "refused")
  /\ UNCHANGED <<row, mails, unknown>>

markEmailDeliverySent(s) ==
  /\ sender[s].step = "accepted"
  /\ Mark(s, "sent")
  /\ SenderGoes(s, "idle")
  /\ UNCHANGED <<mails, unknown>>

\* The UPDATE to 'sent' fails: the catch block marks the row 'failed' instead.
MarkSentFails(s) ==
  /\ sender[s].step = "accepted"
  /\ SenderGoes(s, "refused")
  /\ unknown' = [unknown EXCEPT ![sender[s].key] = @ + 1]
  /\ UNCHANGED <<row, mails>>

markEmailDeliveryFailed(s) ==
  /\ sender[s].step = "refused"
  /\ Mark(s, "failed")
  /\ SenderGoes(s, "idle")
  /\ UNCHANGED <<mails, unknown>>

\* The UPDATE to 'failed' fails too: the outer catch only logs.
MarkFailedFails(s) ==
  /\ sender[s].step = "refused"
  /\ SenderGoes(s, "idle")
  /\ UNCHANGED <<row, mails, unknown>>

\* The process dies between the reservation and the mark.
SenderCrash(s) ==
  /\ sender[s].step \in Busy
  /\ SenderGoes(s, "idle")
  /\ unknown' = IF sender[s].step = "accepted"
                THEN [unknown EXCEPT ![sender[s].key] = @ + 1] ELSE unknown
  /\ UNCHANGED <<row, mails>>

\* A minute passes.  No sender outlives MaxSend; ages beyond the stale margin
\* are one value.
MinutePasses ==
  /\ \A s \in Senders : sender[s].step \in Busy => sender[s].elapsed < MaxSend
  /\ row' = [k \in Keys |->
               [row[k] EXCEPT !.age = IF @ > StaleMinutes THEN @ ELSE @ + 1]]
  /\ sender' = [s \in Senders |-> IF sender[s].step \in Busy
                  THEN [sender[s] EXCEPT !.elapsed = @ + 1] ELSE sender[s]]
  /\ UNCHANGED <<mails, unknown>>

Finish(s) ==
  \/ SendAccepted(s) \/ SendAnswerLost(s) \/ SendRefused(s)
  \/ markEmailDeliverySent(s) \/ MarkSentFails(s)
  \/ markEmailDeliveryFailed(s) \/ MarkFailedFails(s)
  \/ SenderCrash(s)

MailNext ==
  \/ \E s \in Senders, k \in Keys : reserveEmailDelivery(s, k)
  \/ \E s \in Senders : Finish(s)
  \/ MinutePasses

\* Time passes and a started send ends one way or another; nobody has to try
\* a mail again.
Fairness == WF_mailVars(MinutePasses) /\ \A s \in Senders : WF_mailVars(Finish(s))
MailSpec == MailInit /\ [][MailNext]_mailVars /\ Fairness

----------------------------------------------------------------------------
Holds(s, k) == sender[s].step \in Busy /\ sender[s].key = k

\* While one sender is between its reservation of a key and its mark, no other
\* sender is: the stale rule of reserveEmailDelivery never takes a reservation
\* away from a sender that is still at work.
OneSenderPerKey ==
  \A k \in Keys, s, t \in Senders : Holds(s, k) /\ Holds(t, k) => s = t

\* A key's second mail is always the price of an outcome that never reached
\* the row (a lost answer, a failed UPDATE, a crash): otherwise one mail.
DuplicatesNeedLostOutcomes == \A k \in Keys : mails[k] <= 1 + unknown[k]

\* A row says 'sent' only when the provider accepted a mail for its key.
SentMeansAccepted == \A k \in Keys : row[k].status = "sent" => mails[k] > 0

\* "'sent' rows are never matched here and stay permanently protected": no
\* later reservation and no late mark moves a row out of 'sent'.
SentIsForever ==
  [][\A k \in Keys : row[k].status = "sent" => row'[k].status = "sent"]_mailVars

\* A reservation whose sender died does not block its key for ever: the row is
\* marked, or it ages until a new attempt may take it over.
ReservationsEnd ==
  \A k \in Keys :
    row[k].status = "reserved" ~> (row[k].status # "reserved" \/ Reclaimable(k))

\* The strengthening of OneSenderPerKey: a busy sender's row is reserved and
\* exactly as old as the send, so it is younger than the stale margin.
BusyRowsAreYoung ==
  \A s \in Senders : sender[s].step \in Busy =>
     /\ row[sender[s].key].status = "reserved"
     /\ row[sender[s].key].age = sender[s].elapsed

\* The strengthening of DuplicatesNeedLostOutcomes and SentMeansAccepted: the
\* mail no lost outcome accounts for is the one the row or its sender remembers.
Remembered(k) == \/ row[k].status = "sent"
                 \/ \E s \in Senders : sender[s].step = "accepted" /\ sender[s].key = k
MailsAccounted ==
  \A k \in Keys : /\ mails[k] <= 1 + unknown[k]
                  /\ ~Remembered(k) => mails[k] <= unknown[k]
                  /\ Remembered(k) => mails[k] > 0

\* The inductive invariant behind the safety properties of this module.
MailIInv == MailTypeOK /\ OneSenderPerKey /\ BusyRowsAreYoung /\ MailsAccounted
=============================================================================
