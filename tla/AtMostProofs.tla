---------------------------- MODULE AtMostProofs ----------------------------
(***************************************************************************)
(* Three tables that keep something from happening too often.              *)
(*                                                                         *)
(* The mails (EmailDedupe): for every set of keys and senders and every    *)
(* stale margin that is not shorter than a send, one sender per key, every *)
(* duplicate mail accounted for, and 'sent' for ever.                      *)
(*                                                                         *)
(* The events of Stripe (StripeWebhook): for any number of events and of   *)
(* overlapping requests, with any of the faults, one owner per event, and  *)
(* every event handled at most once.                                       *)
(*                                                                         *)
(* The caps of the plan (PlanUsage), for every number of requests, months, *)
(* rows and every limit.  The lock of a month is worth something only to   *)
(* the requests whose key, check and rows are of the same month: for them  *)
(* the slots they have counted stay free until they commit (Promise),      *)
(* because whoever else could fill them would hold the same key.  And the  *)
(* requests come to a standstill in two ways only, for every size of the   *)
(* pool: its clients are all accounted for (PoolInOrder), and the locks    *)
(* are asked for in one order.                                             *)
(***************************************************************************)
EXTENDS EmailDedupe, StripeWebhook, PlanUsage, FiniteSetTheorems, TLAPS

-----------------------------------------------------------------------------
(* The mails. *)

\* The inductive invariant holds at the empty table.
LEMMA MailInitIInv == MailInit => MailIInv
  BY TimelySends, SMT DEF MailInit, MailIInv, MailTypeOK, OneSenderPerKey, BusyRowsAreYoung, MailsAccounted,
      Remembered, Holds, Status, SenderStep, Busy

\* A key that is free to reserve has no sender at work on it.
LEMMA FreeKeysHaveNoSender ==
  ASSUME MailIInv, NEW k \in Keys, row[k].status = "absent" \/ Reclaimable(k)
  PROVE  \A t \in Senders : ~Holds(t, k)
  BY TimelySends, SMT DEF MailIInv, MailTypeOK, BusyRowsAreYoung, Holds, Reclaimable, Busy, SenderStep, Status

\* Reserving a key keeps the inductive invariant.
LEMMA ReserveIInv ==
  ASSUME MailIInv, NEW s \in Senders, NEW k \in Keys, reserveEmailDelivery(s, k)
  PROVE  MailIInv'
<1> USE DEF reserveEmailDelivery
<1>1. MailTypeOK'
  BY TimelySends, SMT DEF MailIInv, MailTypeOK, Status, SenderStep
<1>2. OneSenderPerKey'
  BY FreeKeysHaveNoSender, SMT DEF MailIInv, MailTypeOK, OneSenderPerKey, Holds, Busy, SenderStep
<1>3. BusyRowsAreYoung'
  BY FreeKeysHaveNoSender, SMT DEF MailIInv, MailTypeOK, BusyRowsAreYoung, Holds, Busy, SenderStep
<1>4. MailsAccounted'
  BY FreeKeysHaveNoSender, SMT DEF MailIInv, MailTypeOK, MailsAccounted, Remembered, Holds, Reclaimable, Busy, SenderStep
<1> QED BY <1>1, <1>2, <1>3, <1>4 DEF MailIInv

\* While a mail is on its way, neither its row nor another sender remembers one.
LEMMA SendingIsNotRemembered ==
  ASSUME MailIInv, NEW s \in Senders, sender[s].step = "sending"
  PROVE  ~Remembered(sender[s].key)
<1>1. sender[s].key \in Keys /\ Holds(s, sender[s].key)
  BY SMT DEF MailIInv, MailTypeOK, Holds, Busy, SenderStep
<1>2. row[sender[s].key].status # "sent"
  BY SMT DEF MailIInv, BusyRowsAreYoung, Busy, SenderStep
<1>3. ASSUME NEW t \in Senders, sender[t].step = "accepted", sender[t].key = sender[s].key
      PROVE  FALSE
  <2>1. Holds(t, sender[s].key)
    BY <1>3 DEF Holds, Busy, SenderStep
  <2>2. s = t
    BY <1>1, <2>1 DEF MailIInv, OneSenderPerKey
  <2> QED BY <1>3, <2>2
<1> QED BY <1>2, <1>3 DEF Remembered

\* What a sender at work does to its own key keeps the inductive invariant.
LEMMA FinishIInv ==
  ASSUME MailIInv, NEW s \in Senders, Finish(s)
  PROVE  MailIInv'
<1>1. CASE SendAccepted(s)
  <2> USE <1>1 DEF SendAccepted, SenderGoes
  <2>1. MailTypeOK'
    BY TimelySends, SMTT(20) DEF MailIInv, MailTypeOK, Status, SenderStep, Busy
  <2>2. OneSenderPerKey'
    BY SMTT(20) DEF MailIInv, MailTypeOK, OneSenderPerKey, Holds, Busy, SenderStep
  <2>3. BusyRowsAreYoung'
    BY SMTT(20) DEF MailIInv, MailTypeOK, OneSenderPerKey, BusyRowsAreYoung, Holds, Busy, SenderStep
  <2>4. MailsAccounted'
    <3>1. ~Remembered(sender[s].key)
      BY SendingIsNotRemembered
    <3>2. Remembered(sender[s].key)'
      BY SMT DEF MailIInv, MailTypeOK, Remembered
    <3>3. ASSUME NEW k \in Keys, k # sender[s].key PROVE Remembered(k)' <=> Remembered(k)
      BY <3>3, SMT DEF MailIInv, MailTypeOK, Remembered
    <3>4. \A k \in Keys : mails'[k] = IF k = sender[s].key THEN mails[k] + 1 ELSE mails[k]
      BY SMT DEF MailIInv, MailTypeOK
    <3>5. mails \in [Keys -> Nat] /\ unknown \in [Keys -> Nat]
      BY DEF MailIInv, MailTypeOK
    <3>6. ASSUME NEW k \in Keys
          PROVE  /\ mails'[k] <= 1 + unknown'[k]
                 /\ ~Remembered(k)' => mails'[k] <= unknown'[k]
                 /\ Remembered(k)' => mails'[k] > 0
      <4>1. CASE k = sender[s].key
        BY <3>1, <3>2, <3>4, <3>5, <4>1, SMT DEF MailIInv, MailsAccounted
      <4>2. CASE k # sender[s].key
        BY <3>3, <3>4, <3>5, <4>2, SMT DEF MailIInv, MailsAccounted
      <4> QED BY <4>1, <4>2
    <3> QED BY <3>6 DEF MailsAccounted
  <2> QED BY <2>1, <2>2, <2>3, <2>4 DEF MailIInv
<1>2. CASE SendAnswerLost(s)
  <2> USE <1>2 DEF SendAnswerLost, SenderGoes
  <2>1. MailTypeOK'
    BY TimelySends, SMTT(20) DEF MailIInv, MailTypeOK, Status, SenderStep, Busy
  <2>2. OneSenderPerKey'
    BY SMTT(20) DEF MailIInv, MailTypeOK, OneSenderPerKey, Holds, Busy, SenderStep
  <2>3. BusyRowsAreYoung'
    BY SMTT(20) DEF MailIInv, MailTypeOK, OneSenderPerKey, BusyRowsAreYoung, Holds, Busy, SenderStep
  <2>4. MailsAccounted'
    <3>1. ~Remembered(sender[s].key)
      BY SendingIsNotRemembered
    <3>2. ASSUME NEW k \in Keys PROVE Remembered(k)' <=> Remembered(k)
      BY <3>1, SMT DEF MailIInv, MailTypeOK, Remembered
    <3>3. \A k \in Keys : IF k = sender[s].key
             THEN mails'[k] = mails[k] + 1 /\ unknown'[k] = unknown[k] + 1
             ELSE mails'[k] = mails[k] /\ unknown'[k] = unknown[k]
      BY SMT DEF MailIInv, MailTypeOK
    <3>4. mails \in [Keys -> Nat] /\ unknown \in [Keys -> Nat]
      BY DEF MailIInv, MailTypeOK
    <3> QED BY <3>1, <3>2, <3>3, <3>4, SMT DEF MailIInv, MailsAccounted
  <2> QED BY <2>1, <2>2, <2>3, <2>4 DEF MailIInv
<1>3. CASE SendRefused(s)
  <2> USE <1>3 DEF SendRefused, SenderGoes
  <2>1. MailTypeOK'
    BY TimelySends, SMTT(20) DEF MailIInv, MailTypeOK, Status, SenderStep, Busy
  <2>2. OneSenderPerKey'
    BY SMTT(20) DEF MailIInv, MailTypeOK, OneSenderPerKey, Holds, Busy, SenderStep
  <2>3. BusyRowsAreYoung'
    BY SMTT(20) DEF MailIInv, MailTypeOK, OneSenderPerKey, BusyRowsAreYoung, Holds, Busy, SenderStep
  <2>4. MailsAccounted'
    BY SMTT(20) DEF MailIInv, MailTypeOK, OneSenderPerKey, BusyRowsAreYoung, MailsAccounted,
       Remembered, Holds, Busy, SenderStep
  <2> QED BY <2>1, <2>2, <2>3, <2>4 DEF MailIInv
<1>4. CASE markEmailDeliverySent(s)
  <2> USE <1>4 DEF markEmailDeliverySent, SenderGoes, Mark
  <2>1. MailTypeOK'
    BY TimelySends, SMTT(20) DEF MailIInv, MailTypeOK, Status, SenderStep, Busy
  <2>2. OneSenderPerKey'
    BY SMTT(20) DEF MailIInv, MailTypeOK, OneSenderPerKey, Holds, Busy, SenderStep
  <2>3. BusyRowsAreYoung'
    BY SMTT(20) DEF MailIInv, MailTypeOK, OneSenderPerKey, BusyRowsAreYoung, Holds, Busy, SenderStep
  <2>4. MailsAccounted'
    BY SMTT(20) DEF MailIInv, MailTypeOK, OneSenderPerKey, BusyRowsAreYoung, MailsAccounted,
       Remembered, Holds, Busy, SenderStep
  <2> QED BY <2>1, <2>2, <2>3, <2>4 DEF MailIInv
<1>5. CASE MarkSentFails(s)
  <2> USE <1>5 DEF MarkSentFails, SenderGoes
  <2>1. MailTypeOK'
    BY TimelySends, SMTT(20) DEF MailIInv, MailTypeOK, Status, SenderStep, Busy
  <2>2. OneSenderPerKey'
    BY SMTT(20) DEF MailIInv, MailTypeOK, OneSenderPerKey, Holds, Busy, SenderStep
  <2>3. BusyRowsAreYoung'
    BY SMTT(20) DEF MailIInv, MailTypeOK, OneSenderPerKey, BusyRowsAreYoung, Holds, Busy, SenderStep
  <2>4. MailsAccounted'
    BY SMTT(20) DEF MailIInv, MailTypeOK, OneSenderPerKey, BusyRowsAreYoung, MailsAccounted,
       Remembered, Holds, Busy, SenderStep
  <2> QED BY <2>1, <2>2, <2>3, <2>4 DEF MailIInv
<1>6. CASE markEmailDeliveryFailed(s)
  <2> USE <1>6 DEF markEmailDeliveryFailed, SenderGoes, Mark
  <2>1. MailTypeOK'
    BY TimelySends, SMTT(20) DEF MailIInv, MailTypeOK, Status, SenderStep, Busy
  <2>2. OneSenderPerKey'
    BY SMTT(20) DEF MailIInv, MailTypeOK, OneSenderPerKey, Holds, Busy, SenderStep
  <2>3. BusyRowsAreYoung'
    BY SMTT(20) DEF MailIInv, MailTypeOK, OneSenderPerKey, BusyRowsAreYoung, Holds, Busy, SenderStep
  <2>4. MailsAccounted'
    BY SMTT(20) DEF MailIInv, MailTypeOK, OneSenderPerKey, BusyRowsAreYoung, MailsAccounted,
       Remembered, Holds, Busy, SenderStep
  <2> QED BY <2>1, <2>2, <2>3, <2>4 DEF MailIInv
<1>7. CASE MarkFailedFails(s)
  <2> USE <1>7 DEF MarkFailedFails, SenderGoes
  <2>1. MailTypeOK'
    BY TimelySends, SMTT(20) DEF MailIInv, MailTypeOK, Status, SenderStep, Busy
  <2>2. OneSenderPerKey'
    BY SMTT(20) DEF MailIInv, MailTypeOK, OneSenderPerKey, Holds, Busy, SenderStep
  <2>3. BusyRowsAreYoung'
    BY SMTT(20) DEF MailIInv, MailTypeOK, OneSenderPerKey, BusyRowsAreYoung, Holds, Busy, SenderStep
  <2>4. MailsAccounted'
    BY SMTT(20) DEF MailIInv, MailTypeOK, OneSenderPerKey, BusyRowsAreYoung, MailsAccounted,
       Remembered, Holds, Busy, SenderStep
  <2> QED BY <2>1, <2>2, <2>3, <2>4 DEF MailIInv
<1>8. CASE SenderCrash(s)
  <2> USE <1>8 DEF SenderCrash, SenderGoes
  <2>1. MailTypeOK'
    BY TimelySends, SMTT(20) DEF MailIInv, MailTypeOK, Status, SenderStep, Busy
  <2>2. OneSenderPerKey'
    BY SMTT(20) DEF MailIInv, MailTypeOK, OneSenderPerKey, Holds, Busy, SenderStep
  <2>3. BusyRowsAreYoung'
    BY SMTT(20) DEF MailIInv, MailTypeOK, OneSenderPerKey, BusyRowsAreYoung, Holds, Busy, SenderStep
  <2>4. MailsAccounted'
    BY SMTT(20) DEF MailIInv, MailTypeOK, OneSenderPerKey, BusyRowsAreYoung, MailsAccounted,
       Remembered, Holds, Busy, SenderStep
  <2> QED BY <2>1, <2>2, <2>3, <2>4 DEF MailIInv
<1> QED BY <1>1, <1>2, <1>3, <1>4, <1>5, <1>6, <1>7, <1>8 DEF Finish

\* A minute passing keeps the inductive invariant.
LEMMA MinuteIInv ==
  ASSUME MailIInv, MinutePasses
  PROVE  MailIInv'
<1> USE DEF MinutePasses
<1>1. MailTypeOK'
  <2>1. ASSUME NEW k \in Keys
        PROVE  row'[k] \in [status: Status, age: 0..(StaleMinutes + 1),
                            attempts: 0..MaxAttempts]
    <3>1. /\ row[k] \in [status: Status, age: 0..(StaleMinutes + 1), attempts: 0..MaxAttempts]
          /\ row'[k] = [row[k] EXCEPT !.age = IF row[k].age > StaleMinutes
                                               THEN row[k].age ELSE row[k].age + 1]
      BY DEF MailIInv, MailTypeOK
    <3> QED BY <3>1, TimelySends, SMT
  <2>2. ASSUME NEW s \in Senders
        PROVE  sender'[s] \in [step: SenderStep, key: Keys, elapsed: 0..MaxSend]
    <3>1. /\ sender[s] \in [step: SenderStep, key: Keys, elapsed: 0..MaxSend]
          /\ sender'[s] = IF sender[s].step \in Busy
                          THEN [sender[s] EXCEPT !.elapsed = sender[s].elapsed + 1] ELSE sender[s]
          /\ sender[s].step \in Busy => sender[s].elapsed < MaxSend
      BY DEF MailIInv, MailTypeOK
    <3> QED BY <3>1, TimelySends, SMT
  <2>3. /\ row' = [k \in Keys |-> row'[k]]
        /\ sender' = [s \in Senders |-> sender'[s]]
    OBVIOUS
  <2> QED BY <2>1, <2>2, <2>3, Zenon DEF MailIInv, MailTypeOK
<1>2. OneSenderPerKey'
  BY SMT DEF MailIInv, MailTypeOK, OneSenderPerKey, Holds, Busy, SenderStep
<1>3. BusyRowsAreYoung'
  BY TimelySends, SMT DEF MailIInv, MailTypeOK, BusyRowsAreYoung, Busy, SenderStep
<1>4. MailsAccounted'
  BY SMT DEF MailIInv, MailTypeOK, MailsAccounted, Remembered, Busy, SenderStep
<1> QED BY <1>1, <1>2, <1>3, <1>4 DEF MailIInv

\* The inductive invariant is preserved by every step of the service.
LEMMA MailNextIInv == MailIInv /\ [MailNext]_mailVars => MailIInv'
<1> SUFFICES ASSUME MailIInv, [MailNext]_mailVars PROVE MailIInv'
  OBVIOUS
<1>1. ASSUME NEW s \in Senders, NEW k \in Keys, reserveEmailDelivery(s, k) PROVE MailIInv'
  BY <1>1, ReserveIInv
<1>2. ASSUME NEW s \in Senders, Finish(s) PROVE MailIInv'
  BY <1>2, FinishIInv
<1>3. CASE MinutePasses
  BY <1>3, MinuteIInv
<1>4. CASE UNCHANGED mailVars
  BY <1>4 DEF mailVars, MailIInv, MailTypeOK, OneSenderPerKey, BusyRowsAreYoung, MailsAccounted,
              Remembered, Holds
<1> QED BY <1>1, <1>2, <1>3, <1>4 DEF MailNext

\* Every reachable state satisfies the inductive invariant.
THEOREM MailInductive == MailSpec => []MailIInv
  BY MailInitIInv, MailNextIInv, PTL DEF MailSpec

\* The table and the senders keep their types.
THEOREM MailTypeCorrect == MailSpec => []MailTypeOK
  BY MailInductive, PTL DEF MailIInv

\* However long a send takes within MaxSend and whoever crashes, no two senders
\* are at work on one dedupe key.
THEOREM NeverTwoSenders == MailSpec => []OneSenderPerKey
  BY MailInductive, PTL DEF MailIInv

\* More mails than one for a key are paid for by outcomes that were lost.
THEOREM DuplicatesAreAccounted == MailSpec => []DuplicatesNeedLostOutcomes
<1>1. MailIInv => DuplicatesNeedLostOutcomes
  BY DEF MailIInv, MailsAccounted, DuplicatesNeedLostOutcomes
<1> QED BY <1>1, MailInductive, PTL

\* A row that says 'sent' stands for a mail the provider took.
THEOREM SentRowsWereAccepted == MailSpec => []SentMeansAccepted
<1>1. MailIInv => SentMeansAccepted
  BY DEF MailIInv, MailsAccounted, Remembered, SentMeansAccepted
<1> QED BY <1>1, MailInductive, PTL

\* A row that says 'sent' says so for ever.
THEOREM SentRowsStay == MailSpec => SentIsForever
<1>1. ASSUME MailIInv, [MailNext]_mailVars, NEW k \in Keys, row[k].status = "sent"
      PROVE  row'[k].status = "sent"
  <2>1. ASSUME NEW s \in Senders, NEW j \in Keys, reserveEmailDelivery(s, j)
        PROVE  row'[k].status = "sent"
    BY <1>1, <2>1, SMT DEF reserveEmailDelivery, Reclaimable, MailIInv, MailTypeOK
  <2>2. ASSUME NEW s \in Senders, Finish(s) PROVE row'[k].status = "sent"
    <3>1. sender[s].step \in Busy => sender[s].key # k
      BY <1>1, SMT DEF MailIInv, BusyRowsAreYoung
    <3>2. CASE markEmailDeliverySent(s) \/ markEmailDeliveryFailed(s)
      BY <1>1, <3>1, <3>2, SMT DEF markEmailDeliverySent, markEmailDeliveryFailed, Mark,
         MailIInv, MailTypeOK, Busy, SenderStep
    <3>3. CASE row' = row
      BY <1>1, <3>3
    <3> QED BY <2>2, <3>2, <3>3 DEF Finish, SendAccepted, SendAnswerLost, SendRefused,
         MarkSentFails, MarkFailedFails, SenderCrash
  <2>3. CASE MinutePasses
    BY <1>1, <2>3, SMT DEF MinutePasses, MailIInv, MailTypeOK
  <2>4. CASE UNCHANGED mailVars
    BY <1>1, <2>4 DEF mailVars
  <2> QED BY <1>1, <2>1, <2>2, <2>3, <2>4 DEF MailNext
<1>2. MailIInv /\ [MailNext]_mailVars
        => [\A k \in Keys : row[k].status = "sent" => row'[k].status = "sent"]_mailVars
  BY <1>1
<1> QED BY <1>2, MailInductive, PTL DEF MailSpec, SentIsForever

-----------------------------------------------------------------------------
(* The events of Stripe. *)

\* The inductive invariant holds of an empty table.
LEMMA InitIInv == Init => IInv
  BY IdsOutliveRetries, SMT DEF Init, IInv, TypeOK, OneOwnerPerEvent, HandledAtMostOnce,
     Consistent, Owns, Step, Days

\* A delivery starts a request that owns nothing yet.
LEMMA DeliverIInv ==
  ASSUME IInv, NEW h \in Handlers, NEW e \in Events, Deliver(h, e)
  PROVE  IInv'
<1> USE DEF Deliver, tableVars
<1>1. TypeOK'
  BY IdsOutliveRetries, SMT DEF IInv, TypeOK, Step, Days
<1>2. OneOwnerPerEvent'
  BY SMT DEF IInv, TypeOK, OneOwnerPerEvent, Owns
<1>3. HandledAtMostOnce'
  BY DEF IInv, HandledAtMostOnce
<1>4. Consistent'
  BY SMT DEF IInv, TypeOK, Consistent, Owns, Days
<1> QED BY <1>1, <1>2, <1>3, <1>4 DEF IInv

\* What a request does to its own event keeps the inductive invariant.
LEMMA ServeIInv ==
  ASSUME IInv, NEW h \in Handlers, Serve(h)
  PROVE  IInv'
<1>1. CASE reserveWebhookEvent(h)
  <2> USE <1>1 DEF reserveWebhookEvent, Goto, stripeVars, tableVars
  <2>1. TypeOK'
    BY IdsOutliveRetries, SMT DEF IInv, TypeOK, Step, Days
  <2>2. OneOwnerPerEvent'
    BY SMT DEF IInv, TypeOK, OneOwnerPerEvent, Consistent, Owns
  <2>3. HandledAtMostOnce'
    BY SMT DEF IInv, TypeOK, HandledAtMostOnce, Consistent, Owns
  <2>4. Consistent'
    BY IdsOutliveRetries, SMT DEF IInv, TypeOK, OneOwnerPerEvent, Consistent, Owns, Days
  <2> QED BY <2>1, <2>2, <2>3, <2>4 DEF IInv
<1>2. CASE ReserveFails(h)
  <2> USE <1>2 DEF ReserveFails, AnswerError, Goto, stripeVars, tableVars
  <2>1. TypeOK'
    BY IdsOutliveRetries, SMT DEF IInv, TypeOK, Step, Days
  <2>2. OneOwnerPerEvent'
    BY SMT DEF IInv, TypeOK, OneOwnerPerEvent, Consistent, Owns
  <2>3. HandledAtMostOnce'
    BY SMT DEF IInv, TypeOK, HandledAtMostOnce, Consistent, Owns
  <2>4. Consistent'
    BY IdsOutliveRetries, SMT DEF IInv, TypeOK, OneOwnerPerEvent, Consistent, Owns, Days
  <2> QED BY <2>1, <2>2, <2>3, <2>4 DEF IInv
<1>3. CASE Sweep(h)
  <2> USE <1>3 DEF Sweep, Goto, stripeVars
  <2>1. TypeOK'
    BY IdsOutliveRetries, SMT DEF IInv, TypeOK, Step, Days
  <2>2. OneOwnerPerEvent'
    BY SMT DEF IInv, TypeOK, OneOwnerPerEvent, Consistent, Owns
  <2>3. HandledAtMostOnce'
    BY SMT DEF IInv, TypeOK, HandledAtMostOnce, Consistent, Owns
  <2>4. Consistent'
    BY IdsOutliveRetries, SMT DEF IInv, TypeOK, OneOwnerPerEvent, Consistent, Owns, Days
  <2> QED BY <2>1, <2>2, <2>3, <2>4 DEF IInv
<1>4. CASE SweepFails(h)
  <2> USE <1>4 DEF SweepFails, AnswerError, Goto, stripeVars, tableVars
  <2>1. TypeOK'
    BY IdsOutliveRetries, SMT DEF IInv, TypeOK, Step, Days
  <2>2. OneOwnerPerEvent'
    BY SMT DEF IInv, TypeOK, OneOwnerPerEvent, Consistent, Owns
  <2>3. HandledAtMostOnce'
    BY SMT DEF IInv, TypeOK, HandledAtMostOnce, Consistent, Owns
  <2>4. Consistent'
    BY IdsOutliveRetries, SMT DEF IInv, TypeOK, OneOwnerPerEvent, Consistent, Owns, Days
  <2> QED BY <2>1, <2>2, <2>3, <2>4 DEF IInv
<1>5. CASE SkipDuplicate(h)
  <2> USE <1>5 DEF SkipDuplicate, AnswerOk, Goto, tableVars
  <2>1. TypeOK'
    BY IdsOutliveRetries, SMT DEF IInv, TypeOK, Step, Days
  <2>2. OneOwnerPerEvent'
    BY SMT DEF IInv, TypeOK, OneOwnerPerEvent, Consistent, Owns
  <2>3. HandledAtMostOnce'
    BY SMT DEF IInv, TypeOK, HandledAtMostOnce, Consistent, Owns
  <2>4. Consistent'
    BY IdsOutliveRetries, SMT DEF IInv, TypeOK, OneOwnerPerEvent, Consistent, Owns, Days
  <2> QED BY <2>1, <2>2, <2>3, <2>4 DEF IInv
<1>6. CASE Handle(h)
  <2> USE <1>6 DEF Handle, AnswerOk, Goto, tableVars
  <2>1. TypeOK'
    BY IdsOutliveRetries, SMT DEF IInv, TypeOK, Step, Days
  <2>2. OneOwnerPerEvent'
    BY SMT DEF IInv, TypeOK, OneOwnerPerEvent, Consistent, Owns
  <2>3. HandledAtMostOnce'
    BY SMT DEF IInv, TypeOK, HandledAtMostOnce, Consistent, Owns
  <2>4. Consistent'
    BY IdsOutliveRetries, SMT DEF IInv, TypeOK, OneOwnerPerEvent, Consistent, Owns, Days
  <2> QED BY <2>1, <2>2, <2>3, <2>4 DEF IInv
<1>7. CASE HandleThrows(h)
  <2> USE <1>7 DEF HandleThrows, Goto, stripeVars, tableVars
  <2>1. TypeOK'
    BY IdsOutliveRetries, SMT DEF IInv, TypeOK, Step, Days
  <2>2. OneOwnerPerEvent'
    BY SMT DEF IInv, TypeOK, OneOwnerPerEvent, Consistent, Owns
  <2>3. HandledAtMostOnce'
    BY SMT DEF IInv, TypeOK, HandledAtMostOnce, Consistent, Owns
  <2>4. Consistent'
    BY IdsOutliveRetries, SMT DEF IInv, TypeOK, OneOwnerPerEvent, Consistent, Owns, Days
  <2> QED BY <2>1, <2>2, <2>3, <2>4 DEF IInv
<1>8. CASE releaseWebhookEvent(h)
  <2> USE <1>8 DEF releaseWebhookEvent, AnswerError, Goto, stripeVars
  <2>1. TypeOK'
    BY IdsOutliveRetries, SMT DEF IInv, TypeOK, Step, Days
  <2>2. OneOwnerPerEvent'
    BY SMT DEF IInv, TypeOK, OneOwnerPerEvent, Consistent, Owns
  <2>3. HandledAtMostOnce'
    BY SMT DEF IInv, TypeOK, HandledAtMostOnce, Consistent, Owns
  <2>4. Consistent'
    BY IdsOutliveRetries, SMT DEF IInv, TypeOK, OneOwnerPerEvent, Consistent, Owns, Days
  <2> QED BY <2>1, <2>2, <2>3, <2>4 DEF IInv
<1>9. CASE ReleaseFails(h)
  <2> USE <1>9 DEF ReleaseFails, AnswerError, Goto, stripeVars, tableVars
  <2>1. TypeOK'
    BY IdsOutliveRetries, SMT DEF IInv, TypeOK, Step, Days
  <2>2. OneOwnerPerEvent'
    BY SMT DEF IInv, TypeOK, OneOwnerPerEvent, Consistent, Owns
  <2>3. HandledAtMostOnce'
    BY SMT DEF IInv, TypeOK, HandledAtMostOnce, Consistent, Owns
  <2>4. Consistent'
    BY IdsOutliveRetries, SMT DEF IInv, TypeOK, OneOwnerPerEvent, Consistent, Owns, Days
  <2> QED BY <2>1, <2>2, <2>3, <2>4 DEF IInv
<1>10. CASE Crash(h)
  <2> USE <1>10 DEF Crash, AnswerError, Goto, stripeVars, tableVars
  <2>1. TypeOK'
    BY IdsOutliveRetries, SMT DEF IInv, TypeOK, Step, Days
  <2>2. OneOwnerPerEvent'
    BY SMT DEF IInv, TypeOK, OneOwnerPerEvent, Consistent, Owns
  <2>3. HandledAtMostOnce'
    BY SMT DEF IInv, TypeOK, HandledAtMostOnce, Consistent, Owns
  <2>4. Consistent'
    BY IdsOutliveRetries, SMT DEF IInv, TypeOK, OneOwnerPerEvent, Consistent, Owns, Days
  <2> QED BY <2>1, <2>2, <2>3, <2>4 DEF IInv
<1> QED BY <1>1, <1>2, <1>3, <1>4, <1>5, <1>6, <1>7, <1>8, <1>9, <1>10 DEF Serve

\* A day passing, and an event happening, keep the inductive invariant.
LEMMA TickIInv ==
  ASSUME IInv, Tick
  PROVE  IInv'
<1> USE DEF Tick, Older
<1>1. TypeOK'
  BY IdsOutliveRetries, SMT DEF IInv, TypeOK, Step, Days
<1>2. OneOwnerPerEvent' /\ HandledAtMostOnce'
  BY DEF IInv, OneOwnerPerEvent, HandledAtMostOnce, Owns
<1>3. Consistent'
  BY IdsOutliveRetries, SMT DEF IInv, TypeOK, Consistent, Owns, Days
<1> QED BY <1>1, <1>2, <1>3 DEF IInv

LEMMA HappenIInv ==
  ASSUME IInv, NEW e \in Events, Happen(e)
  PROVE  IInv'
<1> USE DEF Happen, tableVars
<1>1. TypeOK'
  BY SMT DEF IInv, TypeOK
<1>2. OneOwnerPerEvent' /\ HandledAtMostOnce'
  BY DEF IInv, OneOwnerPerEvent, HandledAtMostOnce, Owns
<1>3. Consistent'
  BY SMT DEF IInv, TypeOK, Consistent, Owns
<1> QED BY <1>1, <1>2, <1>3 DEF IInv

\* The inductive invariant is preserved by every step.
LEMMA NextIInv == IInv /\ [Next]_vars => IInv'
<1> SUFFICES ASSUME IInv, [Next]_vars PROVE IInv'
  OBVIOUS
<1>1. ASSUME NEW e \in Events, Happen(e) PROVE IInv'
  BY <1>1, HappenIInv
<1>2. ASSUME NEW h \in Handlers, NEW e \in Events, Deliver(h, e) PROVE IInv'
  BY <1>2, DeliverIInv
<1>3. ASSUME NEW h \in Handlers, Serve(h) PROVE IInv'
  BY <1>3, ServeIInv
<1>4. CASE Tick
  BY <1>4, TickIInv
<1>5. CASE UNCHANGED vars
  BY <1>5 DEF vars, stripeVars, tableVars, IInv, TypeOK, OneOwnerPerEvent,
              HandledAtMostOnce, Consistent, Owns
<1> QED BY <1>1, <1>2, <1>3, <1>4, <1>5 DEF Next

\* Every reachable state satisfies the inductive invariant.
THEOREM Inductive == Spec => []IInv
  BY InitIInv, NextIInv, PTL DEF Spec

\* The table, the requests and the counters keep their types.
THEOREM TypeCorrect == Spec => []TypeOK
  BY Inductive, PTL DEF IInv

\* Requests that overlap never handle one event side by side.
THEOREM OwnersAreAlone == Spec => []OneOwnerPerEvent
  BY Inductive, PTL DEF IInv

\* Whatever is retried, crashes or fails, no event is handled to the end twice.
THEOREM AtMostOnce == Spec => []HandledAtMostOnce
  BY Inductive, PTL DEF IInv

\* What can lose an event: the rows, the duplicates and the answers of an event
\* that is not at risk are accounted for.
LEMMA AccountedInit == Init => RowsAreAccounted
  BY SMT DEF Init, RowsAreAccounted, OnlyRiskedAreLost, Owns

LEMMA AccountedServe ==
  ASSUME IInv, RowsAreAccounted, NEW h \in Handlers, Serve(h)
  PROVE  RowsAreAccounted'
<1> USE DEF IInv, TypeOK, OneOwnerPerEvent, Consistent, RowsAreAccounted, OnlyRiskedAreLost, Owns,
            stripeVars, tableVars, Goto
<1>1. CASE reserveWebhookEvent(h)  BY <1>1, SMTT(60) DEF reserveWebhookEvent
<1>2. CASE ReserveFails(h)         BY <1>2, SMTT(60) DEF ReserveFails, AnswerError
<1>3. CASE Sweep(h)                BY <1>3, SMTT(60) DEF Sweep
<1>4. CASE SweepFails(h)           BY <1>4, SMTT(60) DEF SweepFails, AnswerError
<1>5. CASE SkipDuplicate(h)        BY <1>5, SMTT(60) DEF SkipDuplicate, AnswerOk
<1>6. CASE Handle(h)               BY <1>6, SMTT(60) DEF Handle, AnswerOk
<1>7. CASE HandleThrows(h)         BY <1>7, SMTT(60) DEF HandleThrows
<1>8. CASE releaseWebhookEvent(h)  BY <1>8, SMTT(60) DEF releaseWebhookEvent, AnswerError
<1>9. CASE ReleaseFails(h)         BY <1>9, SMTT(60) DEF ReleaseFails, AnswerError
<1>10. CASE Crash(h)               BY <1>10, SMTT(60) DEF Crash, AnswerError
<1> QED BY <1>1, <1>2, <1>3, <1>4, <1>5, <1>6, <1>7, <1>8, <1>9, <1>10 DEF Serve

LEMMA AccountedNext == IInv /\ RowsAreAccounted /\ [Next]_vars => RowsAreAccounted'
<1> SUFFICES ASSUME IInv, RowsAreAccounted, [Next]_vars PROVE RowsAreAccounted'
  OBVIOUS
<1>1. ASSUME NEW h \in Handlers, Serve(h) PROVE RowsAreAccounted'
  BY <1>1, AccountedServe
<1>2. ASSUME NEW e \in Events, Happen(e) PROVE RowsAreAccounted'
  BY <1>2 DEF Happen, tableVars, RowsAreAccounted, OnlyRiskedAreLost, Owns
<1>3. ASSUME NEW h \in Handlers, NEW e \in Events, Deliver(h, e) PROVE RowsAreAccounted'
  BY <1>3, SMT DEF Deliver, tableVars, IInv, TypeOK, RowsAreAccounted, OnlyRiskedAreLost, Owns
<1>4. CASE Tick
  BY <1>4 DEF Tick, RowsAreAccounted, OnlyRiskedAreLost, Owns
<1>5. CASE UNCHANGED vars
  BY <1>5 DEF vars, stripeVars, tableVars, RowsAreAccounted, OnlyRiskedAreLost, Owns
<1> QED BY <1>1, <1>2, <1>3, <1>4, <1>5 DEF Next

\* Under every fault, an event Stripe has stopped retrying was handled, or was
\* put at risk by a failed sweep or release, a crash, or an overlapping retry.
THEOREM LossesHaveCauses == Spec => []OnlyRiskedAreLost
<1>1. RowsAreAccounted => OnlyRiskedAreLost
  BY DEF RowsAreAccounted
<1>2. Spec => []RowsAreAccounted
  BY AccountedInit, AccountedNext, Inductive, PTL DEF Spec
<1> QED BY <1>1, <1>2, PTL

-----------------------------------------------------------------------------
(* The caps of the plan. *)

\* The months a request has met so far follow each other; an import and an upload
\* count the month of their key.
InOrder(r) ==
  /\ req[r].born <= month
  /\ req[r].step \in {"key", "locked", "counted"} /\ req[r].kind # "catchup" =>
       req[r].born <= req[r].key /\ req[r].key <= month
  /\ req[r].step = "counted" /\ req[r].kind # "catchup" =>
       /\ req[r].key <= req[r].at /\ req[r].at <= month
       /\ req[r].kind \in {"import", "upload"} => req[r].at = req[r].key

\* The lock of a month has one holder.
KeysExclusive ==
  \A q, r \in Requests : \A m \in Months : HoldsKey(q, m) /\ HoldsKey(r, m) => q = r

\* What a request has counted is still free: for a catching up while nobody has
\* written since, for the others while key and check are of one month.
Promise(r) ==
  Goes(r, "counted") /\ Free(r) =>
    IF req[r].kind = "catchup" THEN req[r].used + req[r].n <= Limit
    ELSE req[r].key = req[r].at =>
           \/ checked[CapOf(r)][req[r].at] + req[r].n <= CapLimit(CapOf(r))
           \/ <<CapOf(r), req[r].at>> \in excused

UsageIInv ==
  /\ UsageTypeOK
  /\ KeysExclusive
  /\ \A r \in Requests : InOrder(r) /\ Promise(r)
  /\ CapsHold

\* The steps of a request that spend nothing.
Quiet(r) ==
  \/ \E k \in Kinds, p \in {"free", "v1"}, n \in 1..MaxRows : Begin(r, k, p, n)
  \/ Look(r) \/ BusinessLock(r) \/ AskUsage(r) \/ UsageLock(r) \/ Check(r)
  \/ \E n \in 1..MaxRows : ReadAllowance(r, n)
  \/ Abort(r)

Entries ==
  [kind : Kinds, step : {"idle", "looking", "begun", "business", "key", "locked", "counted"},
   tier : {"free", "v1"}, born : Months, key : Months, at : Months, used : Nat, n : 0..MaxRows]

LEMMA MonthsAreNat == Months \subseteq Nat /\ 1 \in Months
BY UsageConstants DEF Months

LEMMA BoundsAreNat == Limit \in Nat /\ ReceiptLimit \in Nat /\ MaxRows \in Nat /\ MaxOthers \in Nat
BY UsageConstants

LEMMA SpentIsNat ==
  ASSUME UsageTypeOK, NEW c \in Caps, NEW m \in Months
  PROVE  checked[c][m] \in Nat /\ unchecked[c][m] \in Nat
<1>1. checked[c] \in [Months -> Nat] /\ unchecked[c] \in [Months -> Nat]
  BY DEF UsageTypeOK
<1> QED BY <1>1

LEMMA IdleTyped == Idle \in Entries
BY UsageConstants, MonthsAreNat DEF Idle, Entries, Kinds

\* What is spent is only written by commits, so a request's step leaves the other's
\* promises, and takes at most the one key that was free.
LEMMA QuietStep ==
  ASSUME UsageIInv, NEW r \in Requests, UNCHANGED <<month, spentVars, excused, others>>,
         NEW e \in Entries, req' = [req EXCEPT ![r] = e],
         InOrder(r)', Promise(r)',
         \A m \in Months : HoldsKey(r, m)' => HoldsKey(r, m) \/ KeyIsFree(m)
  PROVE  UsageIInv'
<1>1. \A q \in Requests : req'[q] = IF q = r THEN e ELSE req[q]
  BY DEF UsageIInv, UsageTypeOK
<1>2. UsageTypeOK'
  BY DEF UsageIInv, UsageTypeOK, Entries, spentVars
<1>3. \A q \in Requests, m \in Months : q # r => HoldsKey(q, m)' = HoldsKey(q, m)
  BY <1>1 DEF HoldsKey, Free
<1>4. KeysExclusive'
  BY <1>3 DEF KeysExclusive, UsageIInv, KeyIsFree
<1>5. ASSUME NEW q \in Requests, q # r
      PROVE  InOrder(q)' /\ Promise(q)'
  BY <1>1, <1>5 DEF UsageIInv, InOrder, Promise, Goes, Free, CapOf, CapLimit, spentVars
<1>6. CapsHold'
  BY DEF UsageIInv, CapsHold, spentVars, CapLimit
<1> QED BY <1>2, <1>4, <1>5, <1>6 DEF UsageIInv

LEMMA QuietKeeps ==
  ASSUME UsageIInv, NEW r \in Requests, Quiet(r)
  PROVE  UsageIInv'
<1> USE MonthsAreNat, BoundsAreNat
<1>0. UsageTypeOK /\ InOrder(r) /\ month \in Months /\ req \in [Requests -> Entries] /\ req[r] \in Entries
  BY DEF UsageIInv, UsageTypeOK, Entries
<1>1. ASSUME NEW k \in Kinds, NEW p \in {"free", "v1"}, NEW n \in 1..MaxRows, Begin(r, k, p, n)
      PROVE  UsageIInv'
  <2>9. PICK at \in {"looking", "begun"} :
          req' = [req EXCEPT ![r] = [Idle EXCEPT !.kind = k, !.step = at, !.tier = p,
                                                 !.born = month, !.n = n]]
    BY <1>1 DEF Begin
  <2> DEFINE e == [Idle EXCEPT !.kind = k, !.step = at, !.tier = p, !.born = month, !.n = n]
  <2>0. n \in 0..MaxRows
    OBVIOUS
  <2>1. e \in Entries /\ e.step \in {"looking", "begun"} /\ e.born = month
    BY <1>0, <2>0, IdleTyped DEF Entries
  <2>2. req' = [req EXCEPT ![r] = e] /\ UNCHANGED <<month, spentVars, excused, others>>
    BY <1>1, <2>9 DEF Begin
  <2>3. req'[r] = e
    BY <1>0, <2>2
  <2> HIDE DEF e
  <2>4. InOrder(r)' /\ Promise(r)' /\ \A m \in Months : ~HoldsKey(r, m)'
    <3>1. req'[r].step \notin {"key", "locked", "counted"} /\ req'[r].born = month /\ month' = month
      BY <2>1, <2>2, <2>3
    <3> QED BY <1>0, <3>1 DEF InOrder, Promise, HoldsKey, Goes, Months
  <2> QED BY <2>1, <2>2, <2>4, QuietStep
<1>2. CASE BusinessLock(r)
  <2> DEFINE e == [req[r] EXCEPT !.step = "business"]
  <2>1. e \in Entries
    BY <1>0 DEF Entries
  <2>2. req' = [req EXCEPT ![r] = e] /\ UNCHANGED <<month, spentVars, excused, others>>
    BY <1>2, <1>0 DEF BusinessLock
  <2>3. req'[r] = e
    BY <1>0, <2>2
  <2>4. InOrder(r)' /\ Promise(r)' /\ \A m \in Months : ~HoldsKey(r, m)'
    BY <1>0, <2>2, <2>3 DEF InOrder, Promise, HoldsKey, Goes, Entries
  <2> QED BY <2>1, <2>2, <2>4, QuietStep
<1>3. CASE AskUsage(r)
  <2> DEFINE e == [req[r] EXCEPT !.step = IF Free(r) THEN "key" ELSE "counted",
                                 !.key = month, !.at = month]
  <2>1. e \in Entries
    BY <1>0 DEF Entries
  <2>2. req' = [req EXCEPT ![r] = e] /\ UNCHANGED <<month, spentVars, excused, others>>
    BY <1>3, <1>0 DEF AskUsage, PeriodStart
  <2>3. req'[r] = e
    BY <1>0, <2>2
  <2>4. InOrder(r)' /\ Promise(r)' /\ \A m \in Months : ~HoldsKey(r, m)'
    BY <1>0, <2>2, <2>3 DEF InOrder, Promise, HoldsKey, Goes, Free, Entries
  <2> QED BY <2>1, <2>2, <2>4, QuietStep
<1>4. CASE UsageLock(r)
  <2> DEFINE e == [req[r] EXCEPT !.step = "locked"]
  <2>1. e \in Entries
    BY <1>0 DEF Entries
  <2>2. req' = [req EXCEPT ![r] = e] /\ UNCHANGED <<month, spentVars, excused, others>> /\ Goes(r, "key")
    BY <1>4, <1>0 DEF UsageLock
  <2>3. req'[r] = e
    BY <1>0, <2>2
  <2>4. InOrder(r)' /\ Promise(r)'
    BY <1>0, <2>2, <2>3 DEF InOrder, Promise, Goes, Entries
  <2>5. \A m \in Months : HoldsKey(r, m)' => KeyIsFree(m)
    BY <1>0, <1>4, <2>3 DEF HoldsKey, UsageLock, Entries
  <2> QED BY <2>1, <2>2, <2>4, <2>5, QuietStep
<1>5. CASE Check(r)
  <2>1. CASE req' = [req EXCEPT ![r] = Idle]
    <3>1. InOrder(r)' /\ Promise(r)' /\ \A m \in Months : ~HoldsKey(r, m)'
      BY <1>0, <1>5, <2>1 DEF Check, InOrder, Promise, HoldsKey, Goes, Idle, Months
    <3> QED BY <1>5, <2>1, <3>1, IdleTyped, QuietStep DEF Check
  <2>2. CASE req' # [req EXCEPT ![r] = Idle]
    <3> DEFINE m == CountedMonth(r)
               e == Counted(r, m, req[r].n)
    <3>1. req[r].step = "locked" /\ Fits(CapOf(r), m, req[r].n) /\ req' = [req EXCEPT ![r] = e]
          /\ UNCHANGED <<month, spentVars, excused, others>>
      BY <1>5, <2>2 DEF Check, Goes
    <3>2. m \in Months /\ CapOf(r) \in Caps
      BY <1>0 DEF CountedMonth, PeriodStart, Entries, CapOf, Caps
    <3> HIDE DEF m
    <3>3. checked[CapOf(r)][m] \in Nat /\ unchecked[CapOf(r)][m] \in Nat
      BY <1>0, <3>2, SpentIsNat
    <3>4. e \in Entries
      BY <1>0, <3>2, <3>3 DEF Entries, Counted
    <3>5. req'[r] = e
      BY <1>0, <3>1
    <3>6. InOrder(r)'
      BY <1>0, <3>1, <3>2, <3>5 DEF InOrder, Counted, CountedMonth, PeriodStart, Entries, m
    <3>7. Promise(r)'
      <4>1. CASE req[r].kind = "catchup"
        <5>1. m = req[r].key /\ CapOf(r) = "rows"
          BY <4>1 DEF CountedMonth, CapOf, m
        <5> QED BY <1>0, <3>1, <3>3, <3>5, <4>1, <5>1 DEF Promise, Counted, Fits, Used, CapLimit, Entries
      <4>2. CASE req[r].kind # "catchup"
        <5>1. CapOf(r)' = CapOf(r) /\ req'[r].kind = req[r].kind /\ req'[r].at = m
              /\ req'[r].n = req[r].n /\ UNCHANGED checked
          BY <1>0, <3>1, <3>5 DEF CapOf, Counted, Entries, spentVars
        <5>2. checked[CapOf(r)][m] + req[r].n <= CapLimit(CapOf(r))
          BY <1>0, <3>1, <3>3 DEF Fits, Used, CapLimit, Entries
        <5> QED BY <4>2, <5>1, <5>2 DEF Promise, CapLimit
      <4> QED BY <4>1, <4>2
    <3>8. \A k \in Months : HoldsKey(r, k)' => HoldsKey(r, k)
      BY <1>0, <3>1, <3>5 DEF HoldsKey, Counted, Entries, Free
    <3> QED BY <3>1, <3>4, <3>6, <3>7, <3>8, QuietStep
  <2> QED BY <2>1, <2>2
<1>6. ASSUME NEW n \in 1..MaxRows, ReadAllowance(r, n)
      PROVE  UsageIInv'
  <2> DEFINE e == Counted(r, month, n)
  <2>1. req' = [req EXCEPT ![r] = e] /\ UNCHANGED <<month, spentVars, excused, others>>
        /\ req[r].kind = "catchup" /\ (Free(r) => Fits("rows", month, n))
    BY <1>6 DEF ReadAllowance
  <2>2. CapOf(r) = "rows" /\ checked["rows"][month] \in Nat /\ unchecked["rows"][month] \in Nat
    BY <1>0, <2>1, SpentIsNat DEF CapOf, Caps
  <2>0. n \in 0..MaxRows
    OBVIOUS
  <2>3. e \in Entries
    BY <1>0, <2>0, <2>2 DEF Entries, Counted
  <2>4. req'[r] = e
    BY <1>0, <2>1
  <2>5. InOrder(r)'
    BY <1>0, <2>1, <2>4 DEF InOrder, Counted, Entries
  <2>6. Promise(r)' /\ \A m \in Months : ~HoldsKey(r, m)'
    BY <1>0, <2>1, <2>2, <2>4 DEF Promise, Goes, Free, Counted, Fits, Used, CapLimit, HoldsKey, Entries
  <2> QED BY <2>1, <2>3, <2>5, <2>6, QuietStep
<1>8. CASE Look(r)
  <2> DEFINE e == [req[r] EXCEPT !.step = "begun", !.born = month]
  <2>1. e \in Entries
    BY <1>0 DEF Entries
  <2>2. req' = [req EXCEPT ![r] = e] /\ UNCHANGED <<month, spentVars, excused, others>>
    BY <1>8, <1>0 DEF Look
  <2>3. req'[r] = e
    BY <1>0, <2>2
  <2>4. InOrder(r)' /\ Promise(r)' /\ \A m \in Months : ~HoldsKey(r, m)'
    BY <1>0, <2>2, <2>3 DEF InOrder, Promise, HoldsKey, Goes, Entries
  <2> QED BY <2>1, <2>2, <2>4, QuietStep
<1>7. CASE Abort(r)
  <2>1. InOrder(r)' /\ Promise(r)' /\ \A m \in Months : ~HoldsKey(r, m)'
    BY <1>0, <1>7 DEF Abort, InOrder, Promise, HoldsKey, Goes, Idle, Months
  <2> QED BY <1>7, <2>1, IdleTyped, QuietStep DEF Abort
<1> QED BY <1>1, <1>2, <1>3, <1>4, <1>5, <1>6, <1>7, <1>8 DEF Quiet

\* Two requests that keep a promise of the same cap and month are one: each holds the
\* key of that month.
LEMMA OnePromise ==
  ASSUME UsageIInv, NEW q \in Requests, NEW r \in Requests, q # r, Free(q), Free(r),
         Goes(q, "counted"), Goes(r, "counted"),
         req[q].kind # "catchup", req[r].kind # "catchup",
         req[q].key = req[q].at, req[r].key = req[r].at
  PROVE  req[q].at # req[r].at
BY DEF UsageIInv, UsageTypeOK, KeysExclusive, HoldsKey, Goes, Free

\* What a checked request writes is within the cap, or excused.
LEMMA CommitFits ==
  ASSUME UsageIInv, NEW r \in Requests, Commit(r), Free(r)
  PROVE  LET c == CapOf(r)
             m == IF c = "receipts" THEN month ELSE req[r].born
         IN  /\ checked[c][m] + req[r].n <= CapLimit(c) \/ <<c, m>> \in excused'
             /\ m # req[r].at => <<c, m>> \in excused'
             /\ req[r].at = m /\ req[r].kind # "catchup" => req[r].key = m
             /\ m \in Months /\ c \in Caps
<1> DEFINE c == CapOf(r)
           m == IF c = "receipts" THEN month ELSE req[r].born
<1> USE MonthsAreNat, BoundsAreNat
<1>0. /\ UsageTypeOK /\ InOrder(r) /\ Promise(r) /\ Goes(r, "counted")
      /\ req[r].n \in Nat /\ m \in Months /\ req[r].at \in Months /\ req[r].key \in Months
      /\ req[r].born \in Months
  BY DEF UsageIInv, UsageTypeOK, Commit
<1>1. c \in Caps /\ (c = "receipts" <=> req[r].kind = "upload")
  BY DEF CapOf, Caps
<1>2. excused' = IF req[r].at # m \/ Overlaps(r, m) THEN excused \union {<<c, m>>} ELSE excused
  BY DEF Commit
<1>3. req[r].at = m /\ req[r].kind # "catchup" => req[r].key = m
  <2>1. c = "receipts" => m = month /\ (req[r].kind # "catchup" => req[r].key = req[r].at)
    BY <1>0, <1>1 DEF InOrder, Goes
  <2>2. c # "receipts" => m = req[r].born
    OBVIOUS
  <2>3. req[r].kind # "catchup" => req[r].born <= req[r].key /\ req[r].key <= req[r].at
    BY <1>0 DEF InOrder, Goes
  <2>4. req[r].born \in Nat /\ req[r].key \in Nat /\ req[r].at \in Nat
    BY <1>0
  <2>5. CASE c = "receipts"
    BY <2>1, <2>5
  <2>6. CASE c # "receipts"
    BY <2>2, <2>3, <2>4, <2>6
  <2> QED BY <2>5, <2>6
<1>4. checked[c][m] + req[r].n <= CapLimit(c) \/ <<c, m>> \in excused'
  <2>1. CASE req[r].at # m \/ Overlaps(r, m)
    BY <1>2, <2>1
  <2>2. CASE req[r].at = m /\ ~Overlaps(r, m) /\ req[r].kind = "catchup"
    <3>1. c = "rows" /\ checked["rows"][m] = req[r].used
      BY <2>2 DEF CapOf, Overlaps
    <3> QED BY <1>0, <2>2, <3>1 DEF Promise, CapLimit
  <2>3. CASE req[r].at = m /\ ~Overlaps(r, m) /\ req[r].kind # "catchup"
    BY <1>0, <1>2, <1>3, <2>3 DEF Promise
  <2> QED BY <2>1, <2>2, <2>3
<1> QED BY <1>0, <1>1, <1>2, <1>3, <1>4

LEMMA CommitKeeps ==
  ASSUME UsageIInv, NEW r \in Requests, Commit(r)
  PROVE  UsageIInv'
<1> DEFINE c == CapOf(r)
           m == IF c = "receipts" THEN month ELSE req[r].born
<1> USE MonthsAreNat, BoundsAreNat
<1>0. UsageTypeOK /\ UNCHANGED <<month, others>> /\ req[r].n \in Nat /\ c \in Caps /\ m \in Months
  BY DEF UsageIInv, UsageTypeOK, Commit, CapOf, Caps
<1>1. \A q \in Requests : req'[q] = IF q = r THEN Idle ELSE req[q]
  BY <1>0 DEF UsageTypeOK, Commit
<1>2. \/ /\ Free(r) /\ checked' = [checked EXCEPT ![c][m] = @ + req[r].n]
         /\ excused' \in {excused, excused \union {<<c, m>>}} /\ UNCHANGED unchecked
      \/ /\ ~Free(r) /\ unchecked' = [unchecked EXCEPT ![c][m] = @ + req[r].n]
         /\ UNCHANGED <<checked, excused>>
  BY DEF Commit
<1> HIDE DEF c, m
<1>3. checked[c][m] \in Nat /\ unchecked[c][m] \in Nat
  BY <1>0, SpentIsNat
<1>4. UsageTypeOK'
  <2>1. req' \in [Requests -> Entries]
    BY <1>0, IdleTyped DEF UsageTypeOK, Commit, Entries
  <2>2. checked' \in [Caps -> [Months -> Nat]]
    <3>1. checked \in [Caps -> [Months -> Nat]] /\ checked[c][m] + req[r].n \in Nat
      BY <1>0, <1>3 DEF UsageTypeOK
    <3>2. checked' = checked \/ checked' = [checked EXCEPT ![c][m] = checked[c][m] + req[r].n]
      BY <1>2
    <3> QED BY <1>0, <3>1, <3>2
  <2>3. unchecked' \in [Caps -> [Months -> Nat]]
    BY <1>0, <1>2, <1>3 DEF UsageTypeOK
  <2>4. excused' \subseteq Caps \X Months
    BY <1>0, <1>2 DEF UsageTypeOK
  <2> QED BY <1>0, <2>1, <2>2, <2>3, <2>4 DEF UsageTypeOK, Entries
<1>5. \A k \in Months : ~HoldsKey(r, k)'
  BY <1>1 DEF HoldsKey, Idle
<1>6. KeysExclusive'
  <2>1. \A q \in Requests, k \in Months : q # r => HoldsKey(q, k)' = HoldsKey(q, k)
    BY <1>1 DEF HoldsKey, Free
  <2> QED BY <1>5, <2>1 DEF UsageIInv, KeysExclusive
<1>7. ASSUME NEW q \in Requests
      PROVE  InOrder(q)'
  <2>1. CASE q = r
    BY <1>0, <1>1, <2>1 DEF InOrder, Idle, UsageTypeOK, Months
  <2>2. CASE q # r
    BY <1>0, <1>1, <2>2 DEF UsageIInv, InOrder
  <2> QED BY <2>1, <2>2
<1>8. CASE ~Free(r)
  <2>1. UNCHANGED <<checked, excused>>
    BY <1>2, <1>8
  <2>2. \A q \in Requests : Promise(q)'
    BY <1>1, <2>1 DEF UsageIInv, Promise, Goes, Free, Idle, CapOf, CapLimit
  <2> QED BY <1>4, <1>6, <1>7, <2>1, <2>2 DEF UsageIInv, CapsHold, CapLimit
<1>9. CASE Free(r)
  <2>1. /\ checked[c][m] + req[r].n <= CapLimit(c) \/ <<c, m>> \in excused'
        /\ m # req[r].at => <<c, m>> \in excused'
        /\ req[r].at = m /\ req[r].kind # "catchup" => req[r].key = m
    BY <1>9, CommitFits DEF c, m
  <2>2. excused \subseteq excused'
    BY <1>2
  <2>3. \A d \in Caps, k \in Months :
          checked'[d][k] = IF d = c /\ k = m THEN checked[c][m] + req[r].n ELSE checked[d][k]
    BY <1>0, <1>2, <1>9 DEF UsageTypeOK
  <2>4. CapsHold'
    BY <2>1, <2>2, <2>3 DEF UsageIInv, CapsHold, CapLimit
  <2>5. ASSUME NEW q \in Requests
        PROVE  Promise(q)'
    <3>1. CASE q = r
      BY <1>1, <3>1 DEF Promise, Goes, Idle
    <3>2. CASE q # r /\ (req[q].kind = "catchup" \/ ~Goes(q, "counted") \/ ~Free(q) \/ req[q].key # req[q].at)
      BY <1>1, <3>2 DEF UsageIInv, Promise, Goes, Free
    <3>3. CASE q # r /\ ~(req[q].kind = "catchup" \/ ~Goes(q, "counted") \/ ~Free(q) \/ req[q].key # req[q].at)
      <4>1. CapOf(q) \in Caps /\ req[q].at \in Months /\ CapOf(q)' = CapOf(q) /\ req'[q] = req[q]
        BY <1>0, <1>1, <3>3 DEF CapOf, Caps, UsageTypeOK
      <4>2. checked[CapOf(q)][req[q].at] + req[q].n <= CapLimit(CapOf(q))
             \/ <<CapOf(q), req[q].at>> \in excused
        BY <3>3 DEF UsageIInv, Promise
      <4>3. Promise(q)' <=> \/ checked'[CapOf(q)][req[q].at] + req[q].n <= CapLimit(CapOf(q))
                            \/ <<CapOf(q), req[q].at>> \in excused'
        BY <3>3, <4>1 DEF Promise, Goes, Free, CapOf, CapLimit
      <4>4. CASE CapOf(q) = c /\ req[q].at = m
        <5>1. CASE req[r].kind = "catchup"
          <6>1. c = "rows" /\ Overlaps(r, m)
            BY <3>3, <4>4, <5>1 DEF c, CapOf, Overlaps
          <6>2. excused' = excused \union {<<c, m>>}
            BY <1>9, <6>1 DEF Commit, c, m
          <6> QED BY <4>4, <4>3, <6>2
        <5>2. CASE req[r].kind # "catchup"
          <6>1. req[r].at # m
            BY <1>9, <2>1, <3>3, <4>4, <5>2, OnePromise DEF Commit
          <6> QED BY <2>1, <4>4, <4>3, <6>1
        <5> QED BY <5>1, <5>2
      <4>5. CASE ~(CapOf(q) = c /\ req[q].at = m)
        BY <2>2, <2>3, <4>1, <4>2, <4>5, <4>3
      <4> QED BY <4>4, <4>5
    <3> QED BY <3>1, <3>2, <3>3
  <2> QED BY <1>4, <1>6, <1>7, <2>4, <2>5 DEF UsageIInv
<1> QED BY <1>8, <1>9

LEMMA UsageInitIInv == UsageInit => UsageIInv
<1> SUFFICES ASSUME UsageInit PROVE UsageIInv
  OBVIOUS
<1> USE MonthsAreNat, BoundsAreNat DEF UsageInit
<1>1. UsageTypeOK
  <2>1. req \in [Requests -> Entries]
    BY IdleTyped
  <2> QED BY <2>1 DEF UsageTypeOK, Entries
<1>2. KeysExclusive /\ \A r \in Requests : InOrder(r) /\ Promise(r)
  BY DEF KeysExclusive, HoldsKey, InOrder, Promise, Goes, Idle
<1>3. CapsHold
  BY DEF CapsHold, CapLimit
<1> QED BY <1>1, <1>2, <1>3 DEF UsageIInv

LEMMA EnvironmentKeeps ==
  ASSUME UsageIInv, BankRow \/ NewMonth \/ OthersConnect \/ OthersRelease
  PROVE  UsageIInv'
<1> USE MonthsAreNat, BoundsAreNat
<1>1. UsageTypeOK /\ UNCHANGED <<checked, req, excused>>
  BY DEF UsageIInv, BankRow, NewMonth, OthersConnect, OthersRelease, spentVars
<1>2. UsageTypeOK'
  <2>1. CASE BankRow
    <3>1. unchecked["rows"][month] \in Nat
      BY <1>1, SpentIsNat DEF UsageTypeOK, Caps
    <3>2. unchecked' \in [Caps -> [Months -> Nat]]
      BY <1>1, <2>1, <3>1 DEF BankRow, UsageTypeOK, Caps
    <3> QED BY <1>1, <2>1, <3>2 DEF BankRow, UsageTypeOK
  <2>2. CASE NewMonth
    BY <1>1, <2>2, UsageConstants DEF NewMonth, UsageTypeOK, spentVars, Months
  <2>3. CASE OthersConnect \/ OthersRelease
    BY <1>1, <2>3 DEF OthersConnect, OthersRelease, UsageTypeOK, spentVars
  <2> QED BY <2>1, <2>2, <2>3
<1>3. month \in Nat /\ month' \in Nat /\ month <= month'
  BY <1>1 DEF UsageTypeOK, BankRow, NewMonth, OthersConnect, OthersRelease
<1>4. ASSUME NEW r \in Requests
      PROVE  InOrder(r)' /\ Promise(r)'
  <2>1. req[r].born \in Nat /\ req[r].key \in Nat /\ req[r].at \in Nat
    BY <1>1 DEF UsageTypeOK
  <2>2. InOrder(r)'
    BY <1>1, <1>3, <2>1 DEF UsageIInv, InOrder
  <2>3. Promise(r)'
    BY <1>1 DEF UsageIInv, Promise, Goes, Free, CapOf, CapLimit
  <2> QED BY <2>2, <2>3
<1>5. KeysExclusive' /\ CapsHold'
  BY <1>1 DEF UsageIInv, KeysExclusive, HoldsKey, Free, CapsHold, CapLimit
<1> QED BY <1>2, <1>4, <1>5 DEF UsageIInv

\* The invariant holds of every behaviour.
THEOREM UsageInductive == UsageSpec => []UsageIInv
<1>1. UsageIInv /\ [UsageNext]_usageVars => UsageIInv'
  <2>1. CASE UsageIInv /\ UsageNext
    BY <2>1, EnvironmentKeeps, QuietKeeps, CommitKeeps DEF UsageNext, Quiet
  <2>2. CASE UsageIInv /\ UNCHANGED usageVars
    BY <2>2 DEF UsageIInv, usageVars, spentVars, UsageTypeOK, KeysExclusive, HoldsKey, Free, InOrder, Promise, Goes,
                CapOf, CapLimit, CapsHold
  <2> QED BY <2>1, <2>2
<1> QED BY <1>1, UsageInitIInv, PTL DEF UsageSpec

\* Every variable keeps its type.
THEOREM UsageTypeCorrect == UsageSpec => []UsageTypeOK
<1>1. UsageIInv => UsageTypeOK
  BY DEF UsageIInv
<1> QED BY <1>1, UsageInductive, PTL

\* Requests that check a cap never exceed it together, in any month, unless the month
\* turned under one of them or a catching up met another request.
THEOREM CapsAreKept == UsageSpec => []CapsHold
<1>1. UsageIInv => CapsHold
  BY DEF UsageIInv
<1> QED BY <1>1, UsageInductive, PTL

-----------------------------------------------------------------------------
(* The clients of the pool. *)

\* The clients that are held are as many as there are, at most.
PoolInOrder ==
  /\ IsFiniteSet(InFlight)
  /\ Cardinality(InFlight) + others <= Clients

\* A request that begins takes a client, and one that ends releases it.
LEMMA ClientsAreCounted ==
  ASSUME UsageTypeOK, PoolInOrder, [UsageNext]_usageVars
  PROVE  PoolInOrder'
<1>0. /\ others \in Nat /\ Clients \in Nat
      /\ IsFiniteSet(InFlight) /\ Cardinality(InFlight) \in Nat
  BY BoundsAreNat, FS_CardinalityType, UsageConstants DEF UsageTypeOK, PoolInOrder
<1> DEFINE Fewer == InFlight' \subseteq InFlight /\ UNCHANGED others
<1>1. ASSUME Fewer PROVE PoolInOrder'
  <2>1. IsFiniteSet(InFlight') /\ Cardinality(InFlight') <= Cardinality(InFlight)
    BY <1>0, <1>1, FS_Subset
  <2>2. Cardinality(InFlight') \in Nat
    BY <2>1, FS_CardinalityType
  <2> QED BY <1>0, <1>1, <2>1, <2>2 DEF PoolInOrder
<1>2. ASSUME NEW r \in Requests, NEW e, e.step = "idle" \/ ~Goes(r, "idle"),
             req' = [req EXCEPT ![r] = e], UNCHANGED others
      PROVE  PoolInOrder'
  BY <1>1, <1>2 DEF InFlight, Goes, UsageTypeOK
<1>3. ASSUME NEW r \in Requests, NEW k \in Kinds, NEW p \in {"free", "v1"}, NEW n \in 1..MaxRows,
             Begin(r, k, p, n)
      PROVE  PoolInOrder'
  <2>1. InFlight' \subseteq InFlight \union {r} /\ UNCHANGED others
    BY <1>3 DEF Begin, InFlight, Goes, UsageTypeOK
  <2>2. r \notin InFlight /\ ClientFree
    BY <1>3 DEF Begin, InFlight
  <2>3. IsFiniteSet(InFlight \union {r}) /\ Cardinality(InFlight \union {r}) = Cardinality(InFlight) + 1
    BY <1>0, <2>2, FS_AddElement
  <2>4. IsFiniteSet(InFlight') /\ Cardinality(InFlight') <= Cardinality(InFlight) + 1
    BY <2>1, <2>3, FS_Subset
  <2>5. Cardinality(InFlight') \in Nat
    BY <2>4, FS_CardinalityType
  <2> QED BY <1>0, <2>1, <2>2, <2>4, <2>5 DEF PoolInOrder, ClientFree
<1>4. ASSUME NEW r \in Requests,
             \/ Look(r) \/ BusinessLock(r) \/ AskUsage(r) \/ UsageLock(r)
             \/ (\E n \in 1..MaxRows : ReadAllowance(r, n)) \/ Commit(r) \/ Abort(r)
      PROVE  PoolInOrder'
  <2>1. ~Goes(r, "idle")
    BY <1>4 DEF Look, BusinessLock, AskUsage, UsageLock, ReadAllowance, Commit, Abort, Goes
  <2>2. UNCHANGED others /\ \E e : req' = [req EXCEPT ![r] = e]
    BY <1>4 DEF Look, BusinessLock, AskUsage, UsageLock, ReadAllowance, Commit, Abort
  <2> QED BY <1>2, <2>1, <2>2
<1>5. ASSUME NEW r \in Requests, Check(r)
      PROVE  PoolInOrder'
  <2>1. ~Goes(r, "idle") /\ UNCHANGED others /\ \E e : req' = [req EXCEPT ![r] = e]
    BY <1>5 DEF Check, Goes
  <2> QED BY <1>2, <2>1
<1>6. ASSUME BankRow \/ NewMonth \/ UNCHANGED usageVars
      PROVE  PoolInOrder'
  BY <1>1, <1>6 DEF BankRow, NewMonth, usageVars, InFlight, Goes
<1>7. ASSUME OthersConnect \/ OthersRelease
      PROVE  PoolInOrder'
  <2>1. InFlight' = InFlight
    BY <1>7 DEF OthersConnect, OthersRelease, InFlight, Goes
  <2>2. others' \in Nat /\ (others' <= others \/ (ClientFree /\ others' = others + 1))
    BY <1>0, <1>7 DEF OthersConnect, OthersRelease
  <2> QED BY <1>0, <2>1, <2>2 DEF PoolInOrder, ClientFree
<1> QED
  BY <1>3, <1>4, <1>5, <1>6, <1>7 DEF UsageNext

LEMMA PoolIsKept == UsageSpec => []PoolInOrder
<1>1. UsageInit => PoolInOrder
  <2> SUFFICES ASSUME UsageInit PROVE PoolInOrder
    OBVIOUS
  <2>1. InFlight = {} /\ others = 0
    BY DEF UsageInit, InFlight, Goes, Idle
  <2> QED BY <2>1, FS_EmptySet, UsageConstants DEF PoolInOrder
<1>2. UsageIInv => UsageTypeOK
  BY DEF UsageIInv
<1> QED
  BY <1>1, <1>2, ClientsAreCounted, UsageInductive, PTL DEF UsageSpec

\* Who has the key of a month waits for no lock, and for a client only in a manual run.
LEMMA KeyHoldersGoOn ==
  ASSUME NEW q \in Requests, NEW m, HoldsKey(q, m)
  PROVE  q \in InFlight /\ ~WaitsForLock(q) /\ (WaitsForClient(q) => req[q].kind = "manual")
BY DEF HoldsKey, WaitsForLock, WaitsForClient, Blocks, Asks, Goes, InFlight

\* Who has the business's lock waits for no client, and for no lock but such a key.
LEMMA BusinessGoesOn ==
  ASSUME NEW q \in Requests, HoldsBusinessLock(q)
  PROVE  /\ q \in InFlight /\ ~WaitsForClient(q)
         /\ WaitsForLock(q) => \E p \in Requests : Blocks(p, q) /\ HoldsKey(p, req[q].key)
BY DEF HoldsBusinessLock, TakesBusinessLock, WaitsForLock, WaitsForClient, Blocks, Asks, Goes, InFlight

\* If every request in flight waits, a manual run that waits for a client keeps the key
\* of the month from others, or those who wait for a client and the other handlers have
\* all the clients of the pool.
THEOREM StandstillsExplained == UsageSpec => []StandstillsHaveCauses
<1>1. ASSUME UsageTypeOK, PoolInOrder, Standstill
      PROVE  \/ \E q, r \in InFlight : req[q].kind = "manual" /\ WaitsForClient(q) /\ Blocks(q, r)
             \/ Cardinality({r \in InFlight : WaitsForClient(r)}) + others = Clients
  <2>1. ASSUME NEW q \in Requests, NEW r \in InFlight, HoldsKey(q, req[r].key), Blocks(q, r)
        PROVE  req[q].kind = "manual" /\ WaitsForClient(q) /\ q \in InFlight
    BY <1>1, <2>1, KeyHoldersGoOn DEF Standstill
  <2>2. ASSUME NEW r \in InFlight, WaitsForLock(r)
        PROVE  \E q, p \in InFlight : req[q].kind = "manual" /\ WaitsForClient(q) /\ Blocks(q, p)
    <3>1. PICK q \in Requests : Blocks(q, r)
      BY <2>2 DEF WaitsForLock
    <3>2. CASE HoldsKey(q, req[r].key)
      BY <2>1, <3>1, <3>2
    <3>3. CASE HoldsBusinessLock(q)
      <4>1. q \in InFlight /\ WaitsForLock(q)
        BY <1>1, <3>3, BusinessGoesOn DEF Standstill
      <4>2. PICK p \in Requests : Blocks(p, q) /\ HoldsKey(p, req[q].key)
        BY <3>3, <4>1, BusinessGoesOn
      <4> QED BY <2>1, <4>1, <4>2
    <3> QED BY <3>1, <3>2, <3>3 DEF Blocks
  <2>3. ASSUME \A r \in InFlight : ~WaitsForLock(r)
        PROVE  Cardinality({r \in InFlight : WaitsForClient(r)}) + others = Clients
    <3>1. {r \in InFlight : WaitsForClient(r)} = InFlight
      BY <1>1, <2>3 DEF Standstill
    <3>2. ~ClientFree
      BY <1>1, <2>3 DEF Standstill, WaitsForClient
    <3>3. Cardinality(InFlight) \in Nat /\ others \in Nat /\ Clients \in Nat
      BY <1>1, BoundsAreNat, FS_CardinalityType, UsageConstants DEF PoolInOrder, UsageTypeOK
    <3>4. Cardinality(InFlight) + others = Clients
      BY <1>1, <3>2, <3>3 DEF ClientFree, PoolInOrder
    <3> QED BY <3>1, <3>4, Zenon
  <2> QED BY <2>2, <2>3
<1>2. UsageIInv /\ PoolInOrder => StandstillsHaveCauses
  BY <1>1 DEF UsageIInv, StandstillsHaveCauses
<1> QED
  BY <1>2, UsageInductive, PoolIsKept, PTL
=============================================================================
