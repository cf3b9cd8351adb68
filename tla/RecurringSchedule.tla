------------------------- MODULE RecurringSchedule -------------------------
(***************************************************************************)
(* What a recurring template promises, whoever works on it: its            *)
(* occurrences are posted in the order of their dates, each once, and the  *)
(* next one to post is later than every one that was.  Recurring is shown  *)
(* to implement it.                                                        *)
(***************************************************************************)
EXTENDS Naturals

VARIABLES
  cursor,  \* the date of the next occurrence
  done     \* the dates of the occurrences posted

Init == cursor = 0 /\ done = {}

\* Some occurrences are posted, and the template is scheduled anew.
Advance ==
  /\ done \subseteq done'
  /\ \A d \in done' \ done, x \in done : x < d
  /\ \A d \in done' : d < cursor'

Spec == Init /\ [][Advance]_<<cursor, done>>
=============================================================================
