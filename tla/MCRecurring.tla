---- MODULE MCRecurring ----
(* Months of two, one, two and two days; an occurrence every second day or *)
(* every month, one or two runs of catching up at a time, and none, one or *)
(* any number of free slots.                                               *)
EXTENDS Recurring

MonthStarts == [m \in 0..4 |-> <<1, 3, 4, 6, 8>>[m + 1]]
Every == {[unit |-> "day", n |-> 2], [unit |-> "month", n |-> 1]}
Capped == {0, 1, Unlimited}
====
