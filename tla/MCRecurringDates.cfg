SPECIFICATION Spec
CONSTANTS
  MaxDay = 4
  FirstDay <- MonthStarts
  LastMonth = 3
  Cadences <- Every
  Ends = {0, 2}
  LockDates = {0, 2}
  MaxCatchup = 2
  Slots <- Capped
  Unlimited = 9
  DatesAsText = FALSE
INVARIANT BacklogKept
