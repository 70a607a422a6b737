SPECIFICATION FairCronSpec
CONSTANTS
  Never = Never
  MinutesPerHour = 2
  HoursPerDay = 3
  DaysPerWeek = 2
  Limit = 36
  Afters = {0, 1, 3, 7, 10, 13}
  Zones <- ByAnHour
  Minutes <- SomeMinutes
  Hours <- SomeHours
  MonthDays <- SomeDays
  WeekDays <- SomeWeekDays
INVARIANTS NextIsFirst
PROPERTIES WalkEnds
CHECK_DEADLOCK FALSE
