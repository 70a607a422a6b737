SPECIFICATION FairCronSpec
CONSTANTS
  Never = Never
  MinutesPerHour = 2
  HoursPerDay = 3
  DaysPerWeek = 2
  Limit = 36
  Afters = {0, 7}
  Zones <- ByHalfAnHour
  Minutes <- SomeMinutes
  Hours <- SomeHours
  MonthDays <- SomeDays
  WeekDays <- SomeWeekDays
PROPERTIES WalkEnds
CHECK_DEADLOCK FALSE
