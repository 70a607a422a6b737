-------------------------------- MODULE CronWalk --------------------------------
(***************************************************************************)
(* When a cron schedule fires next (sheprd-automation: schedule/next.rs       *)
(* next_cron and start_of_next, schedule/cron.rs): the walk from the *)
(* minute after `after`, which skips days and hours that cannot match, in a    *)
(* time zone whose clock changes once.                                       *)
(*                                                                          *)
(* Time is counted in half minutes, so that `after` may lie inside a minute.   *)
(* The calendar is small: MinutesPerHour, HoursPerDay, and weekdays that       *)
(* repeat every DaysPerWeek days; a day's number is its day of the month.  It   *)
(* has one month: the test of the month field is left out, and a month that   *)
(* does not match would be so many days that do not.                         *)
(***************************************************************************)
EXTENDS Integers, FiniteSets, FiniteSetsExt

CONSTANTS
  MinutesPerHour, HoursPerDay, DaysPerWeek,
  Limit,        \* how far the walk goes: a year and a day
  Afters,       \* instants to walk from
  Zones,        \* time zones: when the clock changes, and by how much
  Minutes, Hours, MonthDays, WeekDays,  \* what a field may select
  Never         \* no minute

Minute == 2
Hour == Minute * MinutesPerHour
Day == Hour * HoursPerDay

ASSUME CalendarAssumption ==
  /\ MinutesPerHour \in Nat \ {0} /\ HoursPerDay \in Nat \ {0} /\ DaysPerWeek \in Nat \ {0}
  /\ Limit \in Nat /\ Afters \subseteq Nat /\ Zones \subseteq [shift : Nat, delta : Int]
  /\ Never \notin Nat

VARIABLES
  cron,   \* its fields; a day field knows whether it was given as *
  zone,   \* when its clock changes, by how much
  after,
  at,     \* where the walk is
  turn,   \* parity of the loop's turns
  walking, \* the loop goes on
  found   \* what next_cron returns

cronVars == <<cron, zone, after, at, turn, walking, found>>

-----------------------------------------------------------------------------
(* The time zone library *)

(* The local clock, in half minutes since the first local midnight. *)
Offset(t) == IF t < zone.shift THEN 0 ELSE zone.delta
Local(t) == t + Offset(t)

(* The first instant the clock shows l; the time l would have been, had the   *)
(* clock not jumped over it.                                                *)
Instant(l) ==
  LET shown == {t \in {l, l - zone.delta} : Local(t) = l}
  IN  IF shown = {} THEN l ELSE Min(shown)

DayOf(t) == Local(t) \div Day

(* The first instant of t's day. *)
StartOfDay(t) ==
  LET midnight == DayOf(t) * Day
  IN  IF \E i \in {midnight, midnight - zone.delta} : Local(i) = midnight THEN Instant(midnight) ELSE zone.shift

(* The same clock time on the next day. *)
PlusDay(t) == Instant(Local(t) + Day)

(* The same clock time with other minutes: at t's offset if the zone has it   *)
(* then, else as the zone has it.                                            *)
WithMinutes(t, l) == IF Local(l - Offset(t)) = l THEN l - Offset(t) ELSE Instant(l)

-----------------------------------------------------------------------------
(* cron.rs *)

MatchesMinute(t) == ((Local(t) % Hour) \div Minute) \in cron.minutes
MatchesHour(t) == ((Local(t) % Day) \div Hour) \in cron.hours

(* matches_date, of any month. *)
MatchesDay(t) ==
  LET day == DayOf(t) \in cron.days.set
      weekday == (DayOf(t) % DaysPerWeek) \in cron.weekdays.set
  IN  CASE cron.days.any /\ cron.weekdays.any -> TRUE
        [] cron.days.any /\ ~cron.weekdays.any -> weekday
        [] ~cron.days.any /\ cron.weekdays.any -> day
        [] ~cron.days.any /\ ~cron.weekdays.any -> day \/ weekday

Matches(t) == MatchesDay(t) /\ MatchesHour(t) /\ MatchesMinute(t)

-----------------------------------------------------------------------------
(* next.rs *)

FirstOf(x) == (x + Minute) - ((x + Minute) % Minute) \* the minute after x

NextDay(t) == PlusDay(StartOfDay(t))

HourLater(t) == t + Hour \* mutant: an hour on from inside the hour
HourStart(t) == WithMinutes(t, Local(t) - (Local(t) % Hour)) \* mutant: the hour is not added
NextHour(t) == WithMinutes(t, Local(t) - (Local(t) % Hour)) + Hour

(* One turn of the loop. *)
Walk ==
  /\ walking /\ at <= after + Limit
  /\ turn' = 1 - turn
  /\ IF Matches(at) THEN found' = at /\ walking' = FALSE /\ UNCHANGED at
     ELSE /\ UNCHANGED <<found, walking>>
          /\ at' = IF ~MatchesDay(at) THEN NextDay(at)
                   ELSE IF ~MatchesHour(at) THEN NextHour(at)
                   ELSE at + Minute
  /\ UNCHANGED <<cron, zone, after>>

GiveUp ==
  /\ walking /\ at > after + Limit
  /\ walking' = FALSE
  /\ UNCHANGED <<cron, zone, after, at, turn, found>>

CronInit ==
  /\ cron \in [minutes : Minutes, hours : Hours, days : MonthDays, weekdays : WeekDays]
  /\ zone \in Zones
  /\ after \in Afters
  /\ at = FirstOf(after)
  /\ turn = 0 /\ walking = TRUE /\ found = Never

CronNext == Walk \/ GiveUp
CronSpec == CronInit /\ [][CronNext]_cronVars
FairCronSpec == CronSpec /\ WF_cronVars(CronNext)

-----------------------------------------------------------------------------
(* The first minute after `after` that matches, by looking at every one. *)
First ==
  LET matching == {t \in (after + 1)..(after + Limit) : t % Minute = 0 /\ Matches(t)}
  IN  IF matching = {} THEN Never ELSE Min(matching)

(* The walk returns the first minute that matches, or that there is none,    *)
(* "skipping whole days and hours that cannot match" (next_cron,             *)
(* start_of_next).  It holds where the clock changes on the hour, by whole   *)
(* hours, and leaves the midnights alone.                                    *)
(* Violated where the clock jumps over midnight: the day starts at one, a day *)
(* on from it is one again, and the first hour of the next day is skipped.    *)
NextIsFirst == ~walking => found = First

(* The walk ends: it "Gives up after a year and a day" (next_cron).  It holds *)
(* in the same zones.  Violated where the clock is set back by half an hour:  *)
(* the start of the hour lies before the change, and an hour on from it is    *)
(* where the walk already was.                                              *)
WalkEnds == <>~walking
====
