----------------------------- MODULE FiringSchedule -----------------------------
(***************************************************************************)
(* One scheduled trigger over its life (sheprd-automation: schedule/next.rs   *)
(* next_after and due; sheprd-automate: daemon.rs schedule, store.rs cursor    *)
(* and set_cursor).  The daemon checks the trigger from time to time, after    *)
(* any pause of its own or the host's; a check walks the missed occurrences,   *)
(* at most MissedWalk in a pass and MissedPasses passes, and fires the last    *)
(* one it came to.                                                           *)
(*                                                                          *)
(* A schedule is an interval, or the set of its occurrences (a time of day or  *)
(* a cron expression; what those occurrences are is CronWalk's).              *)
(***************************************************************************)
EXTENDS Integers, FiniteSets, FiniteSetsExt

CONSTANTS
  Intervals,     \* Schedule::Every: its seconds
  Calendars,     \* Schedule::At, Schedule::Cron: sets of occurrences
  MissedWalk,    \* MISSED_WALK
  MissedPasses,  \* MISSED_PASSES
  MaxTime,       \* bound on the clock
  MaxSetBacks,   \* bound on how often the clock is set back
  None

ASSUME ScheduleAssumption ==
  /\ Intervals \subseteq Nat \ {0} /\ \A c \in Calendars : c \subseteq Nat
  /\ MissedWalk \in Nat \ {0} /\ MissedPasses \in Nat \ {0}
  /\ MaxTime \in Nat /\ MaxSetBacks \in Nat
  /\ None \notin Nat \cup [checked : Nat, fired : Nat]

VARIABLES
  schedule,  \* [every, on]: an interval, or None and the occurrences
  clock,
  cursor,    \* [checked, fired], or None
  now,       \* the time of the check
  walk,      \* the locals of due
  stage,     \* "idle", "walk", "fire"
  setBacks,  \* how often the clock may still be set back
  fires      \* history: what was fired, by the time it was fired for

vars == <<schedule, clock, cursor, now, walk, stage, setBacks, fires>>

NoWalk == [start |-> 0, after |-> 0, anchor |-> None, latest |-> None, walked |-> 0, passes |-> 0]

(* next_after of an interval, which counts from its anchor. *)
EveryAfter(after, anchor) ==
  LET from == IF anchor = None THEN after ELSE anchor
      steps == IF after < from THEN 1 ELSE ((after - from) \div schedule.every) + 1
  IN  from + steps * schedule.every

(* next_after: the first occurrence after `after`.  How the days of a time of *)
(* day are searched is not here: a calendar's occurrences are given.          *)
NextAfter(after, anchor) ==
  IF schedule.every # None THEN EveryAfter(after, anchor)
  ELSE LET later == {o \in schedule.on : o > after} IN IF later = {} THEN None ELSE Min(later)

-----------------------------------------------------------------------------
(* A trigger that was never checked, or whose script was off: count from now. *)
StartCounting ==
  /\ stage = "idle" /\ cursor = None
  /\ cursor' = [checked |-> clock, fired |-> clock]
  /\ UNCHANGED <<schedule, clock, now, walk, stage, setBacks, fires>>

Check ==
  /\ stage = "idle" /\ cursor # None
  /\ now' = clock
  /\ walk' = [NoWalk EXCEPT !.start = cursor.checked, !.after = cursor.checked, !.anchor = cursor.fired]
  /\ stage' = "walk"
  /\ UNCHANGED <<schedule, clock, cursor, setBacks, fires>>

(* mutant: an occurrence at the very time of the check is left for later. *)
FoundBefore == LET next == NextAfter(walk.after, walk.anchor)
               IN  IF next = None \/ next >= now THEN None ELSE next

(* The inner loop: one more occurrence that has passed. *)
Found == LET next == NextAfter(walk.after, walk.anchor)
         IN  IF next = None \/ next > now THEN None ELSE next

WalkOn ==
  /\ stage = "walk" /\ walk.walked < MissedWalk /\ Found # None
  /\ walk' = [walk EXCEPT !.latest = Found, !.after = Found, !.anchor = Found, !.walked = @ + 1]
  /\ UNCHANGED <<schedule, clock, cursor, now, stage, setBacks, fires>>

SkipToNow(left, span) == left \* mutant: the walk restarts at now
Skip(left, span) == IF left > span \div 2 THEN left - span \div 2 ELSE 0

(* A pass that ran out restarts nearer to now. *)
Restart ==
  /\ stage = "walk" /\ walk.walked = MissedWalk
  /\ LET on == walk.after + Skip(now - walk.after, walk.after - walk.start)
     IN  walk' = [walk EXCEPT !.passes = @ + 1, !.walked = 0, !.start = on, !.after = on]
  /\ stage' = IF walk.passes + 1 = MissedPasses THEN "fire" ELSE "walk"
  /\ UNCHANGED <<schedule, clock, cursor, now, setBacks, fires>>

WalkOver ==
  /\ stage = "walk" /\ walk.walked < MissedWalk /\ Found = None
  /\ stage' = "fire"
  /\ UNCHANGED <<schedule, clock, cursor, now, walk, setBacks, fires>>

CheckedOnly == [cursor EXCEPT !.checked = now] \* mutant: the anchor stays
(* set_cursor: fired stays as it is when nothing fired. *)
NewCursor == [checked |-> now, fired |-> IF walk.latest = None THEN cursor.fired ELSE walk.latest]

Fire ==
  /\ stage = "fire"
  /\ cursor' = NewCursor
  /\ fires' = IF walk.latest = None THEN fires ELSE fires \cup {walk.latest}
  /\ walk' = NoWalk /\ stage' = "idle" /\ now' = 0
  /\ UNCHANGED <<schedule, clock, setBacks>>

(* Time passes, with the daemon asleep, down or between two checks. *)
Pass ==
  /\ stage = "idle"
  /\ clock' \in (clock + 1)..MaxTime
  /\ UNCHANGED <<schedule, cursor, now, walk, stage, setBacks, fires>>

SetBack ==
  /\ stage = "idle" /\ setBacks > 0 /\ clock > 0
  /\ setBacks' = setBacks - 1
  /\ clock' \in 0..(clock - 1)
  /\ UNCHANGED <<schedule, cursor, now, walk, stage, fires>>

Init ==
  /\ schedule \in [every : Intervals, on : {{}}] \cup [every : {None}, on : Calendars]
  /\ clock = 0 /\ cursor = None /\ now = 0 /\ walk = NoWalk /\ stage = "idle"
  /\ setBacks = MaxSetBacks /\ fires = {}

Checking == Check \/ WalkOn \/ Restart \/ WalkOver \/ Fire
Next == StartCounting \/ Checking \/ Pass \/ SetBack
Spec == Init /\ [][Next]_vars
FairSpec == Spec /\ WF_vars(Checking)

-----------------------------------------------------------------------------
(* Every occurrence up to a time, by definition. *)
Passed(from, anchor, to) ==
  IF schedule.every # None
    THEN {t \in 0..MaxTime : from < t /\ t <= to /\ t > anchor /\ (t - anchor) % schedule.every = 0}
    ELSE {t \in schedule.on : from < t /\ t <= to}

(* A check fires "the latest missed one": the last occurrence since the       *)
(* check before, and nothing if there was none (due).  It holds for           *)
(* intervals and for occurrences that are evenly spread.  Violated when a     *)
(* burst of occurrences fills a pass and none follows in the last stretch the *)
(* walk keeps: what was skipped over is not looked at again.                 *)
LatestMissed ==
  stage = "fire" =>
    LET passed == Passed(cursor.checked, cursor.fired, now)
    IN  walk.latest = IF passed = {} THEN None ELSE Max(passed)

(* An interval fires for later and later times, even when the clock is set    *)
(* back (next_after, behind < 0).  Firing twice for the same time is the       *)
(* ledger's matter: fires is a set and does not show it.                     *)
FiresForward == [][schedule.every # None => \A t \in fires' \ fires, u \in fires : t > u]_vars

(* No occurrence is lost: one that comes round while the trigger is counting  *)
(* is fired for, or collapses into a later one that is, unless the clock is   *)
(* set back before it (due's promise to the daemon, which never looks at the  *)
(* time before `checked` again).  About calendars: an interval has no          *)
(* occurrences of its own, it counts from what was fired last.               *)
OccurrencesFired ==
  \A o \in 1..MaxTime :
    (cursor # None /\ cursor.checked < o /\ o <= clock /\ o \in schedule.on)
      ~> (o > clock \/ \E t \in fires : t >= o)
====
