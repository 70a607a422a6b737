---------------------------- MODULE ScheduleProofs ----------------------------
(***************************************************************************)
(* Proofs about when schedules fire.  About FiringSchedule: an interval     *)
(* fires forward, for any interval, any limits of the walk and a clock set  *)
(* back any number of times, and what a check fires for is the latest       *)
(* missed occurrence.  About CronWalk: the walk skips no minute that        *)
(* matches, in zones whose clocks change by whole hours and leave the       *)
(* midnights alone.                                                         *)
(***************************************************************************)
EXTENDS FiringSchedule, CronWalk, WellFoundedInduction, TLAPS

-----------------------------------------------------------------------------
(* Arithmetic *)

\* Multiples of e are at least e apart.
LEMMA Products ==
  ASSUME NEW i \in Int, NEW j \in Int, NEW e \in Nat \ {0}, i < j
  PROVE  i * e \in Int /\ j * e \in Int /\ i * e + e <= j * e
<1>1. PICK n \in Nat : j = i + 1 + n
  <2>1. j - i - 1 \in Nat /\ j = i + 1 + (j - i - 1)
    OBVIOUS
  <2> QED
    BY <2>1
<1>2. i * e \in Int /\ n * e \in Nat
  OBVIOUS
<1>3. j * e = i * e + e + n * e
  BY <1>1
<1> QED
  BY <1>2, <1>3

\* Quotient and remainder.
LEMMA Division ==
  ASSUME NEW x \in Int, NEW e \in Nat \ {0}
  PROVE  /\ x \div e \in Int /\ x % e \in Int /\ (x \div e) * e \in Int
         /\ 0 <= x % e /\ x % e < e
         /\ x = (x \div e) * e + (x % e)
<1>1. x \div e \in Int
  OBVIOUS
<1>2. x % e \in Int /\ 0 <= x % e /\ x % e < e
  OBVIOUS
<1>3. x = (x \div e) * e + (x % e)
  OBVIOUS
<1>4. (x \div e) * e \in Int
  BY <1>1
<1> QED
  BY <1>1, <1>2, <1>3, <1>4

\* The quotient is the only number whose multiple is that near.
LEMMA Quotient ==
  ASSUME NEW x \in Int, NEW e \in Nat \ {0}, NEW q \in Int, q * e <= x, x < q * e + e
  PROVE  x \div e = q /\ x % e = x - q * e
<1>1. PICK p, r : p = x \div e /\ r = x % e
  OBVIOUS
<1>2. p \in Int /\ r \in Int /\ 0 <= r /\ r < e /\ x = p * e + r
  BY <1>1, Division
<1>3. p * e \in Int /\ q * e \in Int
  BY <1>2
<1>4. ~(p < q)
  BY <1>2, <1>3, Products
<1>5. ~(q < p)
  BY <1>2, <1>3, Products
<1>6. p = q
  BY <1>2, <1>4, <1>5
<1> QED
  BY <1>1, <1>2, <1>3, <1>6

\* What leaves no remainder is a multiple.
LEMMA Multiple ==
  ASSUME NEW x \in Int, NEW e \in Nat \ {0}
  PROVE  x % e = 0 <=> \E k \in Int : x = k * e
<1>1. ASSUME x % e = 0 PROVE \E k \in Int : x = k * e
  <2>1. PICK k : k = x \div e
    OBVIOUS
  <2>2. k \in Int /\ x = k * e
    BY <1>1, <2>1, Division
  <2> QED
    BY <2>2
<1>2. ASSUME NEW k \in Int, x = k * e PROVE x % e = 0
  BY <1>2, Quotient
<1> QED
  BY <1>1, <1>2

\* A set of naturals has a least member.
LEMMA LeastIn ==
  ASSUME NEW T \in SUBSET Nat, T # {}
  PROVE  Min(T) \in T /\ \A y \in T : Min(T) <= y
<1>1. PICK x \in T : \A y \in T : ~(<<y, x>> \in OpToRel(<, Nat))
  BY NatLessThanWellFounded, WFMin, T \subseteq Nat
<1>2. \A y \in T : ~(y < x)
  BY <1>1 DEF OpToRel
<1>3. \A y \in T : x <= y
  BY <1>2
<1> QED
  BY <1>3 DEF Min

\* The greatest member of a set of integers, if there is one.
LEMMA GreatestIn ==
  ASSUME NEW T \in SUBSET Int, NEW x \in T, \A y \in T : y <= x
  PROVE  Max(T) = x
<1>1. Max(T) \in T /\ \A y \in T : Max(T) >= y
  <2>1. \E z \in T : \A y \in T : z >= y
    OBVIOUS
  <2> QED
    BY <2>1 DEF Max
<1>2. Max(T) >= x /\ Max(T) <= x /\ Max(T) \in Int
  BY <1>1
<1> QED
  BY <1>2

-----------------------------------------------------------------------------
IsInterval == schedule.every # None

\* The times a schedule is for, by definition: an interval's are counted from
\* what it fired for last.
Occurs(t) ==
  IF IsInterval THEN t > cursor.fired /\ (t - cursor.fired) % schedule.every = 0
                ELSE t \in schedule.on

\* The schedule is an interval or a calendar, and the times of the daemon are
\* within the bound.
Times ==
  /\ schedule \in [every : Intervals, on : {{}}] \cup [every : {None}, on : Calendars]
  /\ clock \in 0..MaxTime /\ now \in 0..MaxTime
  /\ cursor # None => cursor.checked \in Nat /\ cursor.fired \in Nat

Fields == {"start", "after", "anchor", "latest", "walked", "passes"}

\* The locals of due.
IsWalk(w) ==
  /\ DOMAIN w = Fields
  /\ w.start \in Int /\ w.after \in Int /\ w.start <= w.after
  /\ w.anchor \in Nat /\ w.walked \in Nat /\ w.passes \in Nat
  /\ w.latest # None => w.latest \in Nat

\* A walk is on from what was checked; what it came to last has occurred since
\* then, and is not ahead of it.
Since ==
  stage # "idle" =>
    /\ cursor # None /\ IsWalk(walk) /\ cursor.checked <= walk.after
    /\ walk.latest # None =>
         /\ Occurs(walk.latest) /\ cursor.checked < walk.latest
         /\ walk.latest <= now /\ walk.latest <= walk.after

\* How an interval's walk goes on: its anchor is the occurrence it came to last
\* or else what was fired for; an occurrence takes it one interval on, so that
\* a pass that ran out went over at least all but one of its intervals, and a
\* pass that does not start behind its anchor over no more than that many.  The
\* stretch left to the third pass is no more than half of that.
Pace ==
  IsInterval /\ stage # "idle" =>
    /\ walk.walked <= MissedWalk
    /\ walk.anchor = IF walk.latest = None THEN cursor.fired ELSE walk.latest
    /\ walk.walked = 0 => walk.after = walk.start
    /\ walk.walked > 0 => /\ walk.latest # None /\ walk.after = walk.anchor
                          /\ walk.after >= walk.start + (walk.walked - 1) * schedule.every + 1
    /\ walk.walked = 0 /\ walk.passes = 0 => walk.latest = None
    /\ walk.passes > 0 => /\ walk.after >= walk.anchor
                          /\ walk.after <= walk.start + walk.walked * schedule.every
    /\ walk.passes > 1 => 2 * (now - walk.start) <= MissedWalk * schedule.every

\* Nothing was fired for a time after the cursor's.
Behind == IsInterval => \A u \in fires : cursor # None /\ u \in Nat /\ u <= cursor.fired

IInv == Times /\ Since /\ Pace /\ Behind

-----------------------------------------------------------------------------
(* The next occurrence *)

\* The interval, where there is one.
LEMMA IntervalType ==
  ASSUME Times, IsInterval
  PROVE  schedule.every \in Nat \ {0}
  BY ScheduleAssumption DEF Times, IsInterval

\* An interval's occurrences are the multiples of it after what was fired.
LEMMA OccursAt ==
  ASSUME Times, IsInterval, cursor # None, NEW t \in Int
  PROVE  Occurs(t) <=> t > cursor.fired /\ \E k \in Int : t = cursor.fired + k * schedule.every
<1>1. PICK e, f : e = schedule.every /\ f = cursor.fired
  OBVIOUS
<1>2. e \in Nat \ {0} /\ f \in Nat /\ t - f \in Int
  BY <1>1, IntervalType DEF Times
<1>3. (t - f) % e = 0 <=> \E k \in Int : t - f = k * e
  BY <1>2, Multiple
<1>4. \A k \in Int : k * e \in Int /\ (t - f = k * e <=> t = f + k * e)
  BY <1>2
<1> QED
  BY <1>1, <1>3, <1>4 DEF Occurs

\* next_after of an interval counts whole intervals from its anchor, at least
\* one and no more than it must.
LEMMA EveryIsNext ==
  ASSUME Times, IsInterval, NEW from \in Int, NEW anchor \in Nat
  PROVE  \E j \in Nat \ {0} :
           /\ NextAfter(from, anchor) = anchor + j * schedule.every
           /\ anchor + j * schedule.every > from
           /\ anchor <= from => anchor + j * schedule.every - schedule.every <= from
           /\ anchor > from => j = 1
<1>1. PICK e : e = schedule.every
  OBVIOUS
<1>2. e \in Nat \ {0} /\ anchor # None
  BY <1>1, IntervalType, ScheduleAssumption
<1>3. NextAfter(from, anchor)
        = anchor + (IF from < anchor THEN 1 ELSE ((from - anchor) \div e) + 1) * e
  BY <1>1, <1>2 DEF NextAfter, EveryAfter, IsInterval
<1>4. CASE from < anchor
  <2>1. NextAfter(from, anchor) = anchor + 1 * e /\ anchor + 1 * e > from
    BY <1>2, <1>3, <1>4
  <2> QED
    BY <1>1, <1>2, <1>4, <2>1
<1>5. CASE ~(from < anchor)
  <2>1. PICK n, r : n = (from - anchor) \div e /\ r = (from - anchor) % e
    OBVIOUS
  <2>2. n \in Int /\ r \in Int /\ n * e \in Int /\ 0 <= r /\ r < e /\ from - anchor = n * e + r
    BY <1>2, <2>1, Division
  <2>3. n \in Nat
    BY <1>2, <1>5, <2>1
  <2>4. PICK j : j = n + 1
    OBVIOUS
  <2>5. j \in Nat \ {0} /\ j * e = n * e + e
    BY <1>2, <2>2, <2>3, <2>4
  <2>6. NextAfter(from, anchor) = anchor + j * e
    BY <1>3, <1>5, <2>1, <2>4
  <2>7. anchor + j * e > from /\ anchor + j * e - e <= from
    BY <1>2, <2>2, <2>5
  <2> QED
    BY <1>1, <1>5, <2>5, <2>6, <2>7
<1> QED
  BY <1>4, <1>5

\* What a walk of an interval looks at next occurs, is an interval or more after
\* the anchor, not more than one after where the walk is, and is the first.
LEMMA NextOfInterval ==
  ASSUME IInv, IsInterval, stage # "idle"
  PROVE  LET n == NextAfter(walk.after, walk.anchor) IN
         /\ n \in Nat /\ n > walk.after /\ n >= walk.anchor + schedule.every /\ Occurs(n)
         /\ walk.anchor <= walk.after => n <= walk.after + schedule.every
         /\ \A o \in Int : Occurs(o) /\ o > walk.after => o >= n
<1>1. PICK e, f, a, w, n : /\ e = schedule.every /\ f = cursor.fired /\ a = walk.anchor /\ w = walk.after
                           /\ n = NextAfter(walk.after, walk.anchor)
  OBVIOUS
<1>2. /\ e \in Nat \ {0} /\ f \in Nat /\ a \in Nat /\ w \in Int /\ cursor # None
  BY <1>1, IntervalType DEF IInv, Times, Since, IsWalk
<1>3. PICK j \in Nat \ {0} : /\ n = a + j * e /\ a + j * e > w
                             /\ a <= w => a + j * e - e <= w
                             /\ a > w => j = 1
  <2>1. n = NextAfter(w, a) /\ Times
    BY <1>1 DEF IInv
  <2>2. PICK i : /\ i \in Nat \ {0} /\ NextAfter(w, a) = a + i * e /\ a + i * e > w
                 /\ a <= w => a + i * e - e <= w
                 /\ a > w => i = 1
    BY <1>1, <1>2, <2>1, EveryIsNext
  <2>3. n = a + i * e
    BY <2>1, <2>2
  <2> QED
    BY <2>2, <2>3
<1>4. PICK k \in Nat : a = f + k * e /\ (a > w => k = 0)
  <2>1. CASE walk.latest = None
    <3>1. a = f + 0 * e
      BY <1>1, <1>2, <2>1 DEF IInv, Pace
    <3> QED
      BY <3>1
  <2>2. CASE walk.latest # None
    <3>1. a = walk.latest /\ Occurs(a) /\ a <= w
      BY <1>1, <2>2 DEF IInv, Pace, Since
    <3>2. PICK k \in Int : a > f /\ a = f + k * e
      BY <1>1, <1>2, <3>1, OccursAt DEF IInv
    <3>3. ~(k < 0)
      <4>1. k < 0 => k * e + e <= 0 * e
        BY <1>2, Products
      <4> QED
        BY <1>2, <3>2, <4>1
    <3>4. k \in Nat
      BY <3>3
    <3> QED
      BY <1>2, <3>1, <3>2, <3>4
  <2> QED
    BY <2>1, <2>2
<1>5. n = f + (k + j) * e /\ k + j \in Int /\ j * e >= e /\ j * e \in Int /\ k * e \in Nat
  <2>1. j * e \in Int /\ k * e \in Nat /\ (k + j) * e = k * e + j * e
    BY <1>2
  <2>2. 0 * e + e <= j * e
    BY <1>2, Products
  <2> QED
    BY <1>2, <1>3, <1>4, <2>1, <2>2
<1>6. n \in Nat /\ n > f /\ n >= a + e
  BY <1>2, <1>3, <1>4, <1>5
<1>7. Occurs(n)
  BY <1>1, <1>2, <1>5, <1>6, OccursAt DEF IInv
<1>8. ASSUME NEW o \in Int, Occurs(o), o > w PROVE o >= n
  <2>1. PICK i \in Int : o > f /\ o = f + i * e
    BY <1>1, <1>2, <1>8, OccursAt DEF IInv
  <2>2. CASE i < k + j
    <3>1. i * e + e <= (k + j) * e /\ i * e \in Int /\ (k + j) * e \in Int
      BY <1>2, <1>5, <2>2, Products
    <3>2. o + e <= n
      BY <1>2, <1>5, <2>1, <3>1
    <3>3. a > w
      BY <1>2, <1>3, <1>6, <1>8, <3>2
    <3>4. n = f + e
      BY <1>2, <1>3, <1>4, <3>3
    <3> QED
      BY <1>2, <2>1, <3>2, <3>4
  <2>3. CASE ~(i < k + j)
    <3>1. i = k + j \/ k + j < i
      BY <1>5, <2>3
    <3>2. k + j < i => (k + j) * e + e <= i * e /\ i * e \in Int /\ (k + j) * e \in Int
      BY <1>2, <1>5, Products
    <3> QED
      BY <1>2, <1>5, <1>6, <2>1, <3>1, <3>2
  <2> QED
    BY <2>2, <2>3
<1>9. a <= w => n <= w + e
  BY <1>2, <1>3, <1>6
<1> QED
  BY <1>1, <1>3, <1>6, <1>7, <1>8, <1>9

\* What a walk comes to is the first occurrence after where it is; where it
\* comes to none, there is none up to now.
LEMMA FoundIsNext ==
  ASSUME IInv, stage # "idle"
  PROVE  /\ Found # None => Found \in Nat /\ Found > walk.after /\ Found <= now /\ Occurs(Found)
         /\ Found = None => \A o \in Int : Occurs(o) /\ o > walk.after => o > now
<1>1. walk.after \in Int /\ now \in Nat /\ None \notin Nat
  BY ScheduleAssumption DEF IInv, Times, Since, IsWalk
<1>2. CASE IsInterval
  <2>1. PICK n : n = NextAfter(walk.after, walk.anchor)
    OBVIOUS
  <2>2. /\ n \in Nat /\ n > walk.after /\ Occurs(n)
        /\ \A o \in Int : Occurs(o) /\ o > walk.after => o >= n
    BY <1>2, <2>1, NextOfInterval
  <2>3. Found = IF n > now THEN None ELSE n
    BY <1>1, <2>1, <2>2 DEF Found
  <2> QED
    BY <1>1, <2>2, <2>3
<1>3. CASE ~IsInterval
  <2>1. PICK T : T = {o \in schedule.on : o > walk.after}
    OBVIOUS
  <2>2. T \subseteq Nat /\ \A o : o \in T <=> Occurs(o) /\ o > walk.after
    BY <1>3, <2>1, ScheduleAssumption DEF IInv, Times, IsInterval, Occurs
  <2>3. CASE T = {}
    <3>1. Found = None
      BY <1>3, <2>1, <2>3 DEF Found, NextAfter, IsInterval
    <3> QED
      BY <2>2, <2>3, <3>1
  <2>4. CASE T # {}
    <3>1. PICK n : n = Min(T)
      OBVIOUS
    <3>2. n \in T /\ \A y \in T : n <= y
      BY <2>2, <2>4, <3>1, LeastIn
    <3>3. NextAfter(walk.after, walk.anchor) = n
      BY <1>3, <2>1, <2>4, <3>1 DEF NextAfter, IsInterval
    <3>4. n \in Nat /\ n # None
      BY <1>1, <2>2, <3>2
    <3>5. Found = IF n > now THEN None ELSE n
      BY <3>3, <3>4 DEF Found
    <3> QED
      BY <1>1, <2>2, <3>2, <3>4, <3>5
  <2> QED
    BY <2>3, <2>4
<1> QED
  BY <1>2, <1>3

-----------------------------------------------------------------------------
(* What the three assignments to a walk leave in it. *)

\* The walk a check begins with.
LEMMA Begun ==
  ASSUME NEW c \in Nat, NEW f \in Nat
  PROVE  LET w == [NoWalk EXCEPT !.start = c, !.after = c, !.anchor = f] IN
         /\ IsWalk(w) /\ w.latest = None
         /\ w.start = c /\ w.after = c /\ w.anchor = f /\ w.walked = 0 /\ w.passes = 0
  BY DEF IsWalk, Fields, NoWalk

\* A walk one occurrence on.
LEMMA CameTo ==
  ASSUME NEW w, IsWalk(w), NEW f \in Nat, f > w.after
  PROVE  LET v == [w EXCEPT !.latest = f, !.after = f, !.anchor = f, !.walked = @ + 1] IN
         /\ IsWalk(v) /\ v.latest = f /\ v.after = f /\ v.anchor = f /\ v.walked = w.walked + 1
         /\ v.start = w.start /\ v.passes = w.passes
  BY DEF IsWalk, Fields

\* A walk that is to go on from another place.
LEMMA Moved ==
  ASSUME NEW w, IsWalk(w), NEW on \in Int
  PROVE  LET v == [w EXCEPT !.passes = @ + 1, !.walked = 0, !.start = on, !.after = on] IN
         /\ IsWalk(v) /\ v.start = on /\ v.after = on /\ v.walked = 0 /\ v.passes = w.passes + 1
         /\ v.anchor = w.anchor /\ v.latest = w.latest
  BY DEF IsWalk, Fields

-----------------------------------------------------------------------------
(* One lemma per action *)

\* A trigger that starts counting has fired for nothing.
LEMMA StartCountingIInv == ASSUME IInv, StartCounting PROVE IInv'
<1>1. stage' = "idle" /\ clock \in Nat
  BY DEF StartCounting, IInv, Times
<1>2. Times'
  BY <1>1 DEF StartCounting, IInv, Times
<1>3. Behind'
  BY DEF StartCounting, IInv, Behind, IsInterval
<1> QED
  BY <1>1, <1>2, <1>3 DEF IInv, Since, Pace

\* A check counts from the cursor.
LEMMA CheckIInv == ASSUME IInv, Check PROVE IInv'
<1>1. /\ cursor # None /\ cursor' = cursor /\ schedule' = schedule /\ stage' # "idle"
      /\ cursor.checked \in Nat /\ cursor.fired \in Nat
  BY DEF Check, IInv, Times
<1>2. PICK w : w = [NoWalk EXCEPT !.start = cursor.checked, !.after = cursor.checked,
                                  !.anchor = cursor.fired]
  OBVIOUS
<1>3. walk' = w
  BY <1>2 DEF Check
<1>4. /\ IsWalk(w) /\ w.latest = None
      /\ w.start = cursor.checked /\ w.after = cursor.checked /\ w.anchor = cursor.fired
      /\ w.walked = 0 /\ w.passes = 0
  BY <1>1, <1>2, Begun
<1>5. Times' /\ Behind'
  BY DEF Check, IInv, Times, Behind, IsInterval
<1>6. Since'
  BY <1>1, <1>3, <1>4 DEF Since, IsWalk
<1>7. Pace'
  BY <1>1, <1>3, <1>4, ScheduleAssumption DEF Pace
<1> QED
  BY <1>5, <1>6, <1>7 DEF IInv

\* One more occurrence is at most an interval on from where the walk is, and at
\* least one from the occurrence before.
LEMMA WalkOnIInv == ASSUME IInv, WalkOn PROVE IInv'
<1>1. /\ cursor # None /\ cursor' = cursor /\ schedule' = schedule /\ now' = now
      /\ stage # "idle" /\ stage' = stage /\ IsWalk(walk) /\ cursor.checked <= walk.after
      /\ cursor.checked \in Nat /\ cursor.fired \in Nat /\ now \in Nat /\ walk.walked < MissedWalk
  BY DEF WalkOn, IInv, Times, Since
<1>2. PICK f : f = Found
  OBVIOUS
<1>3. f \in Nat /\ f > walk.after /\ f <= now /\ Occurs(f) /\ f # None
  BY <1>1, <1>2, FoundIsNext DEF WalkOn
<1>4. PICK w : w = [walk EXCEPT !.latest = f, !.after = f, !.anchor = f, !.walked = @ + 1]
  OBVIOUS
<1>5. walk' = w
  BY <1>2, <1>4 DEF WalkOn
<1>6. /\ IsWalk(w) /\ w.latest = f /\ w.after = f /\ w.anchor = f /\ w.walked = walk.walked + 1
      /\ w.start = walk.start /\ w.passes = walk.passes
  <2>1. PICK v : v = walk
    OBVIOUS
  <2>2. IsWalk(v) /\ f > v.after /\ f \in Nat
    BY <1>1, <1>3, <2>1
  <2>3. w = [v EXCEPT !.latest = f, !.after = f, !.anchor = f, !.walked = @ + 1]
    BY <1>4, <2>1
  <2>4. /\ IsWalk(w) /\ w.latest = f /\ w.after = f /\ w.anchor = f /\ w.walked = v.walked + 1
        /\ w.start = v.start /\ w.passes = v.passes
    BY <2>2, <2>3, CameTo
  <2> QED
    BY <2>1, <2>4
<1>7. Times' /\ Behind'
  BY DEF WalkOn, IInv, Times, Behind, IsInterval
<1>8. Occurs(f)'
  BY <1>1, <1>3 DEF Occurs, IsInterval
<1>9. Since'
  <2>1. cursor.checked < f
    BY <1>1, <1>3 DEF IsWalk
  <2> QED
    BY <1>1, <1>3, <1>5, <1>6, <1>8, <2>1 DEF Since, IsWalk
<1>10. ASSUME IsInterval PROVE Pace'
  <2>1. PICK e, s, a, n, p : /\ e = schedule.every /\ s = walk.start /\ a = walk.after
                             /\ n = walk.walked /\ p = walk.passes
    OBVIOUS
  <2>2. /\ e \in Nat \ {0} /\ s \in Int /\ a \in Int /\ n \in Nat /\ p \in Nat /\ s <= a
        /\ MissedWalk \in Nat /\ n < MissedWalk
    BY <1>1, <1>10, <2>1, IntervalType, ScheduleAssumption DEF IInv, IsWalk
  <2>3. f = NextAfter(walk.after, walk.anchor)
    BY <1>2, <1>3 DEF Found
  <2>4. /\ f >= walk.anchor + e /\ walk.anchor \in Nat
        /\ walk.anchor <= a => f <= a + e
    BY <1>1, <1>10, <2>1, <2>3, NextOfInterval DEF IsWalk
  <2>5. n > 0 => a >= s + (n - 1) * e + 1 /\ walk.anchor = a
    BY <1>1, <1>10, <2>1 DEF IInv, Pace
  <2>6. f >= s + ((n + 1) - 1) * e + 1
    <3>1. CASE n = 0
      BY <1>1, <1>3, <1>10, <2>1, <2>2, <3>1 DEF IInv, Pace
    <3>2. CASE n > 0
      <4>1. n * e = (n - 1) * e + e /\ n * e \in Int /\ (n - 1) * e \in Int
        BY <2>2
      <4> QED
        BY <1>3, <2>2, <2>4, <2>5, <3>2, <4>1
    <3> QED
      BY <2>2, <3>1, <3>2
  <2>7. p > 0 => f <= s + (n + 1) * e
    <3>1. p > 0 => walk.anchor <= a /\ a <= s + n * e
      BY <1>1, <1>10, <2>1, <2>2, <2>4 DEF IInv, Pace
    <3>2. (n + 1) * e = n * e + e /\ n * e \in Int
      BY <2>2
    <3> QED
      BY <1>3, <2>2, <2>4, <3>1, <3>2
  <2>8. p > 1 => 2 * (now - s) <= MissedWalk * e
    BY <1>1, <1>10, <2>1 DEF IInv, Pace
  <2>9. /\ walk'.walked = n + 1 /\ walk'.start = s /\ walk'.passes = p /\ walk'.latest = f
        /\ walk'.after = f /\ walk'.anchor = f /\ schedule'.every = e
    BY <1>1, <1>5, <1>6, <2>1
  <2>10. n + 1 <= MissedWalk /\ n + 1 # 0
    BY <2>2
  <2> QED
    BY <1>1, <1>3, <2>2, <2>6, <2>7, <2>8, <2>9, <2>10 DEF Pace
<1> QED
  BY <1>1, <1>7, <1>9, <1>10 DEF IInv, Pace, IsInterval

\* A pass that ran out restarts no nearer to now than half of what it went over,
\* and not before where it came to.
LEMMA RestartIInv == ASSUME IInv, Restart PROVE IInv'
<1>1. /\ cursor # None /\ cursor' = cursor /\ schedule' = schedule /\ now' = now
      /\ stage # "idle" /\ IsWalk(walk) /\ cursor.checked <= walk.after
      /\ cursor.checked \in Nat /\ cursor.fired \in Nat /\ now \in Nat /\ walk.walked = MissedWalk
      /\ MissedWalk \in Nat \ {0}
  BY ScheduleAssumption DEF Restart, IInv, Times, Since
<1>2. PICK s, a, on, h : /\ s = walk.start /\ a = walk.after
                         /\ h = (a - s) \div 2 /\ on = a + Skip(now - a, a - s)
  OBVIOUS
<1>3. s \in Int /\ a \in Int /\ s <= a /\ h \in Nat /\ 2 * h <= a - s
  BY <1>1, <1>2 DEF IsWalk
<1>4. on \in Int /\ on >= a /\ (on = a => now - on <= h) /\ (on # a => now - on = h)
  BY <1>1, <1>2, <1>3 DEF Skip
<1>5. PICK w : w = [walk EXCEPT !.passes = @ + 1, !.walked = 0, !.start = on, !.after = on]
  OBVIOUS
<1>6. walk' = w
  BY <1>2, <1>5 DEF Restart
<1>7. /\ IsWalk(w) /\ w.start = on /\ w.after = on /\ w.walked = 0 /\ w.passes = walk.passes + 1
      /\ w.anchor = walk.anchor /\ w.latest = walk.latest
  <2>1. PICK v : v = walk
    OBVIOUS
  <2>2. IsWalk(v) /\ w = [v EXCEPT !.passes = @ + 1, !.walked = 0, !.start = on, !.after = on]
    BY <1>1, <1>5, <2>1
  <2>3. /\ IsWalk(w) /\ w.start = on /\ w.after = on /\ w.walked = 0 /\ w.passes = v.passes + 1
        /\ w.anchor = v.anchor /\ w.latest = v.latest
    BY <1>4, <2>2, Moved
  <2> QED
    BY <2>1, <2>3
<1>8. Times' /\ Behind'
  BY DEF Restart, IInv, Times, Behind, IsInterval
<1>9. stage' # "idle"
  BY DEF Restart
<1>10. Since'
  <2>1. cursor.checked <= on
    BY <1>1, <1>2, <1>3, <1>4
  <2>2. ASSUME walk.latest # None
        PROVE  /\ Occurs(walk.latest)' /\ cursor.checked < walk.latest
               /\ walk.latest <= now /\ walk.latest <= on
    <3>1. /\ Occurs(walk.latest) /\ cursor.checked < walk.latest
          /\ walk.latest <= now /\ walk.latest <= a /\ walk.latest \in Nat
      BY <1>1, <1>2, <2>2 DEF IInv, Since, IsWalk
    <3>2. walk'.latest = walk.latest
      BY <1>6, <1>7
    <3>3. Occurs(walk.latest)'
      BY <1>1, <3>1, <3>2 DEF Occurs, IsInterval
    <3> QED
      BY <1>3, <1>4, <3>1, <3>3
  <2> QED
    BY <1>1, <1>6, <1>7, <1>9, <2>1, <2>2 DEF Since, IsWalk, Occurs, IsInterval
<1>11. ASSUME IsInterval PROVE Pace'
  <2>1. PICK e, p : e = schedule.every /\ p = walk.passes
    OBVIOUS
  <2>2. e \in Nat \ {0} /\ p \in Nat /\ walk.anchor \in Nat
    BY <1>1, <1>11, <2>1, IntervalType DEF IInv, IsWalk
  <2>3. /\ walk.latest # None /\ walk.anchor = a
        /\ walk.anchor = IF walk.latest = None THEN cursor.fired ELSE walk.latest
    BY <1>1, <1>2, <1>11 DEF IInv, Pace
  <2>4. p > 0 => a <= s + MissedWalk * e
    BY <1>1, <1>2, <1>11, <2>1 DEF IInv, Pace
  <2>5. p + 1 > 1 => 2 * (now - on) <= MissedWalk * e
    <3>1. MissedWalk * e \in Int
      BY <1>1, <2>2
    <3> QED
      BY <1>1, <1>3, <1>4, <2>2, <2>4, <3>1
  <2>6. 0 * e = 0
    BY <2>2
  <2>7. /\ walk'.walked = 0 /\ walk'.start = on /\ walk'.passes = p + 1 /\ walk'.latest = walk.latest
        /\ walk'.after = on /\ walk'.anchor = walk.anchor /\ schedule'.every = e
    BY <1>1, <1>6, <1>7, <2>1
  <2> QED
    BY <1>1, <1>3, <1>4, <2>2, <2>3, <2>5, <2>6, <2>7 DEF Pace
<1> QED
  BY <1>1, <1>8, <1>10, <1>11 DEF IInv, Pace, IsInterval

\* The walk as it was left is what Fire reads.
LEMMA WalkOverIInv == ASSUME IInv, WalkOver PROVE IInv'
<1>1. stage # "idle" /\ stage' # "idle" /\ UNCHANGED <<schedule, clock, cursor, now, walk, fires>>
  BY DEF WalkOver
<1>2. Times' /\ Behind'
  BY <1>1 DEF IInv, Times, Behind, IsInterval
<1>3. Since'
  BY <1>1 DEF IInv, Since, IsWalk, Occurs, IsInterval
<1>4. Pace'
  BY <1>1 DEF IInv, Pace, IsInterval
<1> QED
  BY <1>2, <1>3, <1>4 DEF IInv

\* What is fired is after all that was fired, and becomes the cursor's.
LEMMA FireIInv ==
  ASSUME IInv, Fire
  PROVE  IInv' /\ (IsInterval => \A t \in fires' \ fires, u \in fires : t > u)
<1>1. /\ cursor # None /\ cursor.fired \in Nat /\ now \in 0..MaxTime /\ now \in Nat
      /\ walk.latest = None \/ (walk.latest \in Nat /\ Occurs(walk.latest))
  BY ScheduleAssumption DEF Fire, IInv, Times, Since, IsWalk
<1>2. IsInterval => walk.latest = None \/ walk.latest > cursor.fired
  BY <1>1 DEF Occurs
<1>3. /\ cursor'.checked = now
      /\ cursor'.fired = IF walk.latest = None THEN cursor.fired ELSE walk.latest
  BY DEF Fire, NewCursor
<1>4. cursor' # None
  BY <1>1, <1>3, ScheduleAssumption DEF Fire, NewCursor
<1>5. ASSUME IsInterval PROVE \A t \in fires' \ fires, u \in fires : t > u
  <2>1. \A u \in fires : u \in Nat /\ u <= cursor.fired
    BY <1>5 DEF IInv, Behind
  <2>2. \A t \in fires' \ fires : t = walk.latest /\ walk.latest # None
    BY DEF Fire
  <2> QED
    BY <1>1, <1>2, <1>5, <2>1, <2>2
<1>6. Times'
  <2>1. 0 \in 0..MaxTime
    BY ScheduleAssumption
  <2> QED
    BY <1>1, <1>3, <2>1 DEF Fire, IInv, Times
<1>7. Since' /\ Pace'
  BY DEF Fire, Since, Pace
<1>8. Behind'
  <2>1. SUFFICES ASSUME IsInterval, NEW u \in fires'
                 PROVE  u \in Nat /\ u <= cursor'.fired
    BY <1>4 DEF Behind, Fire, IsInterval
  <2>2. u \in fires \/ (u = walk.latest /\ walk.latest # None)
    BY DEF Fire
  <2> QED
    BY <1>1, <1>2, <1>3, <2>1, <2>2 DEF IInv, Behind
<1> QED
  BY <1>5, <1>6, <1>7, <1>8 DEF IInv

\* Time that passes, or is set back, touches neither cursor nor walk.
LEMMA ClockIInv == ASSUME IInv, Pass \/ SetBack PROVE IInv'
<1>1. clock' \in 0..MaxTime
  BY ScheduleAssumption DEF Pass, SetBack, IInv, Times
<1>2. stage' = "idle" /\ UNCHANGED <<schedule, cursor, now, fires>>
  BY DEF Pass, SetBack
<1> QED
  BY <1>1, <1>2 DEF IInv, Times, Since, Pace, Behind, IsInterval

\* An interval starts with nothing fired.
LEMMA InitIInv == ASSUME Init PROVE IInv
<1>1. clock \in 0..MaxTime /\ now \in 0..MaxTime
  BY ScheduleAssumption DEF Init
<1> QED
  BY <1>1 DEF Init, IInv, Times, Since, Pace, Behind

\* Every step keeps the invariant, and what it fires is later than all before.
LEMMA NextIInv ==
  ASSUME IInv, [Next]_vars
  PROVE  IInv' /\ (IsInterval => \A t \in fires' \ fires, u \in fires : t > u)
<1>1. CASE Fire
  BY <1>1, FireIInv
<1>2. CASE Check \/ WalkOn \/ Restart \/ WalkOver \/ StartCounting \/ Pass \/ SetBack
  <2>1. IInv'
    BY <1>2, CheckIInv, WalkOnIInv, RestartIInv, WalkOverIInv, StartCountingIInv, ClockIInv
  <2>2. fires' = fires
    BY <1>2 DEF Check, WalkOn, Restart, WalkOver, StartCounting, Pass, SetBack
  <2> QED
    BY <2>1, <2>2
<1>3. CASE UNCHANGED vars
  <2>1. UNCHANGED <<schedule, clock, cursor, now, walk, stage, fires>>
    BY <1>3 DEF vars
  <2>2. IInv'
    BY <2>1 DEF IInv, Times, Since, Pace, Behind, IsInterval, IsWalk, Occurs
  <2> QED
    BY <2>1, <2>2
<1> QED
  BY <1>1, <1>2, <1>3 DEF Next, Checking

\* The times of the daemon are numbers, a walk keeps its pace, and the cursor is
\* at the last time fired for (daemon.rs schedule, set_cursor; due).
THEOREM CursorIsLast == Spec => []IInv
<1>1. Init => IInv
  BY InitIInv
<1>2. IInv /\ [Next]_vars => IInv'
  BY NextIInv
<1> QED
  BY <1>1, <1>2, PTL DEF Spec

\* Whatever the interval, however long the daemon was away and however often
\* the clock is set back, an interval fires for later and later times
\* (next_after, due).
THEOREM IntervalsFireForward == Spec => FiresForward
<1>1. IInv /\ [Next]_vars
        => [schedule.every # None => \A t \in fires' \ fires, u \in fires : t > u]_vars
  BY NextIInv DEF IsInterval
<1> QED
  BY <1>1, CursorIsLast, PTL DEF Spec, FiresForward

-----------------------------------------------------------------------------
(* The latest missed occurrence *)

\* Limits under which a walk over an interval's occurrences comes to the last:
\* half of a pass has to hold one of them, and the third pass has to be its
\* last (MISSED_WALK is 10000, MISSED_PASSES 32).
Enough == MissedWalk >= 3 /\ MissedPasses >= 3

\* The walks that come to the last occurrence.
Reaches == (IsInterval /\ Enough) \/ walk.passes = 0

\* Such a walk is at the last occurrence it came to, or still where it began, or
\* has skipped to a place from which there is another to come to.
Complete ==
  stage # "idle" /\ Reaches =>
    \/ walk.latest = None /\ walk.after = cursor.checked
    \/ walk.latest # None /\ walk.after = walk.latest
    \/ stage = "walk" /\ walk.walked = 0 /\ Found # None

\* It ends where there is none up to now.
Over == stage = "fire" /\ Reaches => Found = None

LInv == IInv /\ Complete /\ Over

\* The pass of an interval that ran out was the first or the second, and half
\* of what it went over is an interval at least.
LEMMA RanOut ==
  ASSUME IInv, Restart, IsInterval, Enough
  PROVE  walk.passes < 2 /\ (walk.after - walk.start) \div 2 >= schedule.every
<1>1. PICK e, s, a, p : e = schedule.every /\ s = walk.start /\ a = walk.after /\ p = walk.passes
  OBVIOUS
<1>2. /\ e \in Nat \ {0} /\ s \in Int /\ a \in Int /\ p \in Nat /\ now \in Nat /\ stage # "idle"
      /\ MissedWalk \in Nat /\ MissedWalk >= 3 /\ walk.walked = MissedWalk
  BY <1>1, IntervalType, ScheduleAssumption DEF IInv, Times, Since, IsWalk, Restart, Enough
<1>3. /\ walk.latest # None /\ a >= s + (MissedWalk - 1) * e + 1
      /\ a = walk.latest
      /\ p > 1 => 2 * (now - s) <= MissedWalk * e
  BY <1>1, <1>2 DEF IInv, Pace
<1>4. a <= now
  BY <1>2, <1>3 DEF IInv, Since
<1>5. PICK x : x = MissedWalk * e
  OBVIOUS
<1>6. x \in Int /\ x >= 3 * e /\ (MissedWalk - 1) * e = x - e
  <2>1. 2 * e + e <= MissedWalk * e
    BY <1>2, Products
  <2>2. x \in Int /\ (MissedWalk - 1) * e = x - e
    BY <1>2, <1>5
  <2> QED
    BY <1>2, <1>5, <2>1, <2>2
<1>7. p < 2
  BY <1>2, <1>3, <1>4, <1>5, <1>6
<1>8. (a - s) \div 2 >= e
  BY <1>2, <1>3, <1>6
<1> QED
  BY <1>1, <1>7, <1>8

\* A pass that ran out goes on from where it came to, or from a place an
\* interval or more before now.
LEMMA RestartLInv == ASSUME LInv, Restart PROVE LInv'
<1>1. IInv'
  BY RestartIInv DEF LInv
<1>2. /\ cursor' = cursor /\ schedule' = schedule /\ now' = now /\ stage # "idle"
      /\ IsWalk(walk) /\ now \in Nat /\ walk.walked = MissedWalk /\ MissedWalk \in Nat \ {0}
  BY ScheduleAssumption DEF LInv, Restart, IInv, Times, Since
<1>3. PICK v, s, a, on, h : /\ v = walk /\ s = walk.start /\ a = walk.after
                            /\ h = (a - s) \div 2 /\ on = a + Skip(now - a, a - s)
  OBVIOUS
<1>4. s \in Int /\ a \in Int /\ s <= a /\ h \in Nat
  BY <1>2, <1>3 DEF IsWalk
<1>5. on \in Int /\ on >= a /\ (on # a => now - on = h)
  BY <1>2, <1>3, <1>4 DEF Skip
<1>6. walk' = [v EXCEPT !.passes = @ + 1, !.walked = 0, !.start = on, !.after = on]
  BY <1>3 DEF Restart
<1>7. PICK w : w = [v EXCEPT !.passes = @ + 1, !.walked = 0, !.start = on, !.after = on]
  OBVIOUS
<1>8. /\ w.start = on /\ w.after = on /\ w.walked = 0 /\ w.passes = v.passes + 1
      /\ w.anchor = v.anchor /\ w.latest = v.latest
  <2>1. IsWalk(v)
    BY <1>2, <1>3
  <2> QED
    BY <1>5, <1>7, <2>1, Moved
<1>9. /\ walk'.after = on /\ walk'.walked = 0 /\ walk'.passes = walk.passes + 1
      /\ walk'.anchor = walk.anchor /\ walk'.latest = walk.latest /\ walk.passes \in Nat
  BY <1>2, <1>3, <1>6, <1>7, <1>8 DEF IsWalk
<1>10. Reaches' => IsInterval /\ Enough
  BY <1>2, <1>9 DEF Reaches, IsInterval, Enough
<1>11. SUFFICES ASSUME IsInterval, Enough PROVE Complete' /\ Over'
  BY <1>1, <1>10 DEF LInv, Complete, Over
<1>12. walk.passes < 2 /\ h >= schedule.every
  BY <1>3, <1>11, RanOut DEF LInv
<1>13. stage' = "walk"
  BY <1>9, <1>11, <1>12 DEF Restart, Enough
<1>14. walk.latest # None /\ walk.after = walk.latest /\ walk.anchor = a /\ a \in Nat
  BY <1>2, <1>3, <1>11 DEF LInv, IInv, Pace, IsWalk
<1>15. CASE on = a
  BY <1>3, <1>9, <1>13, <1>14, <1>15 DEF Complete, Over
<1>16. CASE on # a
  <2>1. PICK n, e : n = NextAfter(on, a) /\ e = schedule.every
    OBVIOUS
  <2>2. n \in Int /\ n <= now
    <3>1. Times /\ e \in Nat \ {0}
      BY <1>11, <2>1, IntervalType DEF LInv, IInv
    <3>2. PICK j \in Nat \ {0} : n = a + j * e /\ a + j * e - e <= on
      BY <1>5, <1>11, <1>14, <2>1, <3>1, EveryIsNext
    <3>3. j * e \in Int
      BY <3>1
    <3> QED
      BY <1>2, <1>4, <1>5, <1>12, <1>16, <2>1, <3>1, <3>2, <3>3
  <2>3. Found' = IF n = None \/ n > now THEN None ELSE n
    BY <1>2, <1>3, <1>9, <1>14, <2>1 DEF Found, NextAfter, EveryAfter
  <2>4. n \in Nat
    <3>1. n > on
      BY <1>5, <1>11, <1>14, <2>1, EveryIsNext DEF LInv, IInv
    <3> QED
      BY <1>4, <1>5, <1>14, <2>2, <3>1
  <2>5. Found' # None
    BY <1>2, <2>2, <2>3, <2>4, ScheduleAssumption
  <2> QED
    BY <1>9, <1>13, <2>5 DEF Complete, Over
<1> QED
  BY <1>15, <1>16

\* Every step of a walk keeps what it came to complete.
LEMMA NextLInv == ASSUME LInv, [Next]_vars PROVE LInv'
<1>1. IInv'
  BY NextIInv DEF LInv
<1>2. CASE Restart
  BY <1>2, RestartLInv
<1>3. CASE Check
  <2>1. /\ cursor.checked \in Nat /\ cursor.fired \in Nat /\ cursor' = cursor /\ stage' = "walk"
    BY <1>3 DEF Check, LInv, IInv, Times
  <2>2. PICK w : w = [NoWalk EXCEPT !.start = cursor.checked, !.after = cursor.checked,
                                    !.anchor = cursor.fired]
    OBVIOUS
  <2>3. w.latest = None /\ w.after = cursor.checked
    BY <2>1, <2>2, Begun
  <2>4. walk' = w
    BY <1>3, <2>2 DEF Check
  <2> QED
    BY <1>1, <2>1, <2>3, <2>4 DEF LInv, Complete, Over
<1>4. CASE WalkOn
  <2>1. stage # "idle" /\ stage' = "walk" /\ IsWalk(walk) /\ Found # None
    BY <1>4 DEF WalkOn, LInv, IInv, Since
  <2>2. PICK f, v : f = Found /\ v = walk
    OBVIOUS
  <2>3. f \in Nat /\ f > v.after /\ f # None /\ IsWalk(v)
    BY <2>1, <2>2, FoundIsNext DEF LInv
  <2>4. PICK w : w = [v EXCEPT !.latest = f, !.after = f, !.anchor = f, !.walked = @ + 1]
    OBVIOUS
  <2>5. w.latest = f /\ w.after = f
    BY <2>3, <2>4, CameTo
  <2>6. walk' = w
    BY <1>4, <2>2, <2>4 DEF WalkOn
  <2> QED
    BY <1>1, <2>1, <2>3, <2>5, <2>6 DEF LInv, Complete, Over
<1>5. CASE WalkOver
  <2>1. /\ UNCHANGED <<schedule, cursor, now, walk>> /\ stage = "walk" /\ stage' = "fire" /\ Found = None
    BY <1>5 DEF WalkOver
  <2>2. Found' = None /\ (Reaches' <=> Reaches)
    BY <2>1 DEF Found, NextAfter, EveryAfter, Reaches, IsInterval, Enough
  <2> QED
    BY <1>1, <2>1, <2>2 DEF LInv, Complete, Over
<1>6. CASE Fire \/ StartCounting \/ Pass \/ SetBack
  <2>1. stage' = "idle"
    BY <1>6 DEF Fire, StartCounting, Pass, SetBack
  <2> QED
    BY <1>1, <2>1 DEF LInv, Complete, Over
<1>7. CASE UNCHANGED vars
  <2>1. UNCHANGED <<schedule, cursor, now, walk, stage>>
    BY <1>7 DEF vars
  <2>2. Found' = Found /\ (Reaches' <=> Reaches)
    BY <2>1 DEF Found, NextAfter, EveryAfter, Reaches, IsInterval, Enough
  <2> QED
    BY <1>1, <2>1, <2>2 DEF LInv, Complete, Over
<1> QED
  BY <1>2, <1>3, <1>4, <1>5, <1>6, <1>7 DEF Next, Checking

\* A trigger starts idle.
LEMMA InitLInv == ASSUME Init PROVE LInv
  BY InitIInv DEF Init, LInv, Complete, Over

\* The occurrences up to now, by their definition and by the walk's.
LEMMA PassedAre ==
  ASSUME IInv, stage # "idle"
  PROVE  /\ Passed(cursor.checked, cursor.fired, now) \subseteq Int
         /\ \A t \in Int : t \in Passed(cursor.checked, cursor.fired, now)
                           <=> cursor.checked < t /\ t <= now /\ Occurs(t)
<1>1. cursor # None /\ cursor.checked \in Nat /\ cursor.fired \in Nat /\ now \in 0..MaxTime /\ MaxTime \in Nat
  BY ScheduleAssumption DEF IInv, Times, Since
<1>2. CASE IsInterval
  BY <1>1, <1>2 DEF Passed, Occurs, IsInterval
<1>3. CASE ~IsInterval
  <2>1. schedule.on \subseteq Nat
    BY <1>3, ScheduleAssumption DEF IInv, Times, IsInterval
  <2> QED
    BY <1>1, <1>3, <2>1 DEF Passed, Occurs, IsInterval
<1> QED
  BY <1>2, <1>3

\* A walk that has come to the last occurrence fires for it.
LEMMA LatestIsLast == ASSUME LInv, Reaches PROVE LatestMissed
<1>1. SUFFICES ASSUME stage = "fire"
               PROVE  walk.latest = IF Passed(cursor.checked, cursor.fired, now) = {} THEN None
                                    ELSE Max(Passed(cursor.checked, cursor.fired, now))
  BY DEF LatestMissed
<1>2. PICK P : P = Passed(cursor.checked, cursor.fired, now)
  OBVIOUS
<1>3. /\ P \subseteq Int
      /\ \A t \in Int : t \in P <=> cursor.checked < t /\ t <= now /\ Occurs(t)
  BY <1>1, <1>2, PassedAre DEF LInv
<1>4. \A o \in Int : Occurs(o) /\ o > walk.after => o > now
  BY <1>1, FoundIsNext DEF LInv, Over
<1>5. cursor.checked \in Nat /\ now \in Nat /\ IsWalk(walk) /\ cursor # None
  BY <1>1, ScheduleAssumption DEF LInv, IInv, Times, Since
<1>6. CASE walk.latest = None /\ walk.after = cursor.checked
  <2>1. P = {}
    BY <1>3, <1>4, <1>5, <1>6
  <2> QED
    BY <1>2, <1>6, <2>1
<1>7. CASE walk.latest # None /\ walk.after = walk.latest
  <2>1. PICK l : l = walk.latest
    OBVIOUS
  <2>2. l \in Nat /\ cursor.checked < l /\ l <= now /\ Occurs(l)
    BY <1>1, <1>5, <1>7, <2>1 DEF LInv, IInv, Since, IsWalk
  <2>3. l \in P /\ \A y \in P : y <= l
    BY <1>3, <1>4, <1>5, <1>7, <2>1, <2>2
  <2>4. Max(P) = l
    BY <1>3, <2>3, GreatestIn
  <2> QED
    BY <1>2, <2>1, <2>3, <2>4
<1> QED
  BY <1>1, <1>6, <1>7 DEF LInv, Complete

\* A walk that reaches the last occurrence is complete in every state (due).
THEOREM WalksAreComplete == Spec => []LInv
<1>1. Init => LInv
  BY InitLInv
<1>2. LInv /\ [Next]_vars => LInv'
  BY NextLInv
<1> QED
  BY <1>1, <1>2, PTL DEF Spec

\* Of any schedule, a check that missed fewer occurrences than a pass holds
\* fires the latest missed one, and nothing if there was none (due).
THEOREM FewMissedFireLatest == Spec => [](walk.passes = 0 => LatestMissed)
<1>1. LInv => (walk.passes = 0 => LatestMissed)
  BY LatestIsLast DEF Reaches
<1> QED
  BY <1>1, WalksAreComplete, PTL

\* Of an interval, a check fires the latest missed occurrence however many were
\* missed and though the clock is set back, where a pass holds three and there
\* are three passes (due, "restarts nearer to now").
THEOREM IntervalsFireLatest ==
    ASSUME MissedWalk >= 3, MissedPasses >= 3
    PROVE  Spec => [](schedule.every # None => LatestMissed)
<1>1. LInv => (schedule.every # None => LatestMissed)
  BY LatestIsLast DEF Reaches, IsInterval, Enough
<1> QED
  BY <1>1, WalksAreComplete, PTL

-----------------------------------------------------------------------------
(* The walk of a cron schedule *)

\* The clock changes on the hour, by whole hours.
ByWholeHours(z) == z.shift % Hour = 0 /\ z.delta % Hour = 0

\* No midnight is jumped over, and none is undone once the clock has shown it.
SparesMidnights(z) ==
  \A k \in Int :
    /\ ~(z.shift <= k * Day /\ k * Day < z.shift + z.delta)
    /\ ~(z.shift + z.delta < k * Day /\ k * Day < z.shift)

Regular(z) == ByWholeHours(z) /\ SparesMidnights(z)

\* The walk has gone over no minute that matches, and what it ended with is the
\* first that does.
CInv ==
  /\ zone \in Zones /\ after \in Nat /\ walking \in BOOLEAN
  /\ at \in Int /\ at % 2 = 0 /\ at > after
  /\ \A t \in Int : after < t /\ t < at /\ t % 2 = 0 => ~Matches(t)
  /\ walking => found = Never
  /\ NextIsFirst

\* Hours and days are whole minutes, days whole hours.
LEMMA Lengths ==
  /\ Hour \in Nat \ {0} /\ Day \in Nat \ {0}
  /\ Day = HoursPerDay * Hour
  /\ \A k \in Int : k * Hour \in Int /\ (k * Hour) % 2 = 0
  /\ \A k \in Int : k * Day \in Int /\ (k * Day) % 2 = 0
<1>1. PICK h, n : h = MinutesPerHour /\ n = HoursPerDay
  OBVIOUS
<1>2. h \in Nat \ {0} /\ n \in Nat \ {0}
  BY <1>1, CalendarAssumption
<1>3. PICK hour : hour = 2 * h
  OBVIOUS
<1>4. hour \in Nat \ {0} /\ Hour = hour
  BY <1>1, <1>2, <1>3 DEF Hour, Minute
<1>5. PICK d : d = hour * n
  OBVIOUS
<1>6. Day = d
  BY <1>1, <1>4, <1>5 DEF Day
<1>7. d \in Nat \ {0} /\ d = n * hour
  <2>1. d \in Int /\ 0 * hour = 0
    BY <1>2, <1>4, <1>5
  <2>2. 0 * hour + hour <= n * hour /\ n * hour = d
    BY <1>2, <1>4, <1>5, Products
  <2> QED
    BY <2>1, <2>2, <1>4
<1>8. ASSUME NEW k \in Int PROVE k * hour \in Int /\ (k * hour) % 2 = 0
  <2>1. PICK j : j = k * h
    OBVIOUS
  <2>2. j \in Int /\ k * hour = j * 2 /\ k * hour \in Int
    BY <1>2, <1>3, <2>1
  <2> QED
    BY <2>2, Multiple
<1>9. ASSUME NEW k \in Int PROVE k * d \in Int /\ (k * d) % 2 = 0
  <2>1. PICK j : j = k * n
    OBVIOUS
  <2>2. j \in Int /\ k * d = j * hour
    BY <1>2, <1>4, <1>7, <2>1
  <2> QED
    BY <2>2, <1>8
<1> QED
  BY <1>1, <1>4, <1>6, <1>7, <1>8, <1>9

\* The hour of the day is a matter of the hours gone by.
LEMMA HourOfDay ==
  ASSUME NEW x \in Int
  PROVE  (x % Day) \div Hour = (x \div Hour) % HoursPerDay
<1>1. PICK hour, n, d : hour = Hour /\ n = HoursPerDay /\ d = Day
  OBVIOUS
<1>2. hour \in Nat \ {0} /\ n \in Nat \ {0} /\ d \in Nat \ {0} /\ d = n * hour
  BY <1>1, Lengths, CalendarAssumption
<1>3. PICK p, r : p = x \div hour /\ r = x % hour
  OBVIOUS
<1>4. p \in Int /\ r \in Int /\ p * hour \in Int /\ 0 <= r /\ r < hour /\ x = p * hour + r
  BY <1>2, <1>3, Division
<1>5. PICK q, a : q = p \div n /\ a = p % n
  OBVIOUS
<1>6. q \in Int /\ a \in Int /\ q * n \in Int /\ 0 <= a /\ a < n /\ p = q * n + a
  BY <1>2, <1>4, <1>5, Division
<1>7. PICK y : y = a * hour + r
  OBVIOUS
<1>8. y \in Int /\ q * d \in Int /\ a * hour \in Int
  BY <1>2, <1>4, <1>6, <1>7
<1>9. p * hour = q * d + a * hour
  <2>1. p * hour = (q * n) * hour + a * hour
    BY <1>2, <1>6
  <2>2. (q * n) * hour = q * d
    BY <1>2, <1>6
  <2> QED
    BY <2>1, <2>2
<1>10. x = q * d + y
  BY <1>4, <1>7, <1>8, <1>9
<1>11. 0 <= y /\ y < d
  <2>1. a * hour + hour <= n * hour
    BY <1>2, <1>6, Products
  <2>2. 0 <= a * hour
    BY <1>2, <1>6
  <2> QED
    BY <1>2, <1>4, <1>7, <1>8, <2>1, <2>2
<1>12. x % d = x - q * d
  BY <1>2, <1>6, <1>8, <1>10, <1>11, Quotient
<1>13. x % d = y
  BY <1>8, <1>10, <1>12
<1>14. y \div hour = a
  BY <1>2, <1>4, <1>6, <1>7, <1>8, Quotient
<1> QED
  BY <1>1, <1>3, <1>5, <1>13, <1>14

\* Clocks that change by an hour, on an hour that is not midnight, are regular:
\* daylight saving in most of the world.
LEMMA DaylightSaving ==
  ASSUME NEW j \in Nat, NEW h \in 1..(HoursPerDay - 1),
         NEW z \in [shift : {j * Day + h * Hour}, delta : {Hour, -Hour}]
  PROVE  Regular(z)
<1>1. PICK hour, day, n, s, d :
        hour = Hour /\ day = Day /\ n = HoursPerDay /\ s = z.shift /\ d = z.delta
  OBVIOUS
<1>2. hour \in Nat \ {0} /\ day \in Nat \ {0} /\ n \in Nat \ {0} /\ day = n * hour
  BY <1>1, Lengths, CalendarAssumption
<1>3. h \in Int /\ 0 < h /\ h < n /\ d \in {hour, -hour} /\ s = j * day + h * hour
  BY <1>1, <1>2
<1>4. PICK a, b : a = j * day /\ b = h * hour
  OBVIOUS
<1>5. a \in Int /\ b \in Int /\ hour <= b /\ b + hour <= day /\ s = a + b
  <2>1. 0 * hour + hour <= h * hour /\ h * hour + hour <= n * hour /\ 0 * hour = 0
    BY <1>2, <1>3, Products
  <2> QED
    BY <1>2, <1>3, <1>4, <2>1
<1>6. s % hour = 0
  <2>1. PICK c : c = j * n + h
    OBVIOUS
  <2>2. c \in Int /\ c * hour = (j * n) * hour + h * hour /\ (j * n) * hour = j * day
    BY <1>2, <1>3, <2>1
  <2>3. s \in Int /\ s = c * hour
    BY <1>2, <1>3, <1>5, <2>2
  <2> QED
    BY <1>2, <2>2, <2>3, Multiple
<1>7. d % hour = 0
  <2>1. 1 \in Int /\ -1 \in Int /\ hour = 1 * hour /\ -hour = (-1) * hour
    BY <1>2
  <2>2. d \in Int /\ \E k \in Int : d = k * hour
    BY <1>2, <1>3, <2>1
  <2> QED
    BY <1>2, <2>2, Multiple
<1>8. ASSUME NEW k \in Int
      PROVE  ~(s <= k * day /\ k * day < s + d) /\ ~(s + d < k * day /\ k * day < s)
  <2>1. PICK m : m = k * day
    OBVIOUS
  <2>2. m \in Int /\ (m <= a \/ a + day <= m)
    <3>1. k < j \/ k = j \/ j < k
      OBVIOUS
    <3>2. k < j => m + day <= a
      BY <1>2, <1>4, <2>1, Products
    <3>3. k = j => m = a
      BY <1>4, <2>1
    <3>4. j < k => a + day <= m
      BY <1>2, <1>4, <2>1, Products
    <3>5. m \in Int
      BY <1>2, <2>1
    <3> QED
      BY <1>2, <1>5, <3>1, <3>2, <3>3, <3>4, <3>5
  <2> QED
    BY <1>2, <1>3, <1>5, <2>1, <2>2
<1> QED
  BY <1>1, <1>6, <1>7, <1>8 DEF Regular, ByWholeHours, SparesMidnights

\* What the clock shows.
LEMMA Clock ==
  ASSUME zone \in Zones
  PROVE  /\ zone.shift \in Nat /\ zone.delta \in Int
         /\ \A t \in Int : t < zone.shift => Local(t) = t /\ Offset(t) = 0
         /\ \A t \in Int : zone.shift <= t =>
              Local(t) = t + zone.delta /\ Offset(t) = zone.delta
         /\ \A t \in Int : Local(t) \in Int /\ Offset(t) \in Int
<1>1. zone.shift \in Nat /\ zone.delta \in Int
  BY CalendarAssumption
<1> QED
  BY <1>1 DEF Local, Offset

\* When the clock first shows a midnight.
Midnight(m) == IF m < zone.shift THEN m ELSE m - zone.delta

\* A midnight is shown, and the library gives when it first is.
LEMMA MidnightShown ==
  ASSUME zone \in Zones, Regular(zone), NEW k \in Int, NEW m, m = k * Day
  PROVE  /\ Midnight(m) \in {m, m - zone.delta} /\ Midnight(m) \in Int
         /\ Local(Midnight(m)) = m
         /\ Instant(m) = Midnight(m)
<1>1. PICK s, d : s = zone.shift /\ d = zone.delta
  OBVIOUS
<1>2. s \in Nat /\ d \in Int /\ m \in Int
  BY <1>1, Clock, Lengths
<1>3. ~(s <= m /\ m < s + d)
  BY <1>1 DEF Regular, SparesMidnights
<1>4. PICK i : i = Midnight(m)
  OBVIOUS
<1>5. i = IF m < s THEN m ELSE m - d
  BY <1>1, <1>4 DEF Midnight
<1>6. i \in Int /\ i \in {m, m - d}
  BY <1>2, <1>5
<1>7. Local(i) = m
  <2>1. CASE m < s
    BY <1>1, <1>2, <1>5, <2>1, Clock
  <2>2. CASE ~(m < s)
    <3>1. i = m - d /\ s <= i /\ i + d = m
      BY <1>2, <1>3, <1>5, <2>2
    <3> QED
      BY <1>1, <1>2, <1>6, <3>1, Clock
  <2> QED
    BY <2>1, <2>2
<1>8. ASSUME NEW t \in {m, m - d}, Local(t) = m PROVE i <= t
  <2>1. t \in Int
    BY <1>2
  <2>2. CASE t < s
    <3>1. t = m
      BY <1>1, <1>8, <2>1, <2>2, Clock
    <3> QED
      BY <1>2, <1>5, <2>2, <3>1
  <2>3. CASE ~(t < s)
    <3>1. t + d = m
      BY <1>1, <1>2, <1>8, <2>1, <2>3, Clock
    <3> QED
      BY <1>2, <1>5, <2>1, <2>3, <3>1
  <2> QED
    BY <2>2, <2>3
<1>9. PICK shown : shown = {t \in {m, m - d} : Local(t) = m}
  OBVIOUS
<1>10. i \in shown /\ shown \subseteq Int /\ \A t \in shown : i <= t
  BY <1>2, <1>6, <1>7, <1>8, <1>9
<1>11. Min(shown) = i
  <2>1. \E x \in shown : \A y \in shown : x <= y
    BY <1>10
  <2>2. Min(shown) \in shown /\ \A y \in shown : Min(shown) <= y
    BY <2>1 DEF Min
  <2>3. Min(shown) \in Int /\ Min(shown) <= i /\ i <= Min(shown)
    BY <1>10, <2>2
  <2> QED
    BY <1>6, <2>3
<1>12. Instant(m) = IF shown = {} THEN m ELSE Min(shown)
  BY <1>1, <1>9 DEF Instant
<1>13. Min(shown) = Min(shown)
  BY DEF Min, Min
<1> QED
  BY <1>1, <1>4, <1>6, <1>7, <1>10, <1>11, <1>12, <1>13

\* The walk goes from a day to the midnight that ends it.
LEMMA NextDayIs ==
  ASSUME zone \in Zones, Regular(zone), NEW t \in Int
  PROVE  /\ DayOf(t) \in Int
         /\ NextDay(t) = Midnight((DayOf(t) + 1) * Day)
<1>1. PICK l, day : l = Local(t) /\ day = Day
  OBVIOUS
<1>2. l \in Int /\ day \in Nat \ {0}
  BY <1>1, Clock, Lengths
<1>3. PICK k : k = l \div day
  OBVIOUS
<1>4. k \in Int /\ DayOf(t) = k
  <2>1. k \in Int
    BY <1>2, <1>3, Division
  <2> QED
    BY <1>1, <1>3, <2>1 DEF DayOf
<1>5. PICK m, i : m = k * day /\ i = Midnight(m)
  OBVIOUS
<1>6. i \in {m, m - zone.delta} /\ Local(i) = m /\ Instant(m) = i
  BY <1>1, <1>4, <1>5, MidnightShown
<1>7. StartOfDay(t) = i
  BY <1>1, <1>4, <1>5, <1>6 DEF StartOfDay
<1>8. NextDay(t) = Instant(m + day)
  BY <1>1, <1>6, <1>7 DEF NextDay, PlusDay
<1>9. PICK n : n = k + 1
  OBVIOUS
<1>10. n \in Int /\ m + day = n * day
  BY <1>2, <1>4, <1>5, <1>9
<1>11. Instant(m + day) = Midnight(m + day)
  BY <1>1, <1>10, MidnightShown
<1> QED
  BY <1>1, <1>4, <1>8, <1>9, <1>10, <1>11

\* It is later, at a minute, and no other day is gone over.
LEMMA DaysSkipped ==
  ASSUME zone \in Zones, Regular(zone), NEW t \in Int
  PROVE  /\ NextDay(t) \in Int /\ NextDay(t) % 2 = 0 /\ t < NextDay(t)
         /\ \A u \in Int : t <= u /\ u < NextDay(t) => DayOf(u) = DayOf(t)
<1>1. PICK s, d, l, day, k :
        s = zone.shift /\ d = zone.delta /\ l = Local(t) /\ day = Day /\ k = DayOf(t)
  OBVIOUS
<1>2. s \in Nat /\ d \in Int /\ l \in Int /\ day \in Nat \ {0} /\ k \in Int /\ k = l \div day
  BY <1>1, Clock, Lengths, NextDayIs DEF DayOf
<1>3. PICK m, q : m = k * day /\ q = (k + 1) * day
  OBVIOUS
<1>4. m \in Int /\ q \in Int /\ q = m + day /\ m <= l /\ l < q
  <2>1. m \in Int /\ m <= l /\ l < m + day
    BY <1>2, <1>3, Division
  <2>2. q = m + day
    BY <1>2, <1>3
  <2> QED
    BY <1>2, <2>1, <2>2
<1>5. /\ ~(s <= m /\ m < s + d) /\ ~(s + d < m /\ m < s)
      /\ ~(s <= q /\ q < s + d) /\ ~(s + d < q /\ q < s)
  <2>1. k + 1 \in Int
    BY <1>2
  <2> QED
    BY <1>1, <1>2, <1>3, <2>1 DEF Regular, SparesMidnights
<1>6. (t < s => l = t) /\ (s <= t => l = t + d)
  BY <1>1, Clock
<1>7. PICK n : n = NextDay(t)
  OBVIOUS
<1>8. n = IF q < s THEN q ELSE q - d
  BY <1>1, <1>3, <1>7, NextDayIs DEF Midnight
<1>9. n \in Int /\ t < n
  BY <1>2, <1>4, <1>5, <1>6, <1>8
<1>10. n % 2 = 0
  <2>1. q % 2 = 0
    BY <1>1, <1>2, <1>3, Lengths
  <2>2. d % 2 = 0
    <3>1. d % Hour = 0
      BY <1>1 DEF Regular, ByWholeHours
    <3>2. PICK j \in Int : d = j * Hour
      BY <1>2, <3>1, Lengths, Multiple
    <3> QED
      BY <3>2, Lengths
  <2> QED
    BY <1>2, <1>4, <1>8, <2>1, <2>2
<1>11. ASSUME NEW u \in Int, t <= u, u < n PROVE DayOf(u) = k
  <2>1. PICK v : v = Local(u)
    OBVIOUS
  <2>2. v \in Int /\ (u < s => v = u) /\ (s <= u => v = u + d)
    BY <1>1, <2>1, Clock
  <2>3. m <= v /\ v < q
    <3>1. CASE u < s
      BY <1>2, <1>4, <1>6, <1>8, <1>11, <2>2, <3>1
    <3>2. CASE s <= u /\ q < s
      BY <1>2, <1>4, <1>6, <1>8, <1>11, <3>2
    <3>3. CASE s <= u /\ ~(q < s)
      <4>1. v = u + d /\ v < q
        BY <1>2, <1>4, <1>8, <1>11, <2>2, <3>3
      <4>2. CASE t < s
        BY <1>2, <1>4, <1>5, <1>6, <1>11, <3>3, <4>1, <4>2
      <4>3. CASE s <= t
        BY <1>2, <1>4, <1>6, <1>11, <4>1, <4>3
      <4> QED
        BY <1>2, <4>2, <4>3
    <3> QED
      BY <1>2, <3>1, <3>2, <3>3
  <2>4. v \div day = k
    <3>1. k * day <= v /\ v < k * day + day
      BY <1>3, <1>4, <2>3
    <3> QED
      BY <1>2, <2>2, <3>1, Quotient
  <2> QED
    BY <1>1, <2>1, <2>4 DEF DayOf
<1> QED
  BY <1>1, <1>7, <1>9, <1>10, <1>11

\* The walk goes from an hour to the next: later, at a minute, and no other hour
\* is gone over.
LEMMA HoursSkipped ==
  ASSUME zone \in Zones, Regular(zone), NEW t \in Int
  PROVE  /\ NextHour(t) \in Int /\ NextHour(t) % 2 = 0 /\ t < NextHour(t)
         /\ \A u \in Int : t <= u /\ u < NextHour(t) =>
              (Local(u) % Day) \div Hour = (Local(t) % Day) \div Hour
<1>1. PICK s, d, l, o, hour :
        s = zone.shift /\ d = zone.delta /\ l = Local(t) /\ o = Offset(t) /\ hour = Hour
  OBVIOUS
<1>2. /\ s \in Nat /\ d \in Int /\ l \in Int /\ hour \in Nat \ {0}
      /\ (t < s => o = 0) /\ (s <= t => o = d) /\ o \in Int /\ l = t + o
  <2>1. s \in Nat /\ d \in Int /\ l \in Int /\ o \in Int
    BY <1>1, Clock
  <2>2. (t < s => l = t /\ o = 0) /\ (s <= t => l = t + d /\ o = d)
    BY <1>1, Clock
  <2>3. hour \in Nat \ {0}
    BY <1>1, Lengths
  <2>4. l = t + o
    BY <2>1, <2>2
  <2> QED
    BY <2>1, <2>2, <2>3, <2>4
<1>3. PICK a \in Int, b \in Int : s = a * hour /\ o = b * hour
  <2>1. s % hour = 0 /\ d % hour = 0
    BY <1>1 DEF Regular, ByWholeHours
  <2>2. PICK a \in Int : s = a * hour
    <3>1. s \in Int
      BY <1>2
    <3> QED
      BY <1>2, <2>1, <3>1, Multiple
  <2>3. PICK b \in Int : d = b * hour
    BY <1>2, <2>1, Multiple
  <2>4. CASE t < s
    <3>1. 0 \in Int /\ o = 0 * hour
      BY <1>2, <2>4
    <3> QED
      BY <2>2, <3>1
  <2>5. CASE s <= t
    BY <1>2, <2>2, <2>3, <2>5
  <2> QED
    BY <1>2, <2>4, <2>5
<1>4. PICK p, r : p = l \div hour /\ r = l % hour
  OBVIOUS
<1>5. p \in Int /\ r \in Int /\ p * hour \in Int /\ 0 <= r /\ r < hour /\ l = p * hour + r
  BY <1>2, <1>4, Division
<1>6. PICK c : c = p - b
  OBVIOUS
<1>7. PICK x : x = c * hour
  OBVIOUS
<1>8. c \in Int /\ x \in Int /\ x + o = p * hour /\ l - r - o = x
  <2>1. c \in Int /\ x \in Int
    BY <1>2, <1>3, <1>5, <1>6, <1>7
  <2>2. x = p * hour - b * hour
    BY <1>2, <1>3, <1>5, <1>6, <1>7
  <2> QED
    BY <1>2, <1>3, <1>5, <2>1, <2>2
<1>9. x <= t /\ t < x + hour
  BY <1>2, <1>5, <1>8
<1>10. t < s => x + hour <= s
  <2>1. ASSUME t < s PROVE c < a
    <3>1. c = a => ~(x < s)
      BY <1>2, <1>3, <1>7, <1>8
    <3>2. a < c => ~(x < s)
      BY <1>2, <1>3, <1>7, <1>8, Products
    <3>3. x < s
      BY <1>2, <1>8, <1>9, <2>1
    <3> QED
      BY <1>3, <1>8, <3>1, <3>2, <3>3
  <2> QED
    BY <1>2, <1>3, <1>7, <1>8, <2>1, Products
<1>11. s <= t => s <= x
  <2>1. ASSUME c < a PROVE t < s
    BY <1>2, <1>3, <1>7, <1>8, <1>9, <2>1, Products
  <2>2. a <= c => s <= x
    <3>1. a = c => s = x
      BY <1>3, <1>7
    <3>2. a < c => s <= x
      BY <1>2, <1>3, <1>7, <1>8, Products
    <3> QED
      BY <1>2, <1>3, <1>8, <3>1, <3>2
  <2> QED
    BY <1>2, <1>3, <1>8, <2>1, <2>2
<1>12. Local(x) = x + o
  BY <1>1, <1>2, <1>8, <1>9, <1>11, Clock
<1>13. NextHour(t) = x + hour
  <2>1. WithMinutes(t, l - r) = x
    <3>1. l - r = p * hour
      BY <1>2, <1>5
    <3> QED
      BY <1>1, <1>8, <1>12, <3>1 DEF WithMinutes
  <2> QED
    BY <1>1, <1>4, <2>1 DEF NextHour
<1>14. (x + hour) % 2 = 0
  <2>1. c + 1 \in Int /\ x + hour = (c + 1) * hour
    BY <1>2, <1>7, <1>8
  <2> QED
    BY <1>1, <2>1, Lengths
<1>15. ASSUME NEW u \in Int, t <= u, u < x + hour
       PROVE  (Local(u) % Day) \div hour = (l % Day) \div hour
  <2>1. PICK v : v = Local(u)
    OBVIOUS
  <2>2. v = u + o /\ v \in Int
    BY <1>1, <1>2, <1>8, <1>10, <1>15, <2>1, Clock
  <2>3. p * hour <= v /\ v < p * hour + hour
    BY <1>2, <1>5, <1>8, <1>9, <1>15, <2>2
  <2>4. v \div hour = l \div hour
    BY <1>2, <1>4, <1>5, <2>2, <2>3, Quotient
  <2>5. (v % Day) \div hour = (v \div hour) % HoursPerDay
    BY <1>1, <2>2, HourOfDay
  <2>6. (l % Day) \div hour = (l \div hour) % HoursPerDay
    BY <1>1, <1>2, HourOfDay
  <2> QED
    BY <2>1, <2>4, <2>5, <2>6
<1> QED
  BY <1>1, <1>2, <1>8, <1>9, <1>13, <1>14, <1>15

\* No minute matches of a day that does not ...
LEMMA SameDay ==
  ASSUME NEW t, NEW u, DayOf(u) = DayOf(t), ~MatchesDay(t)
  PROVE  ~Matches(u)
BY DEF Matches, MatchesDay

\* ... and of the hour.
LEMMA SameHour ==
  ASSUME NEW t, NEW u,
         (Local(u) % Day) \div Hour = (Local(t) % Day) \div Hour,
         ~MatchesHour(t)
  PROVE  ~Matches(u)
BY DEF Matches, MatchesHour

\* Where a turn goes from a minute that does not match.
Onward(t) ==
  IF ~MatchesDay(t) THEN NextDay(t)
  ELSE IF ~MatchesHour(t) THEN NextHour(t)
  ELSE t + Minute

\* A turn goes forward, to a minute, over none that matches.
LEMMA TurnSkips ==
  ASSUME zone \in Zones, Regular(zone), NEW t \in Int, t % 2 = 0, ~Matches(t)
  PROVE  /\ Onward(t) \in Int /\ Onward(t) % 2 = 0 /\ t < Onward(t)
         /\ \A u \in Int : t <= u /\ u < Onward(t) /\ u % 2 = 0 => ~Matches(u)
<1>1. CASE ~MatchesDay(t)
  <2>1. Onward(t) = NextDay(t)
    BY <1>1 DEF Onward
  <2> QED
    BY <1>1, <2>1, DaysSkipped, SameDay
<1>2. CASE MatchesDay(t) /\ ~MatchesHour(t)
  <2>1. Onward(t) = NextHour(t)
    BY <1>2 DEF Onward
  <2> QED
    BY <1>2, <2>1, HoursSkipped, SameHour
<1>3. CASE MatchesDay(t) /\ MatchesHour(t)
  <2>1. Onward(t) = t + 2
    BY <1>3 DEF Onward, Minute
  <2>2. t + 2 \in Int /\ (t + 2) % 2 = 0 /\ t < t + 2
    OBVIOUS
  <2>3. ASSUME NEW u \in Int, t <= u, u < t + 2, u % 2 = 0 PROVE u = t
    BY <2>3
  <2> QED
    BY <2>1, <2>2, <2>3
<1> QED
  BY <1>1, <1>2, <1>3

\* The first minute that matches, and that there is none.
LEMMA FirstFound ==
  ASSUME CInv, at <= after + Limit, Matches(at)
  PROVE  First = at
<1>1. PICK T : T = {t \in (after + 1)..(after + Limit) : t % Minute = 0 /\ Matches(t)}
  OBVIOUS
<1>2. after \in Nat /\ Limit \in Nat /\ at \in Int /\ at % 2 = 0 /\ after < at
  BY CalendarAssumption DEF CInv
<1>3. at \in T /\ T \subseteq Int
  BY <1>1, <1>2 DEF Minute
<1>4. ASSUME NEW t \in T PROVE at <= t
  <2>1. t \in Int /\ after < t /\ t % 2 = 0 /\ Matches(t)
    BY <1>1, <1>2 DEF Minute
  <2> QED
    BY <1>2, <2>1 DEF CInv
<1>5. PICK x : x = Min(T)
  OBVIOUS
<1>6. x \in T /\ x <= at
  <2>1. \E z \in T : \A y \in T : z <= y
    BY <1>3, <1>4
  <2>2. x \in T /\ \A y \in T : x <= y
    BY <1>5, <2>1 DEF Min
  <2> QED
    BY <1>3, <2>2
<1>7. x = at
  BY <1>2, <1>3, <1>4, <1>6
<1> QED
  BY <1>1, <1>3, <1>5, <1>7 DEF First

\* Never before the limit, if the walk went past it.
LEMMA NoneFound ==
  ASSUME CInv, after + Limit < at
  PROVE  First = Never
<1>1. PICK T : T = {t \in (after + 1)..(after + Limit) : t % Minute = 0 /\ Matches(t)}
  OBVIOUS
<1>2. after \in Nat /\ Limit \in Nat /\ at \in Int
  BY CalendarAssumption DEF CInv
<1>3. ASSUME NEW t \in T PROVE FALSE
  <2>1. t \in Int /\ after < t /\ t < at /\ t % 2 = 0 /\ Matches(t)
    BY <1>1, <1>2 DEF Minute
  <2> QED
    BY <2>1 DEF CInv
<1> QED
  BY <1>1, <1>3 DEF First

\* While the schedule, the zone and `after` stay, so does what matches.
LEMMA Stays ==
  ASSUME UNCHANGED <<cron, zone, after>>
  PROVE  /\ \A t : Matches(t)' <=> Matches(t)
         /\ First' = First
<1>1. \A t : Local(t)' = Local(t)
  BY DEF Local, Offset
<1>2. \A t : Matches(t)' <=> Matches(t)
  BY <1>1 DEF Matches, MatchesDay, MatchesHour, MatchesMinute, DayOf
<1>3. {t \in (after + 1)..(after + Limit) : t % Minute = 0 /\ Matches(t)}'
        = {t \in (after + 1)..(after + Limit) : t % Minute = 0 /\ Matches(t)}
  BY <1>2
<1> QED
  BY <1>2, <1>3 DEF First

\* The walk starts at the minute after `after`.
LEMMA InitCInv == ASSUME CronInit PROVE CInv
<1>1. zone \in Zones /\ after \in Nat /\ walking = TRUE /\ found = Never
  BY CalendarAssumption DEF CronInit
<1>2. at = (after + 2) - ((after + 2) % 2)
  BY DEF CronInit, FirstOf, Minute
<1>3. at \in Int /\ at % 2 = 0 /\ after < at /\ at <= after + 2
  BY <1>1, <1>2
<1>4. ASSUME NEW t \in Int, after < t, t < at PROVE t % 2 # 0
  BY <1>1, <1>3, <1>4
<1> QED
  BY <1>1, <1>3, <1>4 DEF CInv, NextIsFirst

\* A step keeps the invariant, and a turn that goes on goes forward.
LEMMA NextCInv ==
  ASSUME \A z \in Zones : Regular(z), CInv, [CronNext]_cronVars
  PROVE  CInv' /\ (walking' /\ ~UNCHANGED cronVars => at < at')
<1>1. /\ zone \in Zones /\ Regular(zone) /\ after \in Nat /\ Limit \in Nat /\ walking \in BOOLEAN
      /\ at \in Int /\ at % 2 = 0 /\ after < at
  BY CalendarAssumption DEF CInv
<1>2. UNCHANGED <<cron, zone, after>>
  BY DEF CronNext, Walk, GiveUp, cronVars
<1>3. (\A t : Matches(t)' <=> Matches(t)) /\ First' = First
  BY <1>2, Stays
<1>4. CASE UNCHANGED cronVars
  BY <1>3, <1>4 DEF CInv, cronVars, NextIsFirst
<1>5. CASE Walk /\ Matches(at)
  <2>1. found' = at /\ walking' = FALSE /\ at' = at /\ at <= after + Limit
    BY <1>5 DEF Walk
  <2>2. First' = at
    BY <1>3, <1>5, <2>1, FirstFound
  <2> QED
    BY <1>1, <1>2, <1>3, <2>1, <2>2 DEF CInv, NextIsFirst
<1>6. CASE Walk /\ ~Matches(at)
  <2>1. walking /\ UNCHANGED <<found, walking>> /\ at' = Onward(at)
    BY <1>6 DEF Walk, Onward
  <2>2. at' \in Int /\ at' % 2 = 0 /\ at < at'
    BY <1>1, <1>6, <2>1, TurnSkips
  <2>3. \A u \in Int : at <= u /\ u < at' /\ u % 2 = 0 => ~Matches(u)
    BY <1>1, <1>6, <2>1, TurnSkips
  <2>4. ASSUME NEW t \in Int, after < t, t < at', t % 2 = 0 PROVE ~Matches(t)
    <3>1. CASE t < at
      BY <2>4, <3>1 DEF CInv
    <3>2. CASE at <= t
      BY <2>3, <2>4, <3>2
    <3> QED
      BY <1>1, <3>1, <3>2
  <2> QED
    BY <1>1, <1>2, <1>3, <2>1, <2>2, <2>4 DEF CInv, NextIsFirst
<1>7. CASE GiveUp
  <2>1. walking /\ walking' = FALSE /\ UNCHANGED <<at, found>> /\ after + Limit < at
    BY <1>1, <1>7 DEF GiveUp
  <2>2. found = Never /\ First' = Never
    BY <1>3, <2>1, NoneFound DEF CInv
  <2> QED
    BY <1>1, <1>2, <1>3, <2>1, <2>2 DEF CInv, NextIsFirst
<1> QED
  BY <1>4, <1>5, <1>6, <1>7 DEF CronNext

-----------------------------------------------------------------------------
\* Where every zone's clock changes by whole hours and leaves the midnights
\* alone, next_cron's walk goes over no minute that matches, for any calendar,
\* any cron and any length of days and hours.
THEOREM CronWalkSkipsNothing ==
  ASSUME \A z \in Zones : Regular(z)
  PROVE  CronSpec => []CInv
<1>1. CronInit => CInv
  BY InitCInv
<1>2. CInv /\ [CronNext]_cronVars => CInv'
  BY NextCInv
<1> QED
  BY <1>1, <1>2, PTL DEF CronSpec

\* NextIsFirst: "skipping whole days and hours that cannot match", what next_cron
\* returns is the first minute after `after` that matches, or none when there is
\* none within its limit.
THEOREM CronFiresNext ==
  ASSUME \A z \in Zones : Regular(z)
  PROVE  CronSpec => []NextIsFirst
<1>1. CInv => NextIsFirst
  BY DEF CInv
<1> QED
  BY <1>1, CronWalkSkipsNothing, PTL

\* Every turn of next_cron's loop that does not end it goes forward: the loop has
\* at most as many turns as its limit has instants, so that it cannot go on for ever.
THEOREM CronWalkGoesForward ==
  ASSUME \A z \in Zones : Regular(z)
  PROVE  CronSpec => [][walking' => at < at']_cronVars
<1>1. CInv /\ [CronNext]_cronVars => [walking' => at < at']_cronVars
  BY NextCInv
<1> QED
  BY <1>1, CronWalkSkipsNothing, PTL DEF CronSpec
====
