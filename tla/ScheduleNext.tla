---------------------------- MODULE ScheduleNext ----------------------------
(***************************************************************************)
(* The instants of a schedule: occurrence, Next, Prev, NextRun and lastDue *)
(* of internal/scenes/schedule.go.                                         *)
(*                                                                         *)
(* Time is counted in hours from the first midnight.  What the time zone   *)
(* database, the ephemeris and the calendar say of each civil day is given *)
(* by the constants.  A cursor walks from one occurrence of a scene to the *)
(* next, as the scheduler's does.                                          *)
(***************************************************************************)
EXTENDS Integers, FiniteSetsExt

CONSTANTS
  Days,        \* the civil days, numbered from 0
  Queried,     \* those the functions are called on: eight days from both ends
  Midnight,    \* the instant each day starts at
  Elapsed,     \* time.Date: hours from midnight to a clock time, day by day
  Weekday,     \* isoWeekday of each day
  Sunrise,     \* hours from midnight to sunrise and to sunset, day by day
  Sunset,
  Polar,       \* the days the sun neither rises nor sets
  Schedules,   \* records as validateSchedule lets them through
  None         \* no instant, no bound

Hours == 0..23

ASSUME ScheduleNextAssumption ==
  /\ Days \subseteq Nat /\ \A d, e \in Days : d..e \subseteq Days
  /\ Queried \subseteq Days
  /\ \A d \in Queried : (d - 8)..(d + 8) \subseteq Days
  /\ Midnight \in [Days -> Int]
  /\ \A d, e \in Days : d < e => Midnight[d] < Midnight[e]
  /\ Elapsed \in [Days -> [Hours -> Int]]
  /\ Sunrise \in [Days -> Int] /\ Sunset \in [Days -> Int]
  /\ Schedules \subseteq
       [at: {"time", "sunrise", "sunset"}, days: SUBSET (1..7), time: Hours, offset: Int,
        notBefore: Hours \cup {None}, notAfter: Hours \cup {None}, enabled: BOOLEAN]
  /\ None \notin Int

VARIABLES
  scene,    \* its schedules
  from      \* the instant the search starts from

walk == <<scene, from>>

(* The instants of the queried days. *)
Instants == UNION {Midnight[d] .. (Midnight[d + 1] - 1) : d \in Queried}

-----------------------------------------------------------------------------
(* The civil day of an instant. *)
DayOf(t) == CHOOSE d \in Days : Midnight[d] <= t /\ (d + 1 \in Days => t < Midnight[d + 1])

At(d, clock) == Midnight[d] + Elapsed[d][clock]

Latest(a, b)   == IF a > b THEN a ELSE b
Earliest(a, b) == IF a < b THEN a ELSE b

(* The sun's instant with its offset, kept within the bounds of the day. *)
Solar(s, d) ==
  LET sun   == Midnight[d] + (IF s.at = "sunrise" THEN Sunrise ELSE Sunset)[d] + s.offset
      after == IF s.notBefore = None THEN sun ELSE Latest(sun, At(d, s.notBefore))
  IN  IF s.notAfter = None THEN after ELSE Earliest(after, At(d, s.notAfter))

Fires(s, d) == Weekday[d] \in s.days /\ (s.at # "time" => d \notin Polar)

Occurrence(s, d) == IF s.at = "time" THEN At(d, s.time) ELSE Solar(s, d)

HorizonFromTomorrow == 1..8
Horizon == 0..8

(* Next: the first day from that of t whose occurrence is after t. *)
NextInclusive(s, t) ==
  LET found == {i \in Horizon : Fires(s, DayOf(t) + i) /\ Occurrence(s, DayOf(t) + i) >= t}
  IN  IF found = {} THEN None ELSE Occurrence(s, DayOf(t) + Min(found))
NextInstant(s, t) ==
  LET found == {i \in Horizon : Fires(s, DayOf(t) + i) /\ Occurrence(s, DayOf(t) + i) > t}
  IN  IF found = {} THEN None ELSE Occurrence(s, DayOf(t) + Min(found))

(* Prev: the first day back from that of t whose occurrence is not after t. *)
PrevInstantStrict(s, t) ==
  LET found == {i \in Horizon : Fires(s, DayOf(t) - i) /\ Occurrence(s, DayOf(t) - i) < t}
  IN  IF found = {} THEN None ELSE Occurrence(s, DayOf(t) - Min(found))
PrevInstant(s, t) ==
  LET found == {i \in Horizon : Fires(s, DayOf(t) - i) /\ Occurrence(s, DayOf(t) - i) <= t}
  IN  IF found = {} THEN None ELSE Occurrence(s, DayOf(t) - Min(found))

(* The enabled schedules of the scene. *)
Enabled(sc) == {s \in sc : s.enabled}

NextRun(sc, t) ==
  LET next == {NextInstant(s, t) : s \in Enabled(sc)} \ {None}
  IN  IF next = {} THEN None ELSE Min(next)

LastDue(sc, t) ==
  LET last == {PrevInstant(s, t) : s \in Enabled(sc)} \ {None}
  IN  IF last = {} THEN None ELSE Max(last)

-----------------------------------------------------------------------------
WalkInit ==
  /\ scene \in kSubset(1, Schedules) \cup kSubset(2, Schedules)
  /\ from \in Instants

(* The scheduler launches the next occurrence and goes on from there. *)
Walk ==
  /\ NextRun(scene, from) \in Instants
  /\ from' = NextRun(scene, from)
  /\ UNCHANGED scene

WalkSpec == WalkInit /\ [][Walk]_walk

-----------------------------------------------------------------------------
(***************************************************************************)
(* Properties.                                                             *)
(***************************************************************************)

IsSingleton(S) == \E x \in S : S = {x}

(* All the instants of a set of schedules, by definition. *)
AllOf(sc) ==
  UNION {{Occurrence(s, d) : d \in {e \in Days : Fires(s, e)}} : s \in Enabled(sc)}

Ahead(sc, t)  == {u \in AllOf(sc) : u > t}
Behind(sc, t) == {u \in AllOf(sc) : u <= t}

(* schedule.go:68 and 92: the next launch strictly after the cursor is the *)
(* first of all the instants after it.                                     *)
NextIsFirst == Ahead(scene, from) # {} => NextRun(scene, from) = Min(Ahead(scene, from))

(* Every instant of a schedule falls on the civil day it is for. *)
KeepsToItsDay(s) == \A d \in Days : Fires(s, d) =>
  Midnight[d] <= Occurrence(s, d) /\ (d + 1 \in Days => Occurrence(s, d) < Midnight[d + 1])

(* What weekly schedules do of themselves where the sun rises: they fall   *)
(* due within eight days, and before a ninth; in the order of the days,    *)
(* with an offset that carries them past midnight at most.                 *)
Recurring(s) == \A d \in Queried :
  (\E i \in 1..8 : Fires(s, d + i)) /\ (\E i \in 2..8 : Fires(s, d - i))
InOrder(s) == \A d \in Days : Fires(s, d) =>
  /\ \A e \in Days : Fires(s, e) /\ d < e => Occurrence(s, d) < Occurrence(s, e)
  /\ d + 2 \in Days => Occurrence(s, d) < Midnight[d + 2]

(* The same for schedules that keep to their day, clock changes included:  *)
(* the eight days that are searched are enough, and none is jumped over.   *)
NextIsFirstWithinDays ==
  (\A s \in scene : KeepsToItsDay(s)) => NextIsFirst

(* Likewise what catchUp looks at is the last of the instants behind, even *)
(* when an offset carries an instant past midnight.  (One carried back     *)
(* before midnight, where the sun rises before three, would be missed.)    *)
LastIsLastUnlessCarriedBack ==
  (\A s \in scene : \A d \in Days : Fires(s, d) => Midnight[d] <= Occurrence(s, d)) =>
    (Behind(scene, from) # {} => LastDue(scene, from) = Max(Behind(scene, from)))

(* A walk along one schedule, even one carried past midnight, leaves no    *)
(* instant out: the ones missed are missed by starting between midnight    *)
(* and an instant carried over from the day before.                        *)
WalkLeavesNothingOut ==
  [][IsSingleton(scene) /\ from \in AllOf(scene) =>
       \A u \in AllOf(scene) : ~(from < u /\ u < from')]_walk
=============================================================================
