---- MODULE MCScheduleNext ----
(* Some weeks of a northern summer, with the two changes of hour and a     *)
(* polar day brought together: the sun sets at 21:00 or 22:00 and rises at *)
(* 2:00 or 5:00.                                                           *)
EXTENDS ScheduleNext

ShortDay == 10    \* 02:00 does not exist
LongDay  == 13    \* 02:00 exists twice

AllDays     == 0..26
QueriedDays == 8..16
Midnights ==
  [d \in AllDays |-> 24 * d - (IF d > ShortDay THEN 1 ELSE 0) + (IF d > LongDay THEN 1 ELSE 0)]
Clock ==
  [d \in AllDays |-> [h \in 0..23 |->
     IF d = ShortDay /\ h > 2 THEN h - 1 ELSE IF d = LongDay /\ h > 2 THEN h + 1 ELSE h]]
Weekdays == [d \in AllDays |-> (d % 7) + 1]
Rises    == [d \in AllDays |-> IF d % 5 = 0 THEN 2 ELSE 5]
Sets     == [d \in AllDays |-> IF d % 4 = 0 THEN 21 ELSE 22]
PolarDays == {12}

EveryDay == 1..7
Fixed(days, hour, on) ==
  [at |-> "time", days |-> days, time |-> hour, offset |-> 0,
   notBefore |-> None, notAfter |-> None, enabled |-> on]
Sun(at, days, offset, notBefore, notAfter) ==
  [at |-> at, days |-> days, time |-> 0, offset |-> offset,
   notBefore |-> notBefore, notAfter |-> notAfter, enabled |-> TRUE]

SomeSchedules == {
  Fixed({1}, 7, TRUE), Fixed(EveryDay, 2, TRUE), Fixed({1, 2, 3, 4, 5}, 23, TRUE),
  Fixed({3}, 0, TRUE), Fixed(EveryDay, 12, FALSE),
  Sun("sunrise", EveryDay, -3, 4, None), Sun("sunset", {5, 6}, 0, None, None),
  Sun("sunset", EveryDay, 3, None, 23), Sun("sunset", {2, 7}, 3, None, None),
  Sun("sunset", EveryDay, 3, None, None), Sun("sunrise", {4, 5}, -3, None, None)}

(* These schedules recur, and follow the days, as a weekly schedule does.  *)
ASSUME WeeklyAssumption == \A s \in Schedules : Recurring(s) /\ InOrder(s)
====
