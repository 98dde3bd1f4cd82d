------------------------ MODULE SceneSchedulerProofs ------------------------
(***************************************************************************)
(* The scheduler launches no occurrence twice and catches up what it       *)
(* missed, for any schedules, grace, sleep, number of edits, suspends and  *)
(* stops.                                                                  *)
(*                                                                         *)
(* What makes it true changes hands: inside a process it is the cursor,    *)
(* which has passed every occurrence launched; across a stop it is the     *)
(* column last_run_at, which catchUp compares with the occurrence.  The    *)
(* inductive invariant holds both for every occurrence launched, and says  *)
(* that the occurrences about to be launched have not been.  That none is  *)
(* missed rests on what the loop has read: until it wakes up it knows the  *)
(* next instant of every scene that has not changed; at a start it rests   *)
(* on last_run_at again.                                                   *)
(***************************************************************************)
EXTENDS SceneScheduler, ScheduleNext, WellFoundedInduction, TLAPS

(* An instant the loop of this process has dealt with, or is dealing with. *)
Dealt(t) == t <= cursor \/ (pc = "firing" /\ t = next)

RunsArePast == \A s \in Scenes : lastRun[s] <= now

SleepsAhead == pc \in {"sleeping", "firing"} /\ next # 0 => cursor < next
FiresDue    == pc = "firing" => next # 0 /\ next <= now

PlansAreDue ==
  plan # {} => pc \in {"catching", "firing"} /\ \A o \in plan : Dealt(o[2]) /\ o[2] <= now

PlansAreNew ==
  \A o \in plan : o[1] \notin unnoted => launches[o] = 0

LaunchesAreTraced ==
  \A o \in Occurrences : o[1] \notin unnoted /\ launches[o] # 0 =>
    o[2] <= lastRun[o[1]] /\ (pc # "down" => Dealt(o[2]))

IInv ==
  /\ TypeOK
  /\ RunsArePast /\ SleepsAhead /\ FiresDue
  /\ PlansAreDue /\ PlansAreNew /\ LaunchesAreTraced
  /\ AtMostOnce

-----------------------------------------------------------------------------
(* The sleep is bounded: ToSleep stays in 0..MaxSleep. *)
LEMMA ToSleepType ==
  ASSUME NEW target \in Int, now \in Int
  PROVE  ToSleep(target) \in 0..MaxSleep
  BY SceneSchedulerAssumption DEF ToSleep, Earlier, Later

(* What catchUp plans has not been launched: last_run_at would show it. *)
LEMMA CatchUpIsNew ==
  ASSUME IInv, NEW o \in Occurrences, ShouldCatchUp(o[1], o[2]),
         o[1] \notin unnoted
  PROVE  launches[o] = 0
<1>1. o[1] \in Scenes /\ o[2] \in Times
  BY DEF Occurrences
<1>2. lastRun[o[1]] < o[2]
  BY DEF ShouldCatchUp
<1>3. lastRun[o[1]] \in Int /\ o[2] \in Int
  BY <1>1 DEF IInv, TypeOK, Times
<1>4. ~(o[2] <= lastRun[o[1]])
  BY <1>2, <1>3
<1> QED
  BY <1>4 DEF IInv, LaunchesAreTraced

(* The invariant holds at first. *)
LEMMA InitType == Init => TypeOK
<1> SUFFICES ASSUME Init PROVE TypeOK
  OBVIOUS
<1>1. 0 \in 0..MaxTime /\ 0 \in 0..MaxSleep /\ 0 \in 0..MaxDisturbances /\ 0 \in Int
  BY SceneSchedulerAssumption
<1>2. /\ launches \in [Occurrences -> Nat]
      /\ lastRun \in [Scenes -> 0..MaxTime]
  BY <1>1 DEF Init
<1>3. schedule \in [Scenes -> Plans] /\ exists \subseteq Scenes
  BY DEF Init
<1>4. /\ plan \subseteq Occurrences /\ due \subseteq Scenes
      /\ edited \subseteq Scenes /\ unnoted \subseteq Scenes
      /\ dropped \subseteq Occurrences
  BY DEF Init
<1>5. /\ now \in 0..MaxTime /\ next \in 0..MaxTime /\ timer \in 0..MaxSleep
      /\ cursor \in Int /\ disturbances \in 0..MaxDisturbances
  BY <1>1 DEF Init
<1>6. reload \in BOOLEAN /\ pc \in {"down", "catching", "reading", "sleeping", "firing"}
  BY DEF Init
<1> QED
  BY <1>2, <1>3, <1>4, <1>5, <1>6 DEF TypeOK

LEMMA InitInv == Init => IInv
<1> SUFFICES ASSUME Init PROVE IInv
  OBVIOUS
<1>1. TypeOK
  BY InitType
<1>2. RunsArePast /\ SleepsAhead /\ FiresDue
  BY DEF Init, RunsArePast, SleepsAhead, FiresDue
<1>3. PlansAreDue /\ PlansAreNew
  BY DEF Init, PlansAreDue, PlansAreNew
<1>4. \A o \in Occurrences : launches[o] = 0
  BY DEF Init
<1>5. LaunchesAreTraced /\ AtMostOnce
  BY <1>4 DEF LaunchesAreTraced, AtMostOnce
<1> QED
  BY <1>1, <1>2, <1>3, <1>5 DEF IInv

-----------------------------------------------------------------------------
(* Every step keeps the types. *)
LEMMA TypeStep == TypeOK /\ [Next]_vars => TypeOK'
<1> SUFFICES ASSUME TypeOK, [Next]_vars PROVE TypeOK'
  OBVIOUS
<1> USE SceneSchedulerAssumption DEF TypeOK, Times
<1>1. CASE Boot
  <2>1. Missed \subseteq Occurrences
    BY DEF Missed, Occurrences
  <2>2. plan' \subseteq Occurrences /\ dropped' \subseteq Occurrences
    BY <1>1, <2>1 DEF Boot
  <2> QED
    BY <1>1, <2>2 DEF Boot, database
<1>2. ASSUME NEW o \in plan, Launch(o) PROVE TypeOK'
  <2>1. o \in Occurrences /\ o[1] \in Scenes
    BY DEF Occurrences
  <2>2. lastRun' \in [Scenes -> 0..MaxTime] /\ unnoted' \subseteq Scenes
    BY <1>2, <2>1 DEF Launch
  <2>3. launches' \in [Occurrences -> Nat]
    BY <1>2, <2>1 DEF Launch
  <2>4. plan' \subseteq Occurrences /\ dropped' \subseteq Occurrences
    BY <1>2, <2>1 DEF Launch
  <2> QED
    BY <1>2, <2>2, <2>3, <2>4 DEF Launch, loop
<1>3. CASE CaughtUp
  BY <1>3 DEF CaughtUp, loop, database, history
<1>4. CASE Read
  <2>1. next' \in 0..MaxTime /\ due' \subseteq Scenes
    BY <1>4 DEF Read
  <2>2. timer' \in 0..MaxSleep
    BY <1>4, ToSleepType DEF Read
  <2> QED
    BY <1>4, <2>1, <2>2 DEF Read, database
<1>5. CASE WakeForReload
  <2>1. cursor' \in Int
    BY <1>5 DEF WakeForReload, CursorAfterReload, Later
  <2> QED
    BY <1>5, <2>1 DEF WakeForReload, database, history
<1>6. CASE WakeTooEarly
  BY <1>6 DEF WakeTooEarly, loop, database, history
<1>7. CASE WakeWhenDue
  <2>1. plan' \subseteq Occurrences
    BY <1>7 DEF WakeWhenDue, NothingDue, Occurrences
  <2> QED
    BY <1>7, <2>1 DEF WakeWhenDue, loop, database, history
<1>8. CASE Fired
  BY <1>8 DEF Fired, database, history
<1>9. CASE Tick
  <2>1. timer' \in 0..MaxSleep /\ now' \in 0..MaxTime
    BY <1>9 DEF Tick, Later
  <2> QED
    BY <1>9, <2>1 DEF Tick, database, history
<1>10. CASE Halt
  <2>1. 0 \in 0..MaxTime /\ 0 \in 0..MaxSleep /\ 0 \in Int
    BY SceneSchedulerAssumption
  <2>2. disturbances' \in 0..MaxDisturbances
    BY <1>10 DEF Halt, Disturb
  <2>3. next' \in 0..MaxTime /\ timer' \in 0..MaxSleep /\ cursor' \in Int
    BY <1>10, <2>1 DEF Halt
  <2>4. /\ due' \subseteq Scenes /\ plan' \subseteq Occurrences /\ edited' \subseteq Scenes
        /\ dropped' \subseteq Occurrences
    BY <1>10 DEF Halt
  <2>5. pc' = "down" /\ reload' \in BOOLEAN
    BY <1>10 DEF Halt
  <2>6. UNCHANGED <<now, schedule, exists, lastRun, launches, unnoted>>
    BY <1>10 DEF Halt, database
  <2> QED
    BY <2>2, <2>3, <2>4, <2>5, <2>6
<1>11. ASSUME NEW s \in Scenes, Delete(s) PROVE TypeOK'
  BY <1>11 DEF Delete, Disturb, loop, history
<1>12. ASSUME NEW s \in Scenes, RunScene(s) PROVE TypeOK'
  BY <1>12 DEF RunScene, Disturb, loop, history
<1>13. ASSUME NEW s \in Scenes, NEW p \in Plans, Edit(s, p) PROVE TypeOK'
  BY <1>13 DEF Edit, Disturb, loop
<1>14. ASSUME NEW t \in Times, Suspend(t) PROVE TypeOK'
  BY <1>14 DEF Suspend, Disturb, loop, database, history
<1>15. CASE UNCHANGED vars
  BY <1>15 DEF vars
<1> QED
  BY <1>1, <1>2, <1>3, <1>4, <1>5, <1>6, <1>7, <1>8, <1>9, <1>10, <1>11,
     <1>12, <1>13, <1>14, <1>15 DEF Next, Run

(* Type correctness: the state of the scheduler stays in its types. *)
THEOREM TypeCorrect == Spec => []TypeOK
  BY InitType, TypeStep, PTL DEF Spec

-----------------------------------------------------------------------------
(* A step that launches, plans and notes nothing, and leaves the loop where *)
(* it is or moves it without losing what it has dealt with.                *)
LEMMA QuietStep ==
  ASSUME IInv, TypeOK',
         UNCHANGED <<launches, unnoted>>,
         \A s \in Scenes : lastRun[s] <= lastRun'[s] /\ lastRun'[s] <= now',
         now <= now',
         plan' = plan,
         SleepsAhead', FiresDue',
         plan # {} => pc' = pc,
         pc' # "down" => pc # "down" /\ \A t \in Times : Dealt(t) => Dealt(t)'
  PROVE  IInv'
<1>1. RunsArePast'
  BY DEF RunsArePast
<1>2. \A o \in Occurrences : o[1] \in Scenes /\ o[2] \in Times
  BY DEF Occurrences
<1>3. plan \subseteq Occurrences
  BY DEF IInv, TypeOK
<1>4. PlansAreDue'
  <2> SUFFICES ASSUME plan # {}
               PROVE  /\ pc \in {"catching", "firing"}
                      /\ \A o \in plan : Dealt(o[2])' /\ o[2] <= now'
    BY DEF PlansAreDue
  <2>1. pc \in {"catching", "firing"} /\ \A o \in plan : Dealt(o[2]) /\ o[2] <= now
    BY DEF IInv, PlansAreDue
  <2>2. \A o \in plan : Dealt(o[2])'
    BY <2>1, <1>2, <1>3
  <2>3. \A o \in plan : o[2] <= now'
    <3> TAKE o \in plan
    <3>1. o[2] \in Int /\ now \in Int /\ now' \in Int
      BY <1>2, <1>3 DEF IInv, TypeOK, Times
    <3> QED
      BY <2>1, <3>1
  <2> QED
    BY <2>1, <2>2, <2>3
<1>5. PlansAreNew'
  BY DEF IInv, PlansAreNew
<1>6. LaunchesAreTraced'
  <2> SUFFICES ASSUME NEW o \in Occurrences, o[1] \notin unnoted, launches[o] # 0
               PROVE  o[2] <= lastRun'[o[1]] /\ (pc' # "down" => Dealt(o[2])')
    BY DEF LaunchesAreTraced
  <2>1. o[2] <= lastRun[o[1]] /\ (pc # "down" => Dealt(o[2]))
    BY DEF IInv, LaunchesAreTraced
  <2>2. o[2] <= lastRun'[o[1]]
    <3>1. /\ o[2] \in Int /\ lastRun[o[1]] \in Int /\ lastRun'[o[1]] \in Int
          /\ lastRun[o[1]] <= lastRun'[o[1]]
      BY <1>2 DEF IInv, TypeOK, Times
    <3> QED
      BY <2>1, <3>1
  <2> QED
    BY <1>2, <2>1, <2>2
<1>7. AtMostOnce'
  BY DEF IInv, AtMostOnce
<1> QED
  BY <1>1, <1>4, <1>5, <1>6, <1>7 DEF IInv

(* Every step keeps the invariant. *)
LEMMA InvStep == IInv /\ [Next]_vars => IInv'
<1> SUFFICES ASSUME IInv, [Next]_vars PROVE IInv'
  OBVIOUS
<1> TypeOK /\ TypeOK'
  BY TypeStep DEF IInv
<1>a. /\ now \in Int /\ now' \in Int /\ cursor \in Int /\ cursor' \in Int
      /\ next \in Int /\ next' \in Int
      /\ \A s \in Scenes : lastRun[s] \in Int
      /\ \A t \in Times : t \in Int /\ t # 0
  BY DEF TypeOK, Times
<1>b. \A s \in Scenes : lastRun[s] <= now
  BY DEF IInv, RunsArePast
<1>c. \A o \in Occurrences : o[1] \in Scenes /\ o[2] \in Times
  BY DEF Occurrences
<1>d. plan \subseteq Occurrences /\ plan' \subseteq Occurrences
  BY DEF TypeOK
<1>1. CASE Boot
  <2>1. /\ pc = "down" /\ pc' = "catching" /\ cursor' = now
        /\ UNCHANGED <<now, next, lastRun, launches, unnoted>>
    BY <1>1 DEF Boot, database
  <2>2. \A o \in plan' : ShouldCatchUp(o[1], o[2])
    BY <1>1 DEF Boot, Missed
  <2>3. RunsArePast' /\ SleepsAhead' /\ FiresDue' /\ AtMostOnce'
    BY <2>1 DEF IInv, RunsArePast, SleepsAhead, FiresDue, AtMostOnce
  <2>4. PlansAreDue'
    BY <2>1, <2>2 DEF PlansAreDue, Dealt, ShouldCatchUp, IsLastDue
  <2>5. PlansAreNew'
    BY <1>d, <2>1, <2>2, CatchUpIsNew DEF PlansAreNew
  <2>6. LaunchesAreTraced'
    <3> SUFFICES ASSUME NEW o \in Occurrences, o[1] \notin unnoted, launches[o] # 0
                 PROVE  o[2] <= lastRun[o[1]] /\ o[2] <= now
      BY <2>1 DEF LaunchesAreTraced, Dealt
    <3>1. o[2] <= lastRun[o[1]]
      BY DEF IInv, LaunchesAreTraced
    <3>2. o[2] \in Int /\ lastRun[o[1]] \in Int /\ lastRun[o[1]] <= now
      BY <1>a, <1>b, <1>c
    <3> QED
      BY <1>a, <3>1, <3>2
  <2> QED
    BY <2>3, <2>4, <2>5, <2>6 DEF IInv
<1>2. ASSUME NEW o \in plan, Launch(o) PROVE IInv'
  <2>1. /\ pc \in {"catching", "firing"}
        /\ UNCHANGED <<now, pc, cursor, next>>
        /\ plan' = plan \ {o}
    BY <1>2 DEF Launch, loop
  <2>2. /\ o \in Occurrences /\ o[1] \in Scenes /\ o[2] \in Times
        /\ Dealt(o[2]) /\ o[2] <= now
        /\ o[1] \notin unnoted => launches[o] = 0
    BY <1>c, <1>d DEF IInv, PlansAreDue, PlansAreNew
  <2>3. SleepsAhead' /\ FiresDue' /\ PlansAreDue'
    BY <2>1 DEF IInv, SleepsAhead, FiresDue, PlansAreDue, Dealt
  <2>4. CASE UNCHANGED <<launches, lastRun, unnoted>>
    <3>1. UNCHANGED <<launches, lastRun, unnoted>>
      BY <2>4
    <3>2. RunsArePast' /\ PlansAreNew' /\ AtMostOnce'
      BY <2>1, <3>1 DEF IInv, RunsArePast, PlansAreNew, AtMostOnce
    <3>3. LaunchesAreTraced'
      BY <2>1, <3>1 DEF IInv, LaunchesAreTraced, Dealt
    <3> QED
      BY <2>3, <3>2, <3>3 DEF IInv
  <2>5. CASE /\ launches' = [launches EXCEPT ![o] = @ + 1]
             /\ \/ lastRun' = [lastRun EXCEPT ![o[1]] = now] /\ unnoted' = unnoted
                \/ unnoted' = unnoted \cup {o[1]} /\ lastRun' = lastRun
    <3>1. launches' = [launches EXCEPT ![o] = @ + 1]
      BY <2>5
    <3>2. /\ launches[o] \in Nat /\ launches'[o] = launches[o] + 1
          /\ \A q \in Occurrences : q # o => launches'[q] = launches[q]
      BY <2>2, <3>1 DEF TypeOK
    <3>3. \/ lastRun' = [lastRun EXCEPT ![o[1]] = now] /\ unnoted' = unnoted
          \/ unnoted' = unnoted \cup {o[1]} /\ lastRun' = lastRun
      BY <2>5
    <3>4. \A s \in Scenes : lastRun[s] <= lastRun'[s] /\ lastRun'[s] <= now
      BY <1>a, <1>b, <2>2, <3>3 DEF TypeOK
    <3>5. o[1] \notin unnoted' => lastRun'[o[1]] = now /\ launches'[o] = 1
      BY <2>2, <3>2, <3>3 DEF TypeOK
    <3>6. RunsArePast'
      BY <2>1, <3>4 DEF RunsArePast
    <3>7. PlansAreNew'
      <4> SUFFICES ASSUME NEW q \in plan', q[1] \notin unnoted' PROVE launches'[q] = 0
        BY DEF PlansAreNew
      <4>1. q \in plan /\ q # o /\ q \in Occurrences /\ q[1] \notin unnoted
        BY <1>d, <2>1, <3>3
      <4> QED
        BY <3>2, <4>1 DEF IInv, PlansAreNew
    <3>8. LaunchesAreTraced'
      <4> SUFFICES ASSUME NEW q \in Occurrences, q[1] \notin unnoted', launches'[q] # 0
                   PROVE  q[2] <= lastRun'[q[1]] /\ Dealt(q[2])'
        BY DEF LaunchesAreTraced
      <4>1. CASE q = o
        BY <2>1, <2>2, <3>5, <4>1 DEF Dealt
      <4>2. CASE q # o
        <5>1. launches[q] # 0 /\ q[1] \notin unnoted
          BY <3>2, <3>3, <4>2
        <5>2. q[2] <= lastRun[q[1]] /\ Dealt(q[2])
          BY <2>1, <5>1 DEF IInv, LaunchesAreTraced
        <5>3. q[1] \in Scenes /\ q[2] \in Int
          BY <1>a, <1>c
        <5>4. lastRun'[q[1]] \in Int /\ lastRun[q[1]] \in Int
          BY <5>3 DEF TypeOK
        <5>5. q[2] <= lastRun'[q[1]]
          BY <3>4, <5>2, <5>3, <5>4
        <5> QED
          BY <2>1, <5>2, <5>5 DEF Dealt
      <4> QED
        BY <4>1, <4>2
    <3>9. AtMostOnce'
      <4> SUFFICES ASSUME NEW q \in Occurrences, q[1] \notin unnoted'
                   PROVE  launches'[q] <= 1
        BY DEF AtMostOnce
      <4>1. CASE q = o
        BY <3>5, <4>1
      <4>2. CASE q # o
        BY <3>2, <3>3, <4>2 DEF IInv, AtMostOnce
      <4> QED
        BY <4>1, <4>2
    <3> QED
      BY <2>3, <3>6, <3>7, <3>8, <3>9 DEF IInv
  <2> QED
    BY <1>2, <2>4, <2>5 DEF Launch
<1>3. CASE CaughtUp
  <2>1. /\ pc = "catching" /\ pc' = "reading" /\ plan = {}
        /\ UNCHANGED <<now, cursor, next, plan, lastRun, launches, unnoted>>
    BY <1>3 DEF CaughtUp, loop, database, history
  <2> QED
    BY <1>a, <1>b, <2>1, QuietStep DEF SleepsAhead, FiresDue, Dealt
<1>4. CASE Read
  <2>1. /\ pc = "reading" /\ pc' = "sleeping"
        /\ UNCHANGED <<now, cursor, plan, lastRun, launches, unnoted>>
    BY <1>4 DEF Read, database
  <2>2. next' # 0 => cursor < next'
    BY <1>a, <1>4 DEF Read, IsNextDue, IsNextRun
  <2>3. plan = {}
    BY <2>1 DEF IInv, PlansAreDue
  <2> QED
    BY <1>a, <1>b, <2>1, <2>2, <2>3, QuietStep DEF SleepsAhead, FiresDue, Dealt
<1>5. CASE WakeForReload
  <2>1. /\ pc = "sleeping" /\ pc' = "reading"
        /\ UNCHANGED <<now, next, plan, lastRun, launches, unnoted>>
    BY <1>5 DEF WakeForReload, database, history
  <2>2. plan = {}
    BY <2>1 DEF IInv, PlansAreDue
  <2>3. cursor <= cursor'
    BY <1>a, <1>5, SceneSchedulerAssumption DEF WakeForReload, CursorAfterReload, Later
  <2>4. \A t \in Times : Dealt(t) => Dealt(t)'
    BY <1>a, <2>1, <2>3 DEF Dealt
  <2> QED
    BY <1>a, <1>b, <2>1, <2>2, <2>4, QuietStep DEF SleepsAhead, FiresDue
<1>6. CASE WakeTooEarly
  <2>1. /\ pc = "sleeping" /\ pc' = "reading"
        /\ UNCHANGED <<now, cursor, next, plan, lastRun, launches, unnoted>>
    BY <1>6 DEF WakeTooEarly, loop, database, history
  <2>2. plan = {}
    BY <2>1 DEF IInv, PlansAreDue
  <2> QED
    BY <1>a, <1>b, <2>1, <2>2, QuietStep DEF SleepsAhead, FiresDue, Dealt
<1>7. CASE WakeWhenDue
  <2>1. /\ pc = "sleeping" /\ pc' = "firing"
        /\ UNCHANGED <<now, cursor, next, lastRun, launches, unnoted>>
    BY <1>7 DEF WakeWhenDue, loop, database, history
  <2>2. next # 0 /\ next <= now /\ cursor < next
    BY <1>a, <1>7, <2>1 DEF WakeWhenDue, NothingDue, IInv, SleepsAhead
  <2>3. \A o \in plan' : o[2] = next
    BY <1>7 DEF WakeWhenDue
  <2>4. RunsArePast' /\ SleepsAhead' /\ FiresDue' /\ AtMostOnce'
    BY <2>1, <2>2 DEF IInv, RunsArePast, SleepsAhead, FiresDue, AtMostOnce
  <2>5. PlansAreDue'
    BY <2>1, <2>2, <2>3 DEF PlansAreDue, Dealt
  <2>6. PlansAreNew'
    <3> SUFFICES ASSUME NEW o \in plan', o[1] \notin unnoted, launches[o] # 0
                 PROVE  FALSE
      BY <2>1 DEF PlansAreNew
    <3>1. o \in Occurrences
      BY <1>d
    <3>2. Dealt(o[2])
      BY <2>1, <3>1 DEF IInv, LaunchesAreTraced
    <3> QED
      BY <1>a, <2>1, <2>2, <2>3, <3>2 DEF Dealt
  <2>7. LaunchesAreTraced'
    BY <2>1 DEF IInv, LaunchesAreTraced, Dealt
  <2> QED
    BY <2>4, <2>5, <2>6, <2>7 DEF IInv
<1>8. CASE Fired
  <2>1. /\ pc = "firing" /\ pc' = "reading" /\ plan = {} /\ cursor' = next
        /\ UNCHANGED <<now, next, plan, lastRun, launches, unnoted>>
    BY <1>8 DEF Fired, database, history
  <2>2. cursor < next
    BY <2>1 DEF IInv, SleepsAhead, FiresDue
  <2>3. \A t \in Times : Dealt(t) => Dealt(t)'
    BY <1>a, <2>1, <2>2 DEF Dealt
  <2> QED
    BY <1>a, <1>b, <2>1, <2>3, QuietStep DEF SleepsAhead, FiresDue
<1>9. CASE Tick
  <2>1. now' = now + 1 /\ UNCHANGED <<pc, cursor, next, plan, lastRun, launches, unnoted>>
    BY <1>9 DEF Tick, database, history
  <2>2. now <= now' /\ \A s \in Scenes : lastRun[s] <= lastRun'[s] /\ lastRun'[s] <= now'
    BY <1>a, <1>b, <2>1
  <2>3. SleepsAhead' /\ FiresDue'
    BY <1>a, <2>1, <2>2 DEF IInv, SleepsAhead, FiresDue
  <2> QED
    BY <2>1, <2>2, <2>3, QuietStep DEF Dealt
<1>10. CASE Halt
  <2>1. /\ pc' = "down" /\ plan' = {} /\ next' = 0
        /\ UNCHANGED <<now, lastRun, launches, unnoted>>
    BY <1>10 DEF Halt, database
  <2> QED
    BY <2>1 DEF IInv, RunsArePast, SleepsAhead, FiresDue, PlansAreDue,
                PlansAreNew, LaunchesAreTraced, AtMostOnce
<1>11. ASSUME NEW s \in Scenes, Delete(s) PROVE IInv'
  <2>1. UNCHANGED <<now, pc, cursor, next, plan, lastRun, launches, unnoted>>
    BY <1>11 DEF Delete, loop, history
  <2> QED
    BY <1>a, <1>b, <2>1, QuietStep DEF IInv, SleepsAhead, FiresDue, Dealt
<1>12. ASSUME NEW s \in Scenes, RunScene(s) PROVE IInv'
  <2>1. /\ lastRun' = [lastRun EXCEPT ![s] = now]
        /\ UNCHANGED <<now, pc, cursor, next, plan, launches, unnoted>>
    BY <1>12 DEF RunScene, loop, history
  <2>2. \A q \in Scenes : lastRun[q] <= lastRun'[q] /\ lastRun'[q] <= now'
    BY <1>a, <1>b, <2>1 DEF TypeOK
  <2> QED
    BY <1>a, <2>1, <2>2, QuietStep DEF IInv, SleepsAhead, FiresDue, Dealt
<1>13. ASSUME NEW s \in Scenes, NEW p \in Plans, Edit(s, p) PROVE IInv'
  <2>1. UNCHANGED <<now, pc, cursor, next, plan, lastRun, launches, unnoted>>
    BY <1>13 DEF Edit, loop
  <2> QED
    BY <1>a, <1>b, <2>1, QuietStep DEF IInv, SleepsAhead, FiresDue, Dealt
<1>14. ASSUME NEW t \in Times, Suspend(t) PROVE IInv'
  <2>1. /\ now' = t /\ t > now
        /\ UNCHANGED <<pc, cursor, next, plan, lastRun, launches, unnoted>>
    BY <1>14 DEF Suspend, loop, database, history
  <2>2. now <= now' /\ \A s \in Scenes : lastRun[s] <= lastRun'[s] /\ lastRun'[s] <= now'
    BY <1>a, <1>b, <2>1
  <2>3. SleepsAhead' /\ FiresDue'
    BY <1>a, <2>1, <2>2 DEF IInv, SleepsAhead, FiresDue
  <2> QED
    BY <2>1, <2>2, <2>3, QuietStep DEF Dealt
<1>15. CASE UNCHANGED vars
  <2>1. UNCHANGED <<now, pc, cursor, next, plan, lastRun, launches, unnoted>>
    BY <1>15 DEF vars
  <2> QED
    BY <1>a, <1>b, <2>1, QuietStep DEF IInv, SleepsAhead, FiresDue, Dealt
<1> QED
  BY <1>1, <1>2, <1>3, <1>4, <1>5, <1>6, <1>7, <1>8, <1>9, <1>10, <1>11,
     <1>12, <1>13, <1>14, <1>15 DEF Next, Run

(* No occurrence of a scene is launched twice by the scheduler, whatever   *)
(* the reloads, suspends, stops and restarts, as long as the launches of   *)
(* the scene could be noted in last_run_at.                                *)
THEOREM LaunchedAtMostOnce == Spec => []AtMostOnce
<1>1. IInv => AtMostOnce
  BY DEF IInv
<1> QED
  BY <1>1, InitInv, InvStep, PTL DEF Spec

-----------------------------------------------------------------------------
(* The loop sleeps until the first instant of the scenes as they are, but  *)
(* for those changed since it read them, and knows which are due then.     *)
Foreseen ==
  pc \in {"sleeping", "firing"} /\ next # 0 =>
    \A s \in exists \ edited : \A t \in schedule[s] : cursor < t => next <= t /\ (t = next => s \in due)

(* Once it is awake, each of those is planned or launched, unless it is    *)
(* too late.                                                               *)
NoneForgotten ==
  pc = "firing" =>
    \/ now - next > Grace
    \/ \A s \in due \cap exists : <<s, next>> \in plan \/ Attended(s, next)

(* While it catches up, the last instant of each scene before its start is *)
(* planned or attended to, unless it is too late or a launch was noted.    *)
CatchingUp ==
  pc = "catching" =>
    \A s \in exists \ edited : \A t \in Times :
      IsLastDue(s, t, cursor) => \/ <<s, t>> \in plan \/ Attended(s, t)
                                \/ cursor - t > Grace
                                \/ lastRun[s] >= t

CInv == IInv /\ Foreseen /\ NoneForgotten /\ CatchingUp

LEMMA Numbers ==
  ASSUME TypeOK
  PROVE  /\ now \in Int /\ next \in Int /\ cursor \in Int /\ Grace \in Int /\ Floor \in Int
         /\ \A s \in Scenes : \A t \in schedule[s] : t \in Times
         /\ \A t \in Times : t \in Int
         /\ \A o \in Occurrences : launches[o] \in Nat
  BY SceneSchedulerAssumption DEF TypeOK, Times

LEMMA StaysLate ==
  ASSUME NEW a \in Int, NEW b \in Int, NEW c \in Int, NEW g \in Int, a <= b, a - c > g
  PROVE  b - c > g
  OBVIOUS

(* A step that does not move the loop, and leaves it at most fewer scenes  *)
(* to look at and more launches to its credit.                             *)
LEMMA LoopStays ==
  ASSUME TypeOK, TypeOK', Foreseen, NoneForgotten, now <= now',
         UNCHANGED <<pc, cursor, next, due, plan, launches, dropped>>,
         exists' \subseteq exists,
         \A s \in exists' \ edited' : s \notin edited /\ schedule'[s] = schedule[s]
  PROVE  Foreseen' /\ NoneForgotten'
<1>1. Foreseen'
  BY DEF Foreseen
<1>2. now - next > Grace => now' - next > Grace
  <2>1. now \in Int /\ now' \in Int /\ next \in Int /\ Grace \in Int
    BY SceneSchedulerAssumption DEF TypeOK
  <2>2. next' = next /\ (now - next > Grace => now' - next > Grace)
    BY <2>1, StaysLate
  <2> QED
    BY <2>2
<1>3. NoneForgotten'
  BY <1>2 DEF NoneForgotten, Attended
<1> QED
  BY <1>1, <1>3

LEMMA LaunchForgetsNone ==
  ASSUME TypeOK, FiresDue, Foreseen, NoneForgotten, NEW o \in plan, Launch(o)
  PROVE  Foreseen' /\ NoneForgotten'
<1>1. UNCHANGED <<now, pc, cursor, next, due, schedule, exists, edited>> /\ plan' = plan \ {o}
  BY DEF Launch, loop
<1>2. o \in Occurrences /\ o = <<o[1], o[2]>>
  BY DEF TypeOK, Occurrences
<1>3. Foreseen'
  BY <1>1 DEF Foreseen
<1>4. \A q \in Occurrences : launches[q] > 0 => launches'[q] > 0
  BY Numbers DEF Launch, TypeOK
<1>5. launches'[o] > 0 \/ o \in dropped'
  BY <1>2, Numbers DEF Launch, TypeOK
<1>d. dropped \subseteq dropped'
  BY DEF Launch
<1>6. NoneForgotten'
  <2> SUFFICES ASSUME pc = "firing", ~(now - next > Grace), NEW s \in due \cap exists
               PROVE  \/ <<s, next>> \in plan' \/ launches'[<<s, next>>] > 0
                      \/ <<s, next>> \in dropped'
    BY <1>1 DEF NoneForgotten, Attended
  <2>1. <<s, next>> \in plan \/ launches[<<s, next>>] > 0 \/ <<s, next>> \in dropped
    BY DEF NoneForgotten, Attended
  <2>2. CASE <<s, next>> = o
    BY <1>2, <1>5, <2>2
  <2>3. CASE <<s, next>> \in plan /\ <<s, next>> # o
    BY <1>1, <2>3
  <2>4. CASE <<s, next>> \notin plan
    <3>1. <<s, next>> \in Occurrences
      BY DEF FiresDue, TypeOK, Occurrences, Times
    <3> QED
      BY <1>4, <1>d, <2>1, <2>4, <3>1
  <2> QED
    BY <2>2, <2>3, <2>4
<1> QED
  BY <1>3, <1>6

LEMMA CaughtUpStep ==
  ASSUME TypeOK, TypeOK', FiresDue, Foreseen, NoneForgotten, [Next]_vars
  PROVE  Foreseen' /\ NoneForgotten'
<1>1. CASE Boot
  BY <1>1 DEF Boot, Foreseen, NoneForgotten
<1>2. ASSUME NEW o \in plan, Launch(o) PROVE Foreseen' /\ NoneForgotten'
  BY <1>2, LaunchForgetsNone
<1>3. CASE CaughtUp
  BY <1>3 DEF CaughtUp, Foreseen, NoneForgotten
<1>4. CASE Read
  <2>1. pc' = "sleeping" /\ UNCHANGED <<cursor, schedule, exists>>
    BY <1>4 DEF Read, database
  <2>2. NoneForgotten'
    BY <2>1 DEF NoneForgotten
  <2>3. Foreseen'
    <3> SUFFICES ASSUME next' # 0, NEW s \in exists, NEW t \in schedule[s], cursor < t
                 PROVE  next' <= t /\ (t = next' => s \in due')
      BY <2>1 DEF Foreseen
    <3>1. IsNextDue(next', cursor) /\ due' = {q \in exists : IsNextRun(q, next', cursor)}
      BY <1>4 DEF Read
    <3>2. s \in Scenes /\ t \in Int /\ cursor \in Int
      BY Numbers DEF TypeOK
    <3>3. \A q \in exists : \A u \in schedule[q] : u > cursor => next' <= u
      BY <3>1 DEF IsNextDue
    <3>4. t = next' => IsNextRun(s, next', cursor)
      BY <3>2, <3>3 DEF IsNextRun
    <3> QED
      BY <3>1, <3>2, <3>3, <3>4
  <2> QED
    BY <2>2, <2>3
<1>5. CASE WakeForReload
  BY <1>5 DEF WakeForReload, Foreseen, NoneForgotten
<1>6. CASE WakeTooEarly
  BY <1>6 DEF WakeTooEarly, Foreseen, NoneForgotten
<1>7. CASE WakeWhenDue
  <2>1. /\ pc = "sleeping" /\ pc' = "firing" /\ UNCHANGED <<now, cursor, next, due, schedule, exists, edited>>
        /\ plan' = IF TooLate THEN {} ELSE due \X {next}
    BY <1>7 DEF WakeWhenDue, loop, database, history
  <2>2. Foreseen'
    BY <2>1 DEF Foreseen
  <2>3. NoneForgotten'
    BY <2>1 DEF NoneForgotten, TooLate
  <2> QED
    BY <2>2, <2>3
<1>8. CASE Fired
  BY <1>8 DEF Fired, Foreseen, NoneForgotten
<1>9. CASE Tick
  <2>1. /\ UNCHANGED <<pc, cursor, next, due, plan, launches, dropped, exists, edited, schedule>>
        /\ now <= now'
    BY <1>9, Numbers DEF Tick, database, history
  <2> QED
    BY <2>1, LoopStays
<1>10. CASE Halt
  BY <1>10 DEF Halt, Foreseen, NoneForgotten
<1>11. ASSUME NEW s \in Scenes, Delete(s) PROVE Foreseen' /\ NoneForgotten'
  BY <1>11, LoopStays, Numbers DEF Delete, loop, history
<1>12. ASSUME NEW s \in Scenes, RunScene(s) PROVE Foreseen' /\ NoneForgotten'
  BY <1>12, LoopStays, Numbers DEF RunScene, loop, history
<1>13. ASSUME NEW s \in Scenes, NEW p \in Plans, Edit(s, p) PROVE Foreseen' /\ NoneForgotten'
  <2>1. /\ UNCHANGED <<now, pc, cursor, next, due, plan, launches, dropped, exists>>
        /\ edited' = edited \cup {s} /\ schedule' = [schedule EXCEPT ![s] = p]
    BY <1>13 DEF Edit, loop
  <2>2. \A q \in exists' \ edited' : q \notin edited /\ schedule'[q] = schedule[q]
    BY <2>1 DEF TypeOK
  <2> QED
    BY <2>1, <2>2, LoopStays, Numbers
<1>14. ASSUME NEW t \in Times, Suspend(t) PROVE Foreseen' /\ NoneForgotten'
  <2>1. /\ UNCHANGED <<pc, cursor, next, due, plan, launches, dropped, exists, edited, schedule>>
        /\ now <= now'
    BY <1>14, Numbers DEF Suspend, loop, database, history
  <2> QED
    BY <2>1, LoopStays
<1>15. CASE UNCHANGED vars
  BY <1>15 DEF vars, Foreseen, NoneForgotten, Attended
<1> QED
  BY <1>1, <1>2, <1>3, <1>4, <1>5, <1>6, <1>7, <1>8, <1>9, <1>10, <1>11,
     <1>12, <1>13, <1>14, <1>15 DEF Next, Run

(* A start plans the last instant of each scene, or it was too late or a   *)
(* launch was noted; a launch or an error then takes it off the plan.      *)
LEMMA CatchingUpStep ==
  ASSUME IInv, TypeOK', CatchingUp, [Next]_vars
  PROVE  CatchingUp'
<1> USE DEF CatchingUp, Attended
<1>a. TypeOK /\ RunsArePast
  BY DEF IInv
<1>1. CASE Boot
  <2> SUFFICES ASSUME NEW s \in exists, NEW t \in Times, IsLastDue(s, t, now),
                      ~(now - t > Grace), ~(lastRun[s] >= t)
               PROVE  <<s, t>> \in plan' \/ <<s, t>> \in dropped'
    BY <1>1 DEF Boot, database, IsLastDue
  <2>1. /\ s \in Scenes /\ now \in Int /\ t \in Int /\ Grace \in Int /\ lastRun[s] \in Int
    BY <1>a, Numbers DEF TypeOK
  <2>2. ShouldCatchUp(s, t)
    BY <2>1 DEF ShouldCatchUp
  <2>3. <<s, t>> \in Missed
    BY <2>2 DEF Missed
  <2> QED
    BY <1>1, <2>3 DEF Boot
<1>2. ASSUME NEW o \in plan, Launch(o) PROVE CatchingUp'
  <2>1. /\ UNCHANGED <<now, pc, cursor, schedule, exists, edited>> /\ plan' = plan \ {o}
        /\ dropped \subseteq dropped'
    BY <1>2 DEF Launch, loop
  <2>2. o \in Occurrences /\ o = <<o[1], o[2]>>
    BY <1>a DEF TypeOK, Occurrences
  <2>3. \A q \in Occurrences : launches[q] > 0 => launches'[q] > 0
    BY <1>2, <1>a, Numbers DEF Launch, TypeOK
  <2>4. launches'[o] > 0 \/ o \in dropped'
    BY <1>2, <1>a, <2>2, Numbers DEF Launch, TypeOK
  <2>5. \A s \in Scenes : lastRun[s] <= lastRun'[s] /\ lastRun[s] \in Int /\ lastRun'[s] \in Int
    <3>1. now \in Int /\ \A s \in Scenes : lastRun[s] \in Int /\ lastRun'[s] \in Int
      BY <1>a DEF TypeOK
    <3>2. lastRun' = lastRun \/ lastRun' = [lastRun EXCEPT ![o[1]] = now]
      BY <1>2 DEF Launch
    <3> QED
      BY <1>a, <3>1, <3>2 DEF RunsArePast, TypeOK
  <2> SUFFICES ASSUME pc = "catching", NEW s \in exists \ edited, NEW t \in Times,
                      IsLastDue(s, t, cursor), ~(cursor - t > Grace), ~(lastRun'[s] >= t)
               PROVE  <<s, t>> \in plan' \/ launches'[<<s, t>>] > 0 \/ <<s, t>> \in dropped'
    BY <2>1 DEF IsLastDue
  <2>6. s \in Scenes /\ <<s, t>> \in Occurrences /\ t \in Int
    BY <1>a DEF TypeOK, Occurrences, Times
  <2>7. ~(lastRun[s] >= t)
    BY <2>5, <2>6
  <2>8. <<s, t>> \in plan \/ launches[<<s, t>>] > 0 \/ <<s, t>> \in dropped
    BY <2>7
  <2> QED
    BY <2>1, <2>2, <2>3, <2>4, <2>6, <2>8
<1>3. CASE \/ CaughtUp \/ Read \/ WakeForReload \/ WakeTooEarly \/ WakeWhenDue \/ Fired \/ Halt
  BY <1>3 DEF CaughtUp, Read, WakeForReload, WakeTooEarly, WakeWhenDue, Fired, Halt
<1>4. CASE Tick \/ \E t \in Times : Suspend(t)
  <2>1. UNCHANGED <<pc, cursor, plan, launches, dropped, exists, edited, schedule, lastRun>>
    BY <1>4 DEF Tick, Suspend, loop, database, history
  <2> QED
    BY <2>1 DEF IsLastDue
<1>5. ASSUME NEW s \in Scenes, Delete(s) PROVE CatchingUp'
  <2>1. /\ UNCHANGED <<pc, cursor, plan, launches, dropped, edited, schedule, lastRun>>
        /\ exists' \subseteq exists
    BY <1>5 DEF Delete, loop, history
  <2> QED
    BY <2>1 DEF IsLastDue
<1>6. ASSUME NEW s \in Scenes, RunScene(s) PROVE CatchingUp'
  <2>1. /\ UNCHANGED <<now, pc, cursor, plan, launches, dropped, edited, schedule, exists>>
        /\ lastRun' = [lastRun EXCEPT ![s] = now]
    BY <1>6 DEF RunScene, loop, history
  <2>2. \A q \in Scenes : \A t \in Times : lastRun[q] >= t => lastRun'[q] >= t
    <3>1. now \in Int /\ \A q \in Scenes : lastRun[q] \in Int /\ lastRun[q] <= now
      BY <1>a DEF TypeOK, RunsArePast
    <3> QED
      BY <1>a, <2>1, <3>1 DEF TypeOK, Times
  <2> QED
    BY <1>a, <2>1, <2>2 DEF IsLastDue, TypeOK
<1>7. ASSUME NEW s \in Scenes, NEW p \in Plans, Edit(s, p) PROVE CatchingUp'
  <2>1. /\ UNCHANGED <<pc, cursor, plan, launches, dropped, exists, lastRun>>
        /\ edited' = edited \cup {s} /\ schedule' = [schedule EXCEPT ![s] = p]
    BY <1>7 DEF Edit, loop
  <2>2. \A q \in exists' \ edited' : q \notin edited /\ schedule'[q] = schedule[q]
    BY <1>a, <2>1 DEF TypeOK
  <2> QED
    BY <2>1, <2>2 DEF IsLastDue
<1>8. CASE UNCHANGED vars
  BY <1>8 DEF vars, IsLastDue
<1> QED
  BY <1>1, <1>2, <1>3, <1>4, <1>5, <1>6, <1>7, <1>8 DEF Next, Run

LEMMA CInvariance == Spec => []CInv
<1>1. Init => CInv
  BY InitInv DEF Init, CInv, Foreseen, NoneForgotten, CatchingUp
<1>2. CInv /\ [Next]_vars => CInv'
  <2> SUFFICES ASSUME CInv, [Next]_vars PROVE CInv'
    OBVIOUS
  <2>1. IInv'
    BY InvStep DEF CInv
  <2> QED
    BY <2>1, CaughtUpStep, CatchingUpStep DEF CInv, IInv
<1> QED
  BY <1>1, <1>2, PTL DEF Spec

(* Only a reload or the end of a launch moves the cursor of a loop that    *)
(* goes on: the first skips what is late by the floor, the second leaves   *)
(* behind the one instant it slept until.                                  *)
LEMMA PassStep ==
  ASSUME CInv, [Next]_vars, NEW s \in Scenes, NEW t \in Times, Passes(s, t)
  PROVE  \/ Attended(s, t)
         \/ now - t > Grace
         \/ reload /\ ~reload' /\ now - t >= Floor
<1> USE DEF CInv, IInv
<1>1. /\ pc # "down" /\ pc' # "down" /\ s \in exists \ edited
      /\ t \in schedule[s] /\ cursor < t /\ t <= cursor' /\ t \in Int
  BY Numbers DEF Passes
<1>2. CASE WakeForReload
  BY <1>1, <1>2, Numbers DEF WakeForReload, CursorAfterReload, Later
<1>3. CASE Fired
  <2>1. pc = "firing" /\ plan = {} /\ cursor' = next
    BY <1>3 DEF Fired
  <2>2. next # 0
    BY <2>1 DEF FiresDue
  <2>3. next <= t /\ (t = next => s \in due)
    BY <1>1, <2>1, <2>2 DEF Foreseen
  <2>4. t = next /\ s \in due
    BY <1>1, <2>1, <2>3, Numbers
  <2> QED
    BY <1>1, <2>1, <2>4 DEF NoneForgotten
<1>4. CASE ~WakeForReload /\ ~Fired
  <2>1. pc = "down" \/ pc' = "down" \/ cursor' = cursor
    BY <1>4 DEF Next, Run, vars, loop, Boot, Launch, CaughtUp, Read,
       WakeTooEarly, WakeWhenDue, Tick, Halt, Delete, RunScene, Edit, Suspend
  <2> QED
    BY <1>1, <2>1, Numbers
<1> QED
  BY <1>2, <1>3, <1>4

(* A start ends with nothing left to catch up.                             *)
LEMMA StartStep ==
  ASSUME CInv, [Next]_vars, NEW s \in Scenes, NEW t \in Times, StartsAfter(s, t)
  PROVE  Attended(s, t) \/ cursor - t > Grace \/ lastRun[s] >= t
<1>1. /\ pc = "catching" /\ pc' = "reading" /\ s \in exists \ edited
      /\ IsLastDue(s, t, cursor)
  BY DEF StartsAfter
<1>2. plan = {}
  BY <1>1 DEF Next, Run, vars, loop, Boot, Launch, CaughtUp, Read, WakeForReload, WakeTooEarly,
              WakeWhenDue, Fired, Tick, Halt, Delete, RunScene, Edit, Suspend
<1> QED
  BY <1>1, <1>2 DEF CInv, CatchingUp

(* What a stop, a suspended machine or a late loop made it miss by less    *)
(* than the window is caught up, unless a launch was noted since, the      *)
(* scenes could not be read, or the change of a scene woke the loop up     *)
(* (engine.go Run, nextDue, catchUp).                                      *)
THEOREM MissedIsCaughtUp == Spec => MissedIsCaughtUpUnlessReload
<1>1. CInv /\ [Next]_vars =>
        [\A s \in Scenes, t \in Times :
           /\ StartsAfter(s, t) => \/ Attended(s, t)
                                   \/ cursor - t > Grace
                                   \/ lastRun[s] >= t
           /\ Passes(s, t) => \/ Attended(s, t)
                              \/ now - t > Grace
                              \/ reload /\ ~reload' /\ now - t >= Floor]_vars
  BY PassStep, StartStep
<1> QED
  BY <1>1, CInvariance, PTL DEF Spec, MissedIsCaughtUpUnlessReload

-----------------------------------------------------------------------------
(***************************************************************************)
(* The search.  NextRun is the first instant ahead and LastDue the last    *)
(* one behind, for any calendar, any hours of the sun and any schedules:   *)
(* the search of nine days leaves none out.                                *)
(*                                                                         *)
(* A schedule searched day by day gives the first instant because a day    *)
(* that is later has a later instant; several schedules together, because  *)
(* the first of the firsts is the first.  The first element of a set of    *)
(* numbers exists because the naturals are well founded.                   *)
(***************************************************************************)
(* The least and the greatest of a bounded set of numbers.                 *)
LessThan == {ss \in Nat \X Nat : ss[1] < ss[2]}

LEMMA LessThanIsWellFounded == IsWellFoundedOn(LessThan, Nat)
  BY NatLessThanWellFounded, Zenon DEF OpToRel, LessThan

LEMMA SmallestOf ==
  ASSUME NEW S \in SUBSET Nat, S # {}
  PROVE  \E x \in S : \A y \in S : x <= y
<1>1. PICK x \in S : \A y \in S : ~(<<y, x>> \in LessThan)
  BY WFMin, LessThanIsWellFounded
<1>2. ASSUME NEW y \in S
      PROVE  x <= y
  <2>1. x \in Nat /\ y \in Nat
    OBVIOUS
  <2>2. ~(y < x)
    <3>1. <<y, x>> \in Nat \X Nat
      BY <2>1
    <3>2. <<y, x>>[1] = y /\ <<y, x>>[2] = x
      OBVIOUS
    <3> QED
      BY <1>1, <3>1, <3>2, Zenon DEF LessThan
  <2> QED
    BY <2>1, <2>2
<1> QED
  BY <1>2

(* Numbers that bound each other are equal.                                *)
LEMMA Antisymmetry == \A i, j \in Int : i <= j /\ j <= i => i = j
  OBVIOUS

LEMMA MinIs ==
  ASSUME NEW S \in SUBSET Int, S # {}, NEW b \in Int, \A y \in S : b <= y
  PROVE  Min(S) \in S /\ \A y \in S : Min(S) <= y
<1> DEFINE T == {n \in Nat : b + n \in S}
<1>1. T # {}
  <2>1. PICK y \in S : TRUE
    OBVIOUS
  <2>2. y \in Int /\ b <= y
    OBVIOUS
  <2>3. y - b \in Nat /\ b + (y - b) = y
    BY <2>2
  <2> QED
    BY <2>1, <2>3
<1>2. PICK x \in T : \A y \in T : x <= y
  <2> HIDE DEF T
  <2>1. T \in SUBSET Nat
    BY DEF T
  <2> QED
    BY <1>1, <2>1, SmallestOf
<1>3. ASSUME NEW y \in S
      PROVE  b + x <= y
  <2>1. y \in Int /\ b <= y /\ x \in Nat
    OBVIOUS
  <2>2. y - b \in Nat /\ b + (y - b) = y
    BY <2>1
  <2>3. y - b \in T
    BY <2>2
  <2>4. x <= y - b
    BY <1>2, <2>3
  <2> QED
    BY <2>1, <2>4
<1>4. \E m \in S : \A y \in S : m <= y
  BY <1>3
<1> QED
  BY <1>4, Zenon DEF Min

LEMMA MaxIs ==
  ASSUME NEW S \in SUBSET Int, S # {}, NEW b \in Int, \A y \in S : y <= b
  PROVE  Max(S) \in S /\ \A y \in S : y <= Max(S)
<1> DEFINE T == {n \in Nat : b - n \in S}
<1>1. T # {}
  <2>1. PICK y \in S : TRUE
    OBVIOUS
  <2>2. y \in Int /\ y <= b
    OBVIOUS
  <2>3. b - y \in Nat /\ b - (b - y) = y
    BY <2>2
  <2> QED
    BY <2>1, <2>3
<1>2. PICK x \in T : \A y \in T : x <= y
  <2> HIDE DEF T
  <2>1. T \in SUBSET Nat
    BY DEF T
  <2> QED
    BY <1>1, <2>1, SmallestOf
<1>3. ASSUME NEW y \in S
      PROVE  b - x >= y
  <2>1. y \in Int /\ y <= b /\ x \in Nat
    OBVIOUS
  <2>2. b - y \in Nat /\ b - (b - y) = y
    BY <2>1
  <2>3. b - y \in T
    BY <2>2
  <2>4. x <= b - y
    BY <1>2, <2>3
  <2> QED
    BY <2>1, <2>4
<1>4. \E m \in S : \A y \in S : m >= y
  BY <1>3
<1>5. Max(S) \in S /\ \A y \in S : Max(S) >= y
  BY <1>4, Zenon DEF Max
<1>6. \A y \in S : y \in Int /\ Max(S) \in Int
  BY <1>5
<1> QED
  BY <1>5, <1>6

(* An element that bounds the others is the least, or the greatest.        *)
LEMMA IsMin ==
  ASSUME NEW S \in SUBSET Int, NEW m \in S, \A y \in S : m <= y
  PROVE  Min(S) = m
<1>1. Min(S) \in S /\ \A y \in S : Min(S) <= y
  BY Zenon DEF Min
<1>2. Min(S) \in Int /\ m \in Int /\ Min(S) <= m /\ m <= Min(S)
  BY <1>1
<1> QED
  BY <1>2, Antisymmetry

LEMMA IsMax ==
  ASSUME NEW S \in SUBSET Int, NEW m \in S, \A y \in S : y <= m
  PROVE  Max(S) = m
<1>1. \A y \in S : m >= y
  <2> SUFFICES ASSUME NEW y \in S
               PROVE  m >= y
    OBVIOUS
  <2>1. m \in Int /\ y \in Int /\ y <= m
    OBVIOUS
  <2> QED
    BY <2>1
<1>2. Max(S) \in S /\ \A y \in S : Max(S) >= y
  BY <1>1, Zenon DEF Max
<1>3. Max(S) \in Int /\ m \in Int /\ Max(S) >= m /\ Max(S) <= m
  BY <1>2
<1> QED
  BY <1>3, Antisymmetry

-----------------------------------------------------------------------------
(* The days and their instants.                                            *)
LEMMA DaysAre ==
  /\ \A d \in Days : d \in Int /\ Midnight[d] \in Int
  /\ \A d, e \in Days : \A x \in Int : d <= x /\ x <= e => x \in Days
  /\ \A d, e \in Days : d < e => Midnight[d] < Midnight[e]
  /\ \A d, e \in Days : d <= e => Midnight[d] <= Midnight[e]
  BY ScheduleNextAssumption

LEMMA OccurrenceIs ==
  ASSUME NEW s \in Schedules, NEW d \in Days
  PROVE  Occurrence(s, d) \in Int
<1>1. /\ Midnight[d] \in Int /\ Sunrise[d] \in Int /\ Sunset[d] \in Int
      /\ \A h \in Hours : Elapsed[d][h] \in Int
  BY ScheduleNextAssumption
<1>2. /\ s.time \in Hours /\ s.offset \in Int
      /\ s.notBefore = None \/ s.notBefore \in Hours
      /\ s.notAfter = None \/ s.notAfter \in Hours
  BY ScheduleNextAssumption
<1>3. \A h \in Hours : At(d, h) \in Int
  BY <1>1 DEF At
<1>4. Solar(s, d) \in Int
  BY <1>1, <1>2, <1>3 DEF Solar, Latest, Earliest
<1> QED
  BY <1>2, <1>3, <1>4 DEF Occurrence

LEMMA DayIs ==
  ASSUME NEW t \in Instants
  PROVE  /\ t \in Int /\ DayOf(t) \in Queried /\ DayOf(t) \in Days /\ DayOf(t) + 1 \in Days
         /\ Midnight[DayOf(t)] <= t /\ t < Midnight[DayOf(t) + 1]
         /\ \A i \in 0..8 : DayOf(t) + i \in Days /\ DayOf(t) - i \in Days
<1>1. PICK d \in Queried : t \in Midnight[d] .. (Midnight[d + 1] - 1)
  BY DEF Instants
<1>2. d \in Days /\ d \in Int /\ \A i \in 0..8 : d + i \in Days /\ d - i \in Days
  BY ScheduleNextAssumption
<1>3. d + 1 \in Days
  BY <1>2
<1>4. t \in Int /\ Midnight[d] <= t /\ t < Midnight[d + 1]
  BY <1>1, <1>2, <1>3, DaysAre
<1>5. ASSUME NEW e \in Days, Midnight[e] <= t, e + 1 \in Days => t < Midnight[e + 1]
      PROVE  e = d
  <2>1. CASE e < d
    <3>1. e + 1 \in Days /\ e + 1 <= d
      BY <1>2, <2>1, DaysAre
    <3> QED
      BY <1>2, <1>4, <1>5, <3>1, DaysAre
  <2>2. CASE d < e
    <3>1. d + 1 <= e
      BY <1>2, <2>2, DaysAre
    <3> QED
      BY <1>3, <1>4, <1>5, <3>1, DaysAre
  <2> QED
    BY <1>2, <2>1, <2>2, DaysAre
<1>6. DayOf(t) = d
  BY <1>2, <1>4, <1>5 DEF DayOf
<1> QED
  BY <1>2, <1>3, <1>4, <1>6

-----------------------------------------------------------------------------
(* What the two searches return, day by day.                               *)
LEMMA NextIs ==
  ASSUME NEW s \in Schedules, NEW t \in Instants
  PROVE  \/ /\ NextInstant(s, t) = None
            /\ \A k \in 0..8 : Fires(s, DayOf(t) + k) => ~(Occurrence(s, DayOf(t) + k) > t)
         \/ \E j \in 0..8 :
              /\ Fires(s, DayOf(t) + j) /\ Occurrence(s, DayOf(t) + j) > t
              /\ NextInstant(s, t) = Occurrence(s, DayOf(t) + j)
              /\ \A k \in 0..8 :
                   Fires(s, DayOf(t) + k) /\ Occurrence(s, DayOf(t) + k) > t => j <= k
<1> DEFINE F == {i \in Horizon : Fires(s, DayOf(t) + i) /\ Occurrence(s, DayOf(t) + i) > t}
<1>1. NextInstant(s, t) = IF F = {} THEN None ELSE Occurrence(s, DayOf(t) + Min(F))
  BY Zenon DEF NextInstant
<1>2. \A i : i \in F <=> /\ i \in 0..8 /\ Fires(s, DayOf(t) + i)
                         /\ Occurrence(s, DayOf(t) + i) > t
  BY Zenon DEF Horizon
<1>3. F \in SUBSET Int /\ 0 \in Int /\ \A i \in F : 0 <= i
  BY DEF Horizon
<1> HIDE DEF F
<1>4. CASE F = {}
  BY <1>1, <1>2, <1>4, Zenon
<1>5. CASE F # {}
  <2>1. Min(F) \in F /\ \A i \in F : Min(F) <= i
    BY <1>3, <1>5, MinIs, Zenon
  <2>2. NextInstant(s, t) = Occurrence(s, DayOf(t) + Min(F))
    BY <1>1, <1>5, Zenon
  <2> QED
    BY <1>2, <2>1, <2>2, Zenon
<1> QED
  BY <1>4, <1>5

LEMMA PrevIs ==
  ASSUME NEW s \in Schedules, NEW t \in Instants
  PROVE  \/ /\ PrevInstant(s, t) = None
            /\ \A k \in 0..8 : Fires(s, DayOf(t) - k) => ~(Occurrence(s, DayOf(t) - k) <= t)
         \/ \E j \in 0..8 :
              /\ Fires(s, DayOf(t) - j) /\ Occurrence(s, DayOf(t) - j) <= t
              /\ PrevInstant(s, t) = Occurrence(s, DayOf(t) - j)
              /\ \A k \in 0..8 :
                   Fires(s, DayOf(t) - k) /\ Occurrence(s, DayOf(t) - k) <= t => j <= k
<1> DEFINE F == {i \in Horizon : Fires(s, DayOf(t) - i) /\ Occurrence(s, DayOf(t) - i) <= t}
<1>1. PrevInstant(s, t) = IF F = {} THEN None ELSE Occurrence(s, DayOf(t) - Min(F))
  BY Zenon DEF PrevInstant
<1>2. \A i : i \in F <=> /\ i \in 0..8 /\ Fires(s, DayOf(t) - i)
                         /\ Occurrence(s, DayOf(t) - i) <= t
  BY Zenon DEF Horizon
<1>3. F \in SUBSET Int /\ 0 \in Int /\ \A i \in F : 0 <= i
  BY DEF Horizon
<1> HIDE DEF F
<1>4. CASE F = {}
  BY <1>1, <1>2, <1>4, Zenon
<1>5. CASE F # {}
  <2>1. Min(F) \in F /\ \A i \in F : Min(F) <= i
    BY <1>3, <1>5, MinIs, Zenon
  <2>2. PrevInstant(s, t) = Occurrence(s, DayOf(t) - Min(F))
    BY <1>1, <1>5, Zenon
  <2> QED
    BY <1>2, <2>1, <2>2, Zenon
<1> QED
  BY <1>4, <1>5

(* A schedule that keeps to its day and recurs: the search finds the first *)
(* of all its instants after t.                                            *)
LEMMA NextOf ==
  ASSUME NEW s \in Schedules, NEW t \in Instants, KeepsToItsDay(s), Recurring(s)
  PROVE  \E d \in Days :
           /\ Fires(s, d) /\ Occurrence(s, d) > t /\ NextInstant(s, t) = Occurrence(s, d)
           /\ \A e \in Days : Fires(s, e) /\ Occurrence(s, e) > t =>
                Occurrence(s, d) <= Occurrence(s, e)
<1>1. PICK D \in Days : /\ D = DayOf(t) /\ D \in Queried /\ D \in Int /\ t \in Int
                        /\ Midnight[D] <= t /\ D + 1 \in Days /\ t < Midnight[D + 1]
                        /\ \A i \in 0..8 : D + i \in Days
  BY DayIs, DaysAre
<1>2. \A d \in Days : Fires(s, d) =>
        /\ Occurrence(s, d) \in Int /\ Midnight[d] <= Occurrence(s, d)
        /\ (d + 1 \in Days => Occurrence(s, d) < Midnight[d + 1])
  BY OccurrenceIs DEF KeepsToItsDay
<1>3. PICK i \in 1..8 : Fires(s, D + i)
  BY <1>1 DEF Recurring
<1>4. D + i \in Days /\ D + 1 <= D + i /\ i \in 0..8
  BY <1>1, <1>3
<1>5. Occurrence(s, D + i) > t
  BY <1>1, <1>2, <1>3, <1>4, DaysAre
<1>6. PICK j \in 0..8 :
        /\ Fires(s, D + j) /\ Occurrence(s, D + j) > t
        /\ NextInstant(s, t) = Occurrence(s, D + j)
        /\ \A k \in 0..8 : Fires(s, D + k) /\ Occurrence(s, D + k) > t => j <= k
  BY <1>1, <1>3, <1>4, <1>5, NextIs, Zenon
<1>7. ASSUME NEW e \in Days, Fires(s, e), Occurrence(s, e) > t
      PROVE  Occurrence(s, D + j) <= Occurrence(s, e)
  <2>1. e \in Int /\ D + j \in Days /\ D + j \in Int /\ j \in Int
    BY <1>1, DaysAre
  <2>2. D <= e
    <3> SUFFICES ASSUME e < D
                 PROVE  FALSE
      BY <1>1, <2>1
    <3>1. e + 1 \in Days /\ e + 1 <= D
      BY <1>1, <2>1, DaysAre
    <3>2. Occurrence(s, e) < Midnight[e + 1] /\ Midnight[e + 1] <= Midnight[D]
      BY <1>2, <1>7, <3>1, DaysAre
    <3> QED
      BY <1>1, <1>2, <1>7, <3>1, <3>2, DaysAre
  <2>3. j <= e - D
    <3>1. CASE e - D <= 8
      <4>1. e - D \in 0..8 /\ D + (e - D) = e
        BY <1>1, <2>1, <2>2, <3>1
      <4> QED
        BY <1>6, <1>7, <4>1
    <3>2. CASE ~(e - D <= 8)
      BY <1>1, <2>1, <3>2
    <3> QED
      BY <3>1, <3>2
  <2>4. CASE D + j = e
    BY <1>2, <1>7, <2>4
  <2>5. CASE D + j < e
    <3>1. D + j + 1 \in Days /\ D + j + 1 <= e
      BY <1>1, <2>1, <2>5, DaysAre
    <3>2. Occurrence(s, D + j) < Midnight[D + j + 1] /\ Midnight[D + j + 1] <= Midnight[e]
      BY <1>2, <1>6, <2>1, <3>1, DaysAre
    <3> QED
      BY <1>2, <1>6, <1>7, <2>1, <3>1, <3>2, DaysAre
  <2> QED
    BY <1>1, <2>1, <2>3, <2>4, <2>5
<1>8. D + j \in Days
  BY <1>1
<1> QED
  BY <1>6, <1>7, <1>8, Zenon

(* A schedule whose instants follow the days and never precede theirs, and *)
(* that recurs: the search backwards finds the last of all up to t.        *)
LEMMA PrevOf ==
  ASSUME NEW s \in Schedules, NEW t \in Instants, Recurring(s), InOrder(s),
         \A d \in Days : Fires(s, d) => Midnight[d] <= Occurrence(s, d)
  PROVE  \E d \in Days :
           /\ Fires(s, d) /\ Occurrence(s, d) <= t /\ PrevInstant(s, t) = Occurrence(s, d)
           /\ \A e \in Days : Fires(s, e) /\ Occurrence(s, e) <= t =>
                Occurrence(s, e) <= Occurrence(s, d)
<1>1. PICK D \in Days : /\ D = DayOf(t) /\ D \in Queried /\ D \in Int /\ t \in Int
                        /\ Midnight[D] <= t /\ D + 1 \in Days /\ t < Midnight[D + 1]
                        /\ \A i \in 0..8 : D - i \in Days
  BY DayIs, DaysAre
<1>2. \A d \in Days : Fires(s, d) =>
        /\ Occurrence(s, d) \in Int /\ Midnight[d] <= Occurrence(s, d)
        /\ (d + 2 \in Days => Occurrence(s, d) < Midnight[d + 2])
  BY OccurrenceIs DEF InOrder
<1>3. PICK i \in 2..8 : Fires(s, D - i)
  BY <1>1 DEF Recurring
<1>4. D - i \in Days /\ i \in 0..8 /\ D - i + 2 \in Days /\ D - i + 2 <= D
  <2>1. i - 2 \in 0..8 /\ D - i + 2 = D - (i - 2)
    BY <1>1
  <2> QED
    BY <1>1, <1>3, <2>1
<1>5. Occurrence(s, D - i) <= t
  BY <1>1, <1>2, <1>3, <1>4, DaysAre
<1>6. PICK j \in 0..8 :
        /\ Fires(s, D - j) /\ Occurrence(s, D - j) <= t
        /\ PrevInstant(s, t) = Occurrence(s, D - j)
        /\ \A k \in 0..8 : Fires(s, D - k) /\ Occurrence(s, D - k) <= t => j <= k
  BY <1>1, <1>3, <1>4, <1>5, PrevIs, Zenon
<1>7. ASSUME NEW e \in Days, Fires(s, e), Occurrence(s, e) <= t
      PROVE  Occurrence(s, e) <= Occurrence(s, D - j)
  <2>1. e \in Int /\ D - j \in Days /\ D - j \in Int /\ j \in Int
    BY <1>1, DaysAre
  <2>2. e <= D
    <3> SUFFICES ASSUME D < e
                 PROVE  FALSE
      BY <1>1, <2>1
    <3>1. Midnight[D + 1] <= Midnight[e]
      BY <1>1, <2>1, DaysAre
    <3> QED
      BY <1>1, <1>2, <1>7, <3>1, DaysAre
  <2>3. e <= D - j
    <3>1. CASE D - e <= 8
      <4>1. D - e \in 0..8 /\ D - (D - e) = e
        BY <1>1, <2>1, <2>2, <3>1
      <4>2. j <= D - e
        BY <1>6, <1>7, <4>1
      <4> QED
        BY <1>1, <2>1, <4>2
    <3>2. CASE ~(D - e <= 8)
      BY <1>1, <2>1, <3>2
    <3> QED
      BY <3>1, <3>2
  <2>4. CASE e = D - j
    BY <1>2, <1>7, <2>4
  <2>5. CASE e < D - j
    <3>1. Occurrence(s, e) < Occurrence(s, D - j)
      BY <1>6, <1>7, <2>1, <2>5 DEF InOrder
    <3> QED
      BY <1>2, <1>6, <1>7, <2>1, <3>1
  <2> QED
    BY <1>1, <2>1, <2>3, <2>4, <2>5
<1>8. D - j \in Days
  BY <1>1
<1> QED
  BY <1>6, <1>7, <1>8, Zenon

-----------------------------------------------------------------------------
LEMMA AllIs ==
  ASSUME NEW sc
  PROVE  \A u : u \in AllOf(sc) <=>
           \E s \in Enabled(sc) : \E d \in Days : Fires(s, d) /\ u = Occurrence(s, d)
<1> SUFFICES ASSUME NEW u
             PROVE  u \in AllOf(sc) <=>
                      \E s \in Enabled(sc) : \E d \in Days : Fires(s, d) /\ u = Occurrence(s, d)
  OBVIOUS
<1>1. u \in AllOf(sc) <=>
        \E s \in Enabled(sc) : u \in {Occurrence(s, d) : d \in {e \in Days : Fires(s, e)}}
  BY DEF AllOf
<1>2. \A s : u \in {Occurrence(s, d) : d \in {e \in Days : Fires(s, e)}} <=>
              \E d \in Days : Fires(s, d) /\ u = Occurrence(s, d)
  OBVIOUS
<1> QED
  BY <1>1, <1>2, Zenon

(* The first of the firsts is the first, the last of the lasts the last.   *)
LEMMA FirstOfAll ==
  ASSUME NEW sc \in SUBSET Schedules, NEW t \in Instants, Ahead(sc, t) # {},
         \A s \in sc : KeepsToItsDay(s) /\ Recurring(s)
  PROVE  NextRun(sc, t) = Min(Ahead(sc, t))
<1> DEFINE A == Ahead(sc, t)
           N == {NextInstant(s, t) : s \in Enabled(sc)} \ {None}
<1>1. \A u : u \in A <=> /\ u > t
                         /\ \E s \in Enabled(sc) : \E d \in Days :
                              Fires(s, d) /\ u = Occurrence(s, d)
  <2>1. \A u : u \in A <=> u \in AllOf(sc) /\ u > t
    BY DEF Ahead
  <2> HIDE DEF A
  <2> QED
    BY <2>1, AllIs
<1>2. \A n : n \in N <=> n # None /\ \E s \in Enabled(sc) : n = NextInstant(s, t)
  BY Zenon
<1>3. NextRun(sc, t) = IF N = {} THEN None ELSE Min(N)
  BY Zenon DEF NextRun
<1>4. A # {}
  OBVIOUS
<1> HIDE DEF A, N
<1>5. \A s \in Enabled(sc) : s \in sc /\ s \in Schedules
  BY DEF Enabled
<1>6. \A s \in Enabled(sc) : \E d \in Days :
        /\ Fires(s, d) /\ Occurrence(s, d) > t
        /\ NextInstant(s, t) = Occurrence(s, d) /\ Occurrence(s, d) \in Int
        /\ \A e \in Days : Fires(s, e) /\ Occurrence(s, e) > t =>
             Occurrence(s, d) <= Occurrence(s, e)
  BY <1>5, NextOf, OccurrenceIs, Zenon
<1>7. \A u \in A : u \in Int
  <2> SUFFICES ASSUME NEW u \in A
               PROVE  u \in Int
    OBVIOUS
  <2>1. PICK s \in Enabled(sc), d \in Days : u = Occurrence(s, d)
    BY <1>1
  <2> QED
    BY <1>5, <2>1, OccurrenceIs
<1>8. \A s \in Enabled(sc) : NextInstant(s, t) # None
  BY <1>6, ScheduleNextAssumption, Zenon
<1>9. \A n \in N : n \in A
  <2> SUFFICES ASSUME NEW n \in N
               PROVE  n \in A
    OBVIOUS
  <2>1. PICK s \in Enabled(sc) : n = NextInstant(s, t)
    BY <1>2
  <2>2. PICK d \in Days : Fires(s, d) /\ Occurrence(s, d) > t /\ n = Occurrence(s, d)
    BY <1>6, <2>1, Zenon
  <2> QED
    BY <1>1, <2>2, Zenon
<1>10. \A u \in A : \E n \in N : n <= u
  <2> SUFFICES ASSUME NEW u \in A
               PROVE  \E n \in N : n <= u
    OBVIOUS
  <2>1. PICK s \in Enabled(sc), e \in Days :
          Fires(s, e) /\ u = Occurrence(s, e) /\ Occurrence(s, e) > t
    BY <1>1
  <2>2. NextInstant(s, t) <= u
    BY <1>6, <2>1, Zenon
  <2>3. NextInstant(s, t) \in N
    BY <1>2, <1>8, Zenon
  <2> QED
    BY <2>2, <2>3
<1>11. t \in Int /\ N \in SUBSET Int /\ A \in SUBSET Int /\ N # {}
  BY <1>4, <1>7, <1>9, <1>10, DayIs
<1>12. \A n \in N : t <= n
  <2> SUFFICES ASSUME NEW n \in N
               PROVE  t <= n
    OBVIOUS
  <2>1. n \in Int /\ t \in Int
    BY <1>11
  <2>2. n > t
    BY <1>1, <1>9
  <2> QED
    BY <2>1, <2>2
<1>13. Min(N) \in N /\ \A n \in N : Min(N) <= n
  BY <1>11, <1>12, MinIs, Zenon
<1>14. Min(N) \in A
  BY <1>9, <1>13
<1>15. ASSUME NEW u \in A
       PROVE  Min(N) <= u
  <2>1. PICK n \in N : n <= u
    BY <1>10
  <2>2. Min(N) \in Int /\ n \in Int /\ u \in Int /\ Min(N) <= n
    BY <1>7, <1>11, <1>13
  <2> QED
    BY <2>1, <2>2
<1>16. Min(A) = Min(N)
  BY <1>11, <1>14, <1>15, IsMin, Zenon
<1> QED
  BY <1>3, <1>11, <1>16, Zenon DEF A

LEMMA LastOfAll ==
  ASSUME NEW sc \in SUBSET Schedules, NEW t \in Instants, Behind(sc, t) # {},
         \A s \in sc : Recurring(s) /\ InOrder(s),
         \A s \in sc : \A d \in Days : Fires(s, d) => Midnight[d] <= Occurrence(s, d)
  PROVE  LastDue(sc, t) = Max(Behind(sc, t))
<1> DEFINE A == Behind(sc, t)
           N == {PrevInstant(s, t) : s \in Enabled(sc)} \ {None}
<1>1. \A u : u \in A <=> /\ u <= t
                         /\ \E s \in Enabled(sc) : \E d \in Days :
                              Fires(s, d) /\ u = Occurrence(s, d)
  <2>1. \A u : u \in A <=> u \in AllOf(sc) /\ u <= t
    BY DEF Behind
  <2> HIDE DEF A
  <2> QED
    BY <2>1, AllIs
<1>2. \A n : n \in N <=> n # None /\ \E s \in Enabled(sc) : n = PrevInstant(s, t)
  BY Zenon
<1>3. LastDue(sc, t) = IF N = {} THEN None ELSE Max(N)
  BY Zenon DEF LastDue
<1>4. A # {}
  OBVIOUS
<1> HIDE DEF A, N
<1>5. \A s \in Enabled(sc) : s \in sc /\ s \in Schedules
  BY DEF Enabled
<1>6. \A s \in Enabled(sc) : \E d \in Days :
        /\ Fires(s, d) /\ Occurrence(s, d) <= t
        /\ PrevInstant(s, t) = Occurrence(s, d) /\ Occurrence(s, d) \in Int
        /\ \A e \in Days : Fires(s, e) /\ Occurrence(s, e) <= t =>
             Occurrence(s, e) <= Occurrence(s, d)
  BY <1>5, PrevOf, OccurrenceIs, Zenon
<1>7. \A u \in A : u \in Int
  <2> SUFFICES ASSUME NEW u \in A
               PROVE  u \in Int
    OBVIOUS
  <2>1. PICK s \in Enabled(sc), d \in Days : u = Occurrence(s, d)
    BY <1>1
  <2> QED
    BY <1>5, <2>1, OccurrenceIs
<1>8. \A s \in Enabled(sc) : PrevInstant(s, t) # None
  BY <1>6, ScheduleNextAssumption, Zenon
<1>9. \A n \in N : n \in A
  <2> SUFFICES ASSUME NEW n \in N
               PROVE  n \in A
    OBVIOUS
  <2>1. PICK s \in Enabled(sc) : n = PrevInstant(s, t)
    BY <1>2
  <2>2. PICK d \in Days : Fires(s, d) /\ Occurrence(s, d) <= t /\ n = Occurrence(s, d)
    BY <1>6, <2>1, Zenon
  <2> QED
    BY <1>1, <2>2, Zenon
<1>10. \A u \in A : \E n \in N : u <= n
  <2> SUFFICES ASSUME NEW u \in A
               PROVE  \E n \in N : u <= n
    OBVIOUS
  <2>1. PICK s \in Enabled(sc), e \in Days :
          Fires(s, e) /\ u = Occurrence(s, e) /\ Occurrence(s, e) <= t
    BY <1>1
  <2>2. u <= PrevInstant(s, t)
    BY <1>6, <2>1, Zenon
  <2>3. PrevInstant(s, t) \in N
    BY <1>2, <1>8, Zenon
  <2> QED
    BY <2>2, <2>3
<1>11. t \in Int /\ N \in SUBSET Int /\ A \in SUBSET Int /\ N # {}
  BY <1>4, <1>7, <1>9, <1>10, DayIs
<1>12. \A n \in N : n <= t
  <2> SUFFICES ASSUME NEW n \in N
               PROVE  n <= t
    OBVIOUS
  <2>1. n \in Int /\ t \in Int
    BY <1>11
  <2>2. n <= t
    BY <1>1, <1>9
  <2> QED
    BY <2>1, <2>2
<1>13. Max(N) \in N /\ \A n \in N : n <= Max(N)
  BY <1>11, <1>12, MaxIs, Zenon
<1>14. Max(N) \in A
  BY <1>9, <1>13
<1>15. ASSUME NEW u \in A
       PROVE  u <= Max(N)
  <2>1. PICK n \in N : u <= n
    BY <1>10
  <2>2. Max(N) \in Int /\ n \in Int /\ u \in Int /\ n <= Max(N)
    BY <1>7, <1>11, <1>13
  <2> QED
    BY <2>1, <2>2
<1>16. Max(A) = Max(N)
  BY <1>11, <1>14, <1>15, IsMax, Zenon
<1> QED
  BY <1>3, <1>11, <1>16, Zenon DEF A

-----------------------------------------------------------------------------
(* The scene keeps its schedules and the cursor is an instant of them.     *)
WalkInv == scene \in SUBSET Schedules /\ from \in Instants

LEMMA WalkKeeps == WalkSpec => []WalkInv
<1>1. WalkInit => WalkInv
  BY DEF WalkInit, WalkInv, kSubset
<1>2. WalkInv /\ [Walk]_walk => WalkInv'
  BY DEF WalkInv, Walk, walk
<1> QED
  BY <1>1, <1>2, PTL DEF WalkSpec

(* NextRun, whatever the clock changes and the sun: the launch that Run    *)
(* waits for is the first instant of the scene after the cursor, when its *)
(* schedules recur and none is carried out of its day.                     *)
THEOREM FirstAhead ==
  ASSUME \A s \in Schedules : Recurring(s)
  PROVE  WalkSpec => []NextIsFirstWithinDays
<1>1. WalkInv => NextIsFirstWithinDays
  <2> SUFFICES ASSUME WalkInv, \A s \in scene : KeepsToItsDay(s), Ahead(scene, from) # {}
               PROVE  NextRun(scene, from) = Min(Ahead(scene, from))
    BY DEF NextIsFirstWithinDays, NextIsFirst
  <2>1. scene \in SUBSET Schedules /\ from \in Instants
    BY DEF WalkInv
  <2>2. \A s \in scene : KeepsToItsDay(s) /\ Recurring(s)
    BY <2>1
  <2> QED
    BY <2>1, <2>2, FirstOfAll, Zenon
<1> QED
  BY <1>1, WalkKeeps, PTL

(* lastDue: what catchUp looks at after an interruption is the last of the *)
(* scene's instants up to the cursor, even one carried past midnight, when *)
(* its schedules recur, follow the days and none is carried back a day.    *)
THEOREM LastBehind ==
  ASSUME \A s \in Schedules : Recurring(s) /\ InOrder(s)
  PROVE  WalkSpec => []LastIsLastUnlessCarriedBack
<1>1. WalkInv => LastIsLastUnlessCarriedBack
  <2> SUFFICES ASSUME WalkInv, Behind(scene, from) # {},
                      \A s \in scene : \A d \in Days :
                        Fires(s, d) => Midnight[d] <= Occurrence(s, d)
               PROVE  LastDue(scene, from) = Max(Behind(scene, from))
    BY DEF LastIsLastUnlessCarriedBack
  <2>1. scene \in SUBSET Schedules /\ from \in Instants
    BY DEF WalkInv
  <2>2. \A s \in scene : Recurring(s) /\ InOrder(s)
    BY <2>1
  <2> QED
    BY <2>1, <2>2, LastOfAll, Zenon
<1> QED
  BY <1>1, WalkKeeps, PTL

(* From an instant of a schedule that follows the days, the next instant   *)
(* that is found leaves none out: if there are several days between them,  *)
(* the schedule does not fire on those.                                    *)
LEMMA NoneBetween ==
  ASSUME NEW s \in Schedules, InOrder(s),
         NEW c \in Days, Fires(s, c), Occurrence(s, c) \in Instants,
         NextInstant(s, Occurrence(s, c)) # None,
         NEW e \in Days, Fires(s, e), Occurrence(s, e) > Occurrence(s, c)
  PROVE  NextInstant(s, Occurrence(s, c)) <= Occurrence(s, e)
<1> DEFINE t == Occurrence(s, c)
<1>1. t \in Instants /\ t = Occurrence(s, c) /\ NextInstant(s, t) # None
  OBVIOUS
<1> HIDE DEF t
<1>2. PICK D \in Days : /\ D = DayOf(t) /\ D \in Int /\ t \in Int /\ Midnight[D] <= t
                        /\ \A i \in 0..8 : D + i \in Days
  BY <1>1, DayIs, DaysAre
<1>3. c \in Int /\ e \in Int /\ Occurrence(s, e) \in Int /\ Occurrence(s, e) > t
  BY <1>1, DaysAre, OccurrenceIs
<1>4. PICK j \in 0..8 :
        /\ Fires(s, D + j) /\ Occurrence(s, D + j) > t
        /\ NextInstant(s, t) = Occurrence(s, D + j)
        /\ \A k \in 0..8 : Fires(s, D + k) /\ Occurrence(s, D + k) > t => j <= k
  BY <1>1, <1>2, NextIs, Zenon
<1>5. D <= c + 1
  <2> SUFFICES ASSUME c + 2 <= D
               PROVE  FALSE
    BY <1>2, <1>3
  <2>1. c + 2 \in Days /\ c + 2 \in Int
    BY <1>2, <1>3, DaysAre
  <2>2. t < Midnight[c + 2]
    BY <1>1, <2>1 DEF InOrder
  <2> QED
    BY <1>2, <2>1, <2>2, DaysAre
<1>6. c < e
  <2>1. CASE e < c
    <3>1. Occurrence(s, e) < t
      BY <1>1, <2>1 DEF InOrder
    <3> QED
      BY <1>2, <1>3, <3>1
  <2>2. CASE e = c
    BY <1>1, <1>2, <1>3, <2>2
  <2> QED
    BY <1>3, <2>1, <2>2
<1>7. j <= e - D
  <2>1. D <= e
    BY <1>2, <1>3, <1>5, <1>6
  <2>2. CASE e - D <= 8
    <3>1. e - D \in 0..8 /\ D + (e - D) = e
      BY <1>2, <1>3, <2>1, <2>2
    <3> QED
      BY <1>3, <1>4, <3>1
  <2>3. CASE ~(e - D <= 8)
    BY <1>2, <1>3, <2>3
  <2> QED
    BY <2>2, <2>3
<1>8. D + j \in Days /\ D + j \in Int /\ Occurrence(s, D + j) \in Int
  BY <1>2, DaysAre, OccurrenceIs
<1>9. CASE D + j = e
  BY <1>1, <1>3, <1>4, <1>9
<1>10. CASE D + j < e
  <2>1. Occurrence(s, D + j) < Occurrence(s, e)
    BY <1>4, <1>8, <1>10 DEF InOrder
  <2> QED
    BY <1>1, <1>3, <1>4, <1>8, <2>1
<1> QED
  BY <1>2, <1>3, <1>7, <1>8, <1>9, <1>10

(* The loop of Run over Next: launching each instant and searching on from *)
(* it, a schedule that follows the days is launched at all of them, even   *)
(* when its offset carries it past midnight.                               *)
THEOREM WalkIsComplete ==
  ASSUME \A s \in Schedules : InOrder(s)
  PROVE  WalkSpec => WalkLeavesNothingOut
<1>1. ASSUME WalkInv, Walk, IsSingleton(scene), from \in AllOf(scene),
             NEW u \in AllOf(scene), from < u, u < from'
      PROVE  FALSE
  <2>1. PICK s : scene = {s}
    BY <1>1 DEF IsSingleton
  <2>2. s \in Schedules /\ InOrder(s) /\ from \in Instants
    BY <1>1, <2>1 DEF WalkInv
  <2>3. \A v \in AllOf(scene) : s \in Enabled(scene) /\ \E d \in Days :
          Fires(s, d) /\ v = Occurrence(s, d)
    <3> SUFFICES ASSUME NEW v \in AllOf(scene)
                 PROVE  s \in Enabled(scene) /\ \E d \in Days :
                          Fires(s, d) /\ v = Occurrence(s, d)
      OBVIOUS
    <3>1. PICK r \in Enabled(scene) : \E d \in Days : Fires(r, d) /\ v = Occurrence(r, d)
      BY AllIs
    <3>2. r = s
      BY <2>1 DEF Enabled
    <3> QED
      BY <3>1, <3>2
  <2>4. PICK c \in Days : Fires(s, c) /\ from = Occurrence(s, c)
    BY <1>1, <2>3
  <2>5. PICK e \in Days : Fires(s, e) /\ u = Occurrence(s, e)
    BY <2>3
  <2>6. Enabled(scene) = {s}
    BY <1>1, <2>1, <2>3 DEF Enabled
  <2>7. from' = NextRun(scene, from) /\ from' \in Int
    <3>1. from' = NextRun(scene, from) /\ from' \in Instants
      BY <1>1 DEF Walk
    <3> QED
      BY <3>1 DEF Instants
  <2>8. from' = NextInstant(s, from) /\ NextInstant(s, from) # None
    <3> DEFINE firsts == {NextInstant(r, from) : r \in Enabled(scene)} \ {None}
    <3>1. NextRun(scene, from) = IF firsts = {} THEN None ELSE Min(firsts)
      BY Zenon DEF NextRun
    <3>2. firsts # {} /\ NextRun(scene, from) = Min(firsts)
      BY <2>7, <3>1, ScheduleNextAssumption
    <3>3. firsts = {NextInstant(s, from)} /\ NextInstant(s, from) # None
      BY <2>6, <3>2
    <3>4. Min({NextInstant(s, from)}) = NextInstant(s, from)
      <4>1. NextInstant(s, from) \in Int
        BY <2>2, <3>3, NextIs, DayIs, OccurrenceIs
      <4> QED
        BY <4>1, IsMin
    <3> QED
      BY <2>7, <3>2, <3>3, <3>4
  <2>9. u > from
    BY <1>1, <2>2, <2>5, DayIs, OccurrenceIs
  <2>10. from' <= u
    BY <2>2, <2>4, <2>5, <2>8, <2>9, NoneBetween, Zenon
  <2>11. u \in Int
    BY <2>2, <2>5, OccurrenceIs
  <2> QED
    BY <1>1, <2>7, <2>10, <2>11
<1>2. WalkInv /\ [Walk]_walk =>
        [IsSingleton(scene) /\ from \in AllOf(scene) =>
           \A u \in AllOf(scene) : ~(from < u /\ u < from')]_walk
  BY <1>1
<1> QED
  BY <1>2, WalkKeeps, PTL DEF WalkSpec, WalkLeavesNothingOut
=============================================================================
