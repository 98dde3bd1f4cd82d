--------------------------- MODULE SceneScheduler ---------------------------
(***************************************************************************)
(* The scheduler of scenes: the loop of Run, nextDue, catchUp and Reload   *)
(* of internal/scenes/engine.go.                                           *)
(*                                                                         *)
(* A schedule is the set of instants at which it falls due (how the days,  *)
(* the clock and the sun make them is another matter).  Time is counted in *)
(* ticks.  The wall clock and the timer advance together, but a suspended  *)
(* machine moves only the first.  The loop may be late by any number of    *)
(* ticks at every step.                                                    *)
(***************************************************************************)
EXTENDS Integers, FiniteSets

CONSTANTS
  Scenes,
  MaxTime,           \* bound on the clock
  Plans,             \* the sets of instants a scene may be given
  Grace,             \* catchUpWindow
  Floor,             \* the second Run goes back when the scenes change
  MaxSleep,          \* maxSleep
  MaxDisturbances,   \* bound on edits, launches by hand, suspends and stops
  MaySuspend,        \* the machine may be suspended
  ReadsMayFail,      \* ListScenes and GetScene may fail
  WritesMayFail      \* StartSceneRun may fail

Times == 1..MaxTime

ASSUME SceneSchedulerAssumption ==
  /\ MaxTime \in Nat
  /\ Plans \subseteq SUBSET Times
  /\ {} \in Plans
  /\ Grace \in Nat /\ Floor \in Nat /\ MaxSleep \in Nat
  /\ MaxDisturbances \in Nat
  /\ MaySuspend \in BOOLEAN /\ ReadsMayFail \in BOOLEAN /\ WritesMayFail \in BOOLEAN

VARIABLES
  now,       \* the wall clock
  pc,        \* where the loop of Run is
  cursor,    \* everything due until then has been dealt with
  next,      \* the instant it sleeps until, 0 if nothing is due
  due,       \* the scenes due at next
  timer,     \* what is left of the sleep
  plan,      \* the occurrences it is triggering, one after the other
  reload,    \* the channel reload holds a signal
  schedule,  \* the instants of each scene, in the database
  exists,    \* the scenes in the database
  lastRun,   \* column last_run_at, 0 for NULL
  disturbances,
  \* History variables.
  launches,  \* how many times the scheduler has launched each occurrence
  edited,    \* scenes changed since the loop last read them
  unnoted,   \* scenes launched without a trace in last_run_at
  dropped    \* occurrences this process did not launch because a read failed

loop     == <<cursor, next, due, timer>>
database == <<schedule, exists, lastRun>>
history  == <<launches, edited, unnoted, dropped>>
vars == <<now, pc, cursor, next, due, timer, plan, reload, schedule, exists,
          lastRun, disturbances, launches, edited, unnoted, dropped>>

Occurrences == Scenes \X Times

TypeOK ==
  /\ now \in 0..MaxTime
  /\ pc \in {"down", "catching", "reading", "sleeping", "firing"}
  /\ cursor \in Int
  /\ next \in 0..MaxTime
  /\ due \subseteq Scenes
  /\ timer \in 0..MaxSleep
  /\ plan \subseteq Occurrences
  /\ reload \in BOOLEAN
  /\ schedule \in [Scenes -> Plans]
  /\ exists \subseteq Scenes
  /\ lastRun \in [Scenes -> 0..MaxTime]
  /\ disturbances \in 0..MaxDisturbances
  /\ launches \in [Occurrences -> Nat]
  /\ edited \subseteq Scenes
  /\ unnoted \subseteq Scenes
  /\ dropped \subseteq Occurrences

-----------------------------------------------------------------------------
(* The schedules of the scenes, as the loop reads them.                    *)

Later(a, b)   == IF a > b THEN a ELSE b
Earlier(a, b) == IF a < b THEN a ELSE b

(* lastDue: the last instant of s until t. *)
IsLastDue(s, due_at, t) ==
  /\ due_at \in schedule[s] /\ due_at <= t
  /\ \A u \in schedule[s] : u <= t => u <= due_at

(* NextRun: the first instant of s after t. *)
IsNextRun(s, due_at, t) ==
  /\ due_at \in schedule[s] /\ due_at > t
  /\ \A u \in schedule[s] : u > t => due_at <= u

(* nextDue: the first instant after t, all scenes together. *)
IsNextDue(due_at, t) ==
  /\ \E s \in exists : IsNextRun(s, due_at, t)
  /\ \A s \in exists : \A u \in schedule[s] : u > t => due_at <= u

(* shouldCatchUp *)
ShouldCatchUpIfWindowOnly(s, due_at) ==
  IsLastDue(s, due_at, now) /\ now - due_at <= Grace
ShouldCatchUp(s, due_at) ==
  /\ IsLastDue(s, due_at, now)
  /\ now - due_at <= Grace
  /\ lastRun[s] < due_at

-----------------------------------------------------------------------------
Init ==
  /\ now = 0
  /\ pc = "down"
  /\ cursor = 0 /\ next = 0 /\ due = {} /\ timer = 0 /\ plan = {}
  /\ reload = FALSE
  /\ schedule \in [Scenes -> Plans]
  /\ exists = Scenes
  /\ lastRun = [s \in Scenes |-> 0]
  /\ disturbances = 0
  /\ launches = [o \in Occurrences |-> 0]
  /\ edited = {} /\ unnoted = {} /\ dropped = {}

(***************************************************************************)
(* Run.                                                                    *)
(***************************************************************************)

(* The service starts: the clock is read once, the scenes once; when they  *)
(* cannot be read nothing is caught up.                                    *)
Missed == {o \in exists \X Times : ShouldCatchUp(o[1], o[2])}

Boot ==
  /\ pc = "down"
  /\ pc' = "catching"
  /\ cursor' = now
  /\ \/ plan' = Missed /\ UNCHANGED dropped
     \/ ReadsMayFail /\ plan' = {} /\ dropped' = Missed
  /\ UNCHANGED <<now, next, due, timer, reload, database, disturbances, launches,
                 edited, unnoted>>

(* Trigger launches an occurrence and notes the launch in last_run_at;     *)
(* when it cannot read the scene, which may be gone, the error is logged   *)
(* and the occurrence is not tried again.                                  *)
Launch(o) ==
  LET s == o[1] IN
  /\ pc \in {"catching", "firing"} /\ o \in plan
  /\ plan' = plan \ {o}
  /\ \/ /\ s \in exists
        /\ launches' = [launches EXCEPT ![o] = @ + 1]
        /\ \/ lastRun' = [lastRun EXCEPT ![s] = now] /\ UNCHANGED unnoted
           \/ WritesMayFail /\ unnoted' = unnoted \cup {s} /\ UNCHANGED lastRun
        /\ UNCHANGED dropped
     \/ /\ s \notin exists \/ ReadsMayFail
        /\ dropped' = dropped \cup {o}
        /\ UNCHANGED <<launches, lastRun, unnoted>>
  /\ UNCHANGED <<now, pc, loop, reload, schedule, exists, disturbances, edited>>

CaughtUp ==
  /\ pc = "catching" /\ plan = {}
  /\ pc' = "reading"
  /\ UNCHANGED <<now, loop, plan, reload, database, disturbances, history>>

(* The loop looks for the next instant and goes to sleep until then, or    *)
(* for one hour at most.                                                   *)
ToSleepUnbounded(target) == Later(target - now, 0)
ToSleep(target) == Earlier(Later(target - now, 0), MaxSleep)

Read ==
  /\ pc = "reading"
  /\ pc' = "sleeping"
  /\ \/ \E t \in Times :
          /\ IsNextDue(t, cursor)
          /\ next' = t
          /\ due' = {s \in exists : IsNextRun(s, t, cursor)}
          /\ timer' = ToSleep(t)
     \/ /\ ReadsMayFail \/ ~\E t \in Times : IsNextDue(t, cursor)
        /\ next' = 0 /\ due' = {} /\ timer' = MaxSleep
  /\ edited' = {}
  /\ UNCHANGED <<now, cursor, plan, reload, database, disturbances, launches,
                 unnoted, dropped>>

(* The scenes have changed: the loop reads them again, from its cursor or  *)
(* from one second ago.                                                    *)
CursorAfterReloadAtNow == Later(cursor, now)
CursorAfterReload == Later(cursor, now - Floor)

WakeForReload ==
  /\ pc = "sleeping" /\ reload
  /\ pc' = "reading"
  /\ reload' = FALSE
  /\ cursor' = CursorAfterReload
  /\ UNCHANGED <<now, next, due, timer, plan, database, disturbances, history>>

(* The timer may wake the loop up before the instant, or with none. *)
NothingDueInverted == next = 0 \/ now > next
NothingDue == next = 0 \/ now < next

WakeTooEarly ==
  /\ pc = "sleeping" /\ timer = 0
  /\ NothingDue
  /\ pc' = "reading"
  /\ UNCHANGED <<now, loop, plan, reload, database, disturbances, history>>

(* The timer wakes the loop up: the scenes due are launched, unless it is  *)
(* too late.                                                               *)
TooLate == now - next > Grace

WakeWhenDue ==
  /\ pc = "sleeping" /\ timer = 0
  /\ ~NothingDue
  /\ pc' = "firing"
  /\ plan' = IF TooLate THEN {} ELSE due \X {next}
  /\ UNCHANGED <<now, loop, reload, database, disturbances, history>>

Fired ==
  /\ pc = "firing" /\ plan = {}
  /\ pc' = "reading"
  /\ cursor' = next
  /\ UNCHANGED <<now, next, due, timer, plan, reload, database, disturbances, history>>

(***************************************************************************)
(* The rest of the world.                                                  *)
(***************************************************************************)

Disturb == disturbances < MaxDisturbances /\ disturbances' = disturbances + 1

(* The API creates or changes a scene, then signals it. *)
Edit(s, instants) ==
  /\ pc # "down" /\ s \in exists /\ Disturb
  /\ schedule' = [schedule EXCEPT ![s] = instants]
  /\ reload' = TRUE
  /\ edited' = edited \cup {s}
  /\ UNCHANGED <<now, pc, loop, plan, exists, lastRun, launches, unnoted, dropped>>

Delete(s) ==
  /\ pc # "down" /\ s \in exists /\ Disturb
  /\ exists' = exists \ {s}
  /\ reload' = TRUE
  /\ UNCHANGED <<now, pc, loop, plan, schedule, lastRun, history>>

(* A launch by hand. *)
RunScene(s) ==
  /\ pc # "down" /\ s \in exists /\ Disturb
  /\ lastRun' = [lastRun EXCEPT ![s] = now]
  /\ UNCHANGED <<now, pc, loop, plan, reload, schedule, exists, history>>

(* The service stops, at any point. *)
Halt ==
  /\ pc # "down" /\ Disturb
  /\ pc' = "down"
  /\ cursor' = 0 /\ next' = 0 /\ due' = {} /\ timer' = 0 /\ plan' = {}
  /\ reload' = FALSE
  /\ edited' = {} /\ dropped' = {}
  /\ UNCHANGED <<now, database, launches, unnoted>>

Tick ==
  /\ now < MaxTime
  /\ now' = now + 1
  /\ timer' = Later(timer - 1, 0)
  /\ UNCHANGED <<pc, cursor, next, due, plan, reload, database, disturbances, history>>

(* The machine is suspended: its timers are too. *)
Suspend(until) ==
  /\ MaySuspend /\ pc # "down" /\ until > now /\ Disturb
  /\ now' = until
  /\ UNCHANGED <<pc, loop, plan, reload, database, history>>

-----------------------------------------------------------------------------
Run ==
  \/ Boot \/ CaughtUp \/ Read \/ WakeForReload \/ WakeTooEarly \/ WakeWhenDue
  \/ Fired
  \/ \E o \in plan : Launch(o)

Next ==
  \/ Run \/ Tick \/ Halt
  \/ \E s \in Scenes : Delete(s) \/ RunScene(s) \/ \E p \in Plans : Edit(s, p)
  \/ \E t \in Times : Suspend(t)

Spec == Init /\ [][Next]_vars

(* The loop is scheduled, the clock goes on. *)
FairSpec == Spec /\ WF_vars(Run) /\ WF_vars(Tick)

-----------------------------------------------------------------------------
(***************************************************************************)
(* Properties.                                                             *)
(***************************************************************************)

(* No occurrence is launched twice by the scheduler, across reloads, stops *)
(* and catch-ups; except for a scene whose launch could not be noted.      *)
AtMostOnce ==
  \A o \in Occurrences : o[1] \notin unnoted => launches[o] <= 1

(* The scheduler has launched the instant t of s, or could not read it. *)
Attended(s, t) == launches[<<s, t>>] > 0 \/ <<s, t>> \in dropped

(* The loop leaves the instant t of s behind it. *)
Passes(s, t) ==
  /\ pc # "down" /\ pc' # "down"
  /\ s \in exists \ edited
  /\ t \in schedule[s] /\ cursor < t /\ t <= cursor'

(* A start leaves behind it the last instant of s before it. *)
StartsAfter(s, t) ==
  /\ pc = "catching" /\ pc' = "reading"
  /\ s \in exists \ edited
  /\ IsLastDue(s, t, cursor)

(* engine.go:27-30: an occurrence missed by less than the window, because  *)
(* of a restart or a suspended machine, is caught up.  A start attends to  *)
(* the last instant of each scene, unless a launch was noted since; the    *)
(* loop to every instant it passes, unless it was woken up by a change of  *)
(* scenes, which makes it skip what is late, but never what falls due at   *)
(* that very instant.                                                      *)
MissedIsCaughtUpUnlessReload ==
  [][\A s \in Scenes, t \in Times :
       /\ StartsAfter(s, t) => \/ Attended(s, t)
                               \/ cursor - t > Grace
                               \/ lastRun[s] >= t
       /\ Passes(s, t) => \/ Attended(s, t)
                          \/ now - t > Grace
                          \/ reload /\ ~reload' /\ now - t >= Floor]_vars

(* An instant does not stay ahead of the loop for ever: whatever changes   *)
(* and early wake-ups come in between, it is dealt with, or no longer      *)
(* scheduled.                                                              *)
DueIsProcessed ==
  \A t \in Times :
    (pc # "down" /\ cursor < t) ~>
      (pc = "down" \/ cursor >= t \/ \A s \in exists : t \notin schedule[s])
=============================================================================
