----------------------------- MODULE SceneEngine -----------------------------
(***************************************************************************)
(* The life of scene executions: internal/scenes/engine.go (Run, Trigger,  *)
(* finish) with the columns last_status of internal/store/scenes.go and    *)
(* the start and stop of cmd/domotic/main.go around them.                  *)
(*                                                                         *)
(* Every call of Trigger is a launch.  A launch goes through the steps the *)
(* code takes between two points where another goroutine may run: reading  *)
(* the scene, the two halves of the critical section, StartSceneRun outside *)
(* the mutex, the execution, the critical section of finish, and           *)
(* FinishSceneRun outside the mutex.  What an execution does in between is *)
(* the subject of SceneExecution; here it ends with any outcome it may     *)
(* return.                                                                 *)
(***************************************************************************)
EXTENDS Naturals, FiniteSets

CONSTANTS
  Scenes,               \* scene ids (AUTOINCREMENT: an id is never reused)
  Launches,             \* the calls of Trigger that may happen
  Target,               \* the scene each launch is for
  Scheduled,            \* the launches made by the scheduler, not by the API
  NoLaunch,             \* nil
  Outcome,              \* success, partial, failed: the issue of a full execution
  ShutdownMayTimeOut,   \* srv.Shutdown may give up on a running handler
  MaxBoots              \* bound on the number of process starts

ASSUME SceneEngineAssumption ==
  /\ Target \in [Launches -> Scenes]
  /\ Scheduled \subseteq Launches
  /\ NoLaunch \notin Launches
  /\ ShutdownMayTimeOut \in BOOLEAN
  /\ MaxBoots \in Nat

(* The issues the engine itself writes are not outcomes of an execution. *)
ASSUME OutcomeAssumption == Outcome \cap {"", "interrupted", "running"} = {}

VARIABLES
  phase,       \* where Engine.Run is
  ctxDone,     \* the service's context is cancelled
  boots,       \* process starts so far
  mu,          \* the launch that holds e.mu, or NoLaunch
  runs,        \* e.runs: the execution registered for each scene
  pc,          \* where each launch is
  token,       \* execution.token of each launch
  cancelled,   \* launches whose cancel function was called by a relaunch
  result,      \* the issue an execution returned, then the one to be written
  exists,      \* the rows of table scene
  lastStatus,  \* column last_status
  \* History variables: they record what happened and guard nothing.
  swept,       \* InterruptRunningScenes has succeeded in this process
  latest,      \* the last launch registered for each scene in this process
  raced,       \* scenes for which a window left open by the mutex was crossed
  unwritten,   \* scenes whose last launch could not write its issue
  inside       \* the launch that held the mutex when the context was cancelled

memory  == <<mu, runs, token, cancelled>>
history == <<swept, latest, raced, unwritten, inside>>
vars == <<phase, ctxDone, boots, mu, runs, pc, token, cancelled, result,
          exists, lastStatus, swept, latest, raced, unwritten, inside>>

Phase == {"down", "starting", "rooted", "serving", "returned"}
Step  == {"idle", "loaded", "checked", "registered", "executing", "executed",
          "released", "done"}
Issue   == Outcome \cup {"", "interrupted"}
Status  == Issue \cup {"running"}

TypeOK ==
  /\ phase \in Phase
  /\ ctxDone \in BOOLEAN
  /\ boots \in 0..MaxBoots
  /\ mu \in Launches \cup {NoLaunch}
  /\ runs \in [Scenes -> Launches \cup {NoLaunch}]
  /\ pc \in [Launches -> Step]
  /\ token \in [Launches -> Nat]
  /\ cancelled \subseteq Launches
  /\ result \in [Launches -> Issue]
  /\ exists \subseteq Scenes
  /\ lastStatus \in [Scenes -> Status]
  /\ swept \in BOOLEAN
  /\ latest \in [Scenes -> Launches \cup {NoLaunch}]
  /\ raced \subseteq Scenes
  /\ unwritten \subseteq Scenes
  /\ inside \in Launches \cup {NoLaunch}

-----------------------------------------------------------------------------
(* Launches by where they are.                                             *)

LaunchesOf(s) == {r \in Launches : Target[r] = s}

(* Inside Trigger: the caller (a handler, or Run itself) has not returned. *)
InTrigger(r) == pc[r] \in {"loaded", "checked", "registered"}

(* Registered and not yet through finish's critical section. *)
Live(r) == pc[r] \in {"registered", "executing", "executed"}

(* Counted by e.wg. *)
Counted(r) == Live(r) \/ pc[r] = "released"

(* The run's context, a child of root, is done. *)
ContextDone(r) == ctxDone \/ r \in cancelled

RootSet == phase \notin {"down", "starting"}

(* The database handle is open: not before start, not after stop. *)
Up == phase # "down"

-----------------------------------------------------------------------------
Init ==
  /\ phase = "down"
  /\ ctxDone = FALSE
  /\ boots = 0
  /\ mu = NoLaunch
  /\ runs = [s \in Scenes |-> NoLaunch]
  /\ pc = [r \in Launches |-> "idle"]
  /\ token = [r \in Launches |-> 0]
  /\ cancelled = {}
  /\ result = [r \in Launches |-> ""]
  /\ exists = Scenes
  /\ lastStatus = [s \in Scenes |-> ""]
  /\ swept = FALSE
  /\ latest = [s \in Scenes |-> NoLaunch]
  /\ raced = {}
  /\ unwritten = {}
  /\ inside = NoLaunch

(***************************************************************************)
(* The service: start, Engine.Run, stop, crash.                            *)
(***************************************************************************)

(* A process starts: New, then the HTTP server and Run concurrently. *)
Start ==
  /\ phase = "down"
  /\ boots < MaxBoots
  /\ phase' = "starting"
  /\ boots' = boots + 1
  /\ UNCHANGED <<ctxDone, pc, result, exists, lastStatus, memory, history>>

(* Run publishes its context under the mutex. *)
SetRoot ==
  /\ phase = "starting"
  /\ mu = NoLaunch
  /\ phase' = "rooted"
  /\ UNCHANGED <<ctxDone, boots, pc, result, exists, lastStatus, memory, history>>

(* UPDATE scene SET last_status = interrupted WHERE last_status = running. *)
SweptStatusKept(status) == status
SweptStatus(status) ==
  [s \in Scenes |-> IF s \in exists /\ status[s] = "running"
                      THEN "interrupted" ELSE status[s]]

(* Run calls InterruptRunningScenes; a cancelled context makes it fail,    *)
(* which is logged and changes nothing.                                    *)
Sweep ==
  /\ phase = "rooted"
  /\ phase' = "serving"
  /\ lastStatus' = IF ctxDone THEN lastStatus ELSE SweptStatus(lastStatus)
  /\ swept' = ~ctxDone
  /\ UNCHANGED <<ctxDone, boots, pc, result, exists, memory, latest, raced,
                 unwritten, inside>>

(* stop: srv.Shutdown waits for the handlers, for ten seconds at most, then *)
(* the context of the background loops is cancelled.                       *)
Stop ==
  /\ Up /\ ~ctxDone
  /\ ShutdownMayTimeOut \/ \A r \in Launches \ Scheduled : ~InTrigger(r)
  /\ ctxDone' = TRUE
  /\ inside' = mu
  /\ UNCHANGED <<phase, boots, pc, result, exists, lastStatus, memory, swept,
                 latest, raced, unwritten>>

(* What e.wg.Wait waits for. *)
WaitedExecuteOnly == \A r \in Launches : pc[r] \notin {"registered", "executing"}
Waited == \A r \in Launches : ~Counted(r)

(* Run sees its context done, waits for the executions and returns.  It is *)
(* not in Trigger at that moment.                                          *)
Return ==
  /\ phase = "serving" /\ ctxDone
  /\ \A r \in Scheduled : ~InTrigger(r)
  /\ Waited
  /\ phase' = "returned"
  /\ UNCHANGED <<ctxDone, boots, pc, result, exists, lastStatus, memory, history>>

(* What a process's end leaves: the database, and nothing of the memory. *)
ProcessEnds ==
  /\ phase' = "down"
  /\ ctxDone' = FALSE
  /\ mu' = NoLaunch
  /\ runs' = [s \in Scenes |-> NoLaunch]
  /\ pc' = [r \in Launches |-> IF pc[r] = "idle" THEN "idle" ELSE "done"]
  /\ token' = [r \in Launches |-> 0]
  /\ cancelled' = {}
  /\ result' = [r \in Launches |-> ""]
  /\ swept' = FALSE
  /\ latest' = [s \in Scenes |-> NoLaunch]
  /\ raced' = {}
  /\ unwritten' = {}
  /\ inside' = NoLaunch
  /\ UNCHANGED <<boots, exists, lastStatus>>

(* stop closes the database once Run has returned. *)
Exit == phase = "returned" /\ ProcessEnds

(* A power cut, a kill, or stop giving up on Run after five seconds. *)
Crash == Up /\ ProcessEnds

(* DELETE /api/scenes/{id}: the row goes, a running execution does not. *)
DeleteScene(s) ==
  /\ Up /\ ~ctxDone
  /\ s \in exists
  /\ exists' = exists \ {s}
  /\ lastStatus' = [lastStatus EXCEPT ![s] = ""]
  /\ unwritten' = unwritten \ {s}
  /\ UNCHANGED <<phase, ctxDone, boots, pc, result, memory, swept, latest,
                 raced, inside>>

(***************************************************************************)
(* Trigger.                                                                *)
(***************************************************************************)

Goto(r, step) == pc' = [pc EXCEPT ![r] = step]

(* GetScene finds the scene.  The scheduler triggers from the goroutine of *)
(* Run, one launch at a time, once it has swept.                           *)
Load(r) ==
  /\ pc[r] = "idle"
  /\ Up /\ ~ctxDone
  /\ Target[r] \in exists
  /\ r \in Scheduled => /\ phase = "serving"
                        /\ \A q \in Scheduled : ~InTrigger(q)
  /\ Goto(r, "loaded")
  /\ UNCHANGED <<phase, ctxDone, boots, result, exists, lastStatus, memory, history>>

(* The test on root: ErrNotStarted, and the mutex is released at once. *)
Accepted == RootSet /\ ~ctxDone
HolderAfterTestLeaked(r) == r
HolderAfterTest(r) == IF Accepted THEN r ELSE NoLaunch

Lock(r) ==
  /\ pc[r] = "loaded"
  /\ mu = NoLaunch
  /\ Goto(r, IF Accepted THEN "checked" ELSE "done")
  /\ mu' = HolderAfterTest(r)
  /\ UNCHANGED <<phase, ctxDone, boots, runs, token, cancelled, result, exists,
                 lastStatus, history>>

(* 1, or one more than the execution being replaced. *)
NextToken(s) == IF runs[s] = NoLaunch THEN 1 ELSE token[runs[s]] + 1

(* The executions a launch of s cancels. *)
ReplacedNone(s) == {}
Replaced(s) == {runs[s]} \ {NoLaunch}

(* History: a write of the same scene's last_status is still pending,      *)
(* outside the mutex.                                                      *)
WritePending(s) == \E q \in LaunchesOf(s) : pc[q] \in {"registered", "released"}

(* The rest of the critical section: cancel, register, wg.Add, Unlock. *)
Register(r) ==
  LET s == Target[r] IN
  /\ pc[r] = "checked"
  /\ Goto(r, "registered")
  /\ mu' = NoLaunch
  /\ token' = [token EXCEPT ![r] = NextToken(s)]
  /\ cancelled' = cancelled \cup Replaced(s)
  /\ runs' = [runs EXCEPT ![s] = r]
  /\ latest' = [latest EXCEPT ![s] = r]
  /\ raced' = IF WritePending(s) THEN raced \cup {s} ELSE raced
  /\ unwritten' = unwritten \ {s}
  /\ UNCHANGED <<phase, ctxDone, boots, result, exists, lastStatus, swept, inside>>

(* StartSceneRun, outside the mutex: it fails when the caller's context is *)
(* done or the row is gone, which is logged.  Then the goroutine starts.   *)
StartRun(r) ==
  /\ pc[r] = "registered"
  /\ Goto(r, "executing")
  /\ \/ /\ Target[r] \in exists
        /\ lastStatus' = [lastStatus EXCEPT ![Target[r]] = "running"]
     \/ UNCHANGED lastStatus
  /\ UNCHANGED <<phase, ctxDone, boots, result, exists, memory, history>>

(* execute returns: the empty issue when its context is done. *)
Issues(r) == IF ContextDone(r) THEN {""} ELSE Outcome

Execute(r) ==
  /\ pc[r] = "executing"
  /\ \E issue \in Issues(r) : result' = [result EXCEPT ![r] = issue]
  /\ Goto(r, "executed")
  /\ UNCHANGED <<phase, ctxDone, boots, exists, lastStatus, memory, history>>

(***************************************************************************)
(* finish.                                                                 *)
(***************************************************************************)

(* The entry of the scene, if there is one, still bears this token. *)
CurrentInverted(r) ==
  runs[Target[r]] # NoLaunch /\ token[runs[Target[r]]] # token[r]
Current(r) ==
  runs[Target[r]] # NoLaunch /\ token[runs[Target[r]]] = token[r]

(* The issue to write: interrupted when the service is stopping. *)
FinalIssueUnmarked(r) == result[r]
FinalIssueLeftRunning(r) == IF ctxDone /\ result[r] = "" THEN "running" ELSE result[r]
FinalIssue(r) == IF ctxDone /\ result[r] = "" THEN "interrupted" ELSE result[r]

(* History: another execution of the same scene outlives this entry. *)
Lingering(r) == \E q \in LaunchesOf(Target[r]) \ {r} : Live(q)

(* The critical section, for an execution a relaunch has replaced: its     *)
(* issue is dropped.                                                       *)
FinishSuperseded(r) ==
  /\ pc[r] = "executed" /\ mu = NoLaunch
  /\ ~Current(r)
  /\ Goto(r, "done")
  /\ result' = [result EXCEPT ![r] = ""]
  /\ UNCHANGED <<phase, ctxDone, boots, exists, lastStatus, memory, history>>

(* The critical section, for the execution its token still designates. *)
FinishCurrent(r) ==
  LET s == Target[r] IN
  /\ pc[r] = "executed" /\ mu = NoLaunch
  /\ Current(r)
  /\ runs' = [runs EXCEPT ![s] = NoLaunch]
  /\ result' = [result EXCEPT ![r] = FinalIssue(r)]
  /\ Goto(r, IF FinalIssue(r) = "" THEN "done" ELSE "released")
  /\ raced' = IF Lingering(r) THEN raced \cup {s} ELSE raced
  /\ UNCHANGED <<phase, ctxDone, boots, mu, token, cancelled, exists, lastStatus,
                 swept, latest, unwritten, inside>>

(* FinishSceneRun, outside the mutex and with a detached context.  It may  *)
(* fail, which is logged: the row keeps what it had and nobody tries again. *)
(* A row that is gone makes it fail too, and leaves nothing to show.       *)
FinishRun(r) ==
  LET s == Target[r] IN
  /\ pc[r] = "released"
  /\ Goto(r, "done")
  /\ \/ /\ s \in exists
        /\ lastStatus' = [lastStatus EXCEPT ![s] = result[r]]
        /\ UNCHANGED unwritten
     \/ /\ unwritten' = unwritten \cup ({s} \cap exists)
        /\ UNCHANGED lastStatus
  /\ UNCHANGED <<phase, ctxDone, boots, result, exists, memory, swept, latest,
                 raced, inside>>

-----------------------------------------------------------------------------
(* The steps a launch takes by itself once called. *)
Goroutine(r) ==
  \/ Lock(r) \/ Register(r) \/ StartRun(r) \/ Execute(r)
  \/ FinishSuperseded(r) \/ FinishCurrent(r) \/ FinishRun(r)

Service == Start \/ SetRoot \/ Sweep \/ Stop \/ Return \/ Exit \/ Crash

Next ==
  \/ Service
  \/ \E s \in Scenes : DeleteScene(s)
  \/ \E r \in Launches : Load(r) \/ Goroutine(r)

Spec == Init /\ [][Next]_vars

(* Goroutines are scheduled, and an execution ends: its waits are finite,  *)
(* its calls to the boxes have timeouts.  Nobody has to call, stop, crash  *)
(* or restart the service.                                                 *)
Fairness ==
  /\ WF_vars(SetRoot \/ Sweep \/ Return)
  /\ \A r \in Launches : WF_vars(Goroutine(r))

FairSpec == Spec /\ Fairness

-----------------------------------------------------------------------------
(***************************************************************************)
(* Properties.                                                             *)
(***************************************************************************)

(* What Describe shows as running is really going on: an entry of e.runs   *)
(* designates an execution of that scene that has not passed finish, and   *)
(* that no relaunch has cancelled.  finish and Trigger race for the entry. *)
EntryIsLive ==
  \A s \in Scenes : runs[s] # NoLaunch =>
    Live(runs[s]) /\ Target[runs[s]] = s /\ runs[s] \notin cancelled

(* The execution that goes on for a scene is the one launched last.        *)
LastOrderWinsFor(s) ==
  \A r \in LaunchesOf(s) : Live(r) /\ r \notin cancelled => r = latest[s]

(* engine.go:5-6: "relancer une scène en cours annule l'exécution          *)
(* précédente — le dernier ordre donné l'emporte".                         *)
LastOrderWins == \A s \in Scenes : LastOrderWinsFor(s)

(* The same, for the scenes whose launches never crossed one of the        *)
(* windows the mutex leaves open.                                          *)
LastOrderWinsUnlessRaced == \A s \in Scenes \ raced : LastOrderWinsFor(s)

(* A scene shown as "running" has an execution that will write its issue.  *)
BackedFor(s) ==
  lastStatus[s] = "running" => \E r \in LaunchesOf(s) : Counted(r)

(* engine.go:262: a superseded execution writes nothing because the        *)
(* relaunch writes its own issue; so no scene stays "running" for nothing, *)
(* as long as no window was crossed for it and its issue could be written. *)
(* In particular a crash leaves no "running" behind once the next start    *)
(* has swept the table, nor does a beginning that could not be written.    *)
RunningIsBackedUnlessRaced ==
  swept => \A s \in exists \ (raced \cup unwritten) : BackedFor(s)

(* Every launch of this process has ended for the scene. *)
Settled(s) == latest[s] # NoLaunch /\ \A r \in LaunchesOf(s) : ~Counted(r)

IssueOfLatestFor(s) ==
  Settled(s) => lastStatus[s] = result[latest[s]] /\ result[latest[s]] # ""

(* For the scenes no window was crossed for and whose issue could be       *)
(* written, the one recorded once every execution has ended is the last    *)
(* launch's, "interrupted" when a stop cut it.                             *)
IssueOfLatestUnlessRaced ==
  \A s \in exists \ (raced \cup unwritten) : IssueOfLatestFor(s)

(* engine.go:95-96: Run returns, and the database closes, only when the    *)
(* executions in progress have ended.  srv.Shutdown gives up after ten     *)
(* seconds, and a handler that outlives it may still add an execution      *)
(* after the wait: only the one that was inside the critical section when  *)
(* the context was cancelled, so one at most, and never the scheduler's.   *)
StopWaits ==
  phase = "returned" =>
    \A r \in Launches : Counted(r) => r = inside /\ r \notin Scheduled

(* A stop always gets through: Run returns once its context is done, with  *)
(* handlers and executions competing for the mutex.                        *)
StopReturns == (phase = "serving" /\ ctxDone) ~> phase \in {"returned", "down"}

(* A launch let through always ends, whatever the relaunches do to it.     *)
LaunchEnds == \A r \in Launches : pc[r] = "checked" ~> pc[r] = "done"
=============================================================================
