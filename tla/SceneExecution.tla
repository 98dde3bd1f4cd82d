--------------------------- MODULE SceneExecution ---------------------------
(***************************************************************************)
(* One execution of a scene: execute of internal/scenes/engine.go, with    *)
(* Send and Record of internal/control/control.go and the boxes that       *)
(* receive the commands.                                                   *)
(*                                                                         *)
(* The execution's goroutine goes through the steps.  A command that fails *)
(* for a reason that may pass is tried once more, thirty seconds later, by *)
(* a goroutine of its own while the scene goes on.  Each attempt is a      *)
(* record of calls, from the request to the line of history.  The context  *)
(* may be cancelled at any moment, by a relaunch or by the stop of the     *)
(* service.                                                                *)
(***************************************************************************)
EXTENDS Naturals, Sequences, FiniteSets

CONSTANTS
  Devices,
  Program,     \* the steps; an action has the devices Resolve finds for it
  Refusing,    \* devices for which Send fails with an error not worth a retry
  Slow         \* devices whose box may take thirty seconds to fail (TaHoma)

Waiting      == [type : {"wait"}]
Acting       == [type : {"action"}, targets : Seq(Devices)]
Steps        == DOMAIN Program
TargetsOf(i) == IF Program[i].type = "action"
                  THEN {Program[i].targets[n] : n \in DOMAIN Program[i].targets}
                  ELSE {}

ASSUME SceneExecutionAssumption ==
  /\ Program \in Seq(Waiting \cup Acting)
  /\ Refusing \subseteq Devices
  /\ Slow \subseteq Devices
  /\ \A i \in Steps : Program[i].type = "action" =>
       \A m, n \in DOMAIN Program[i].targets :
         Program[i].targets[m] = Program[i].targets[n] => m = n

VARIABLES
  pc,         \* where the goroutine of the execution is
  at,         \* the step it is at
  todo,       \* the targets of this step it has not sent a command to
  calls,      \* the attempts in progress
  ok, fail,   \* the counters
  cancelled,  \* ctx is done
  verdict,    \* what execute returns
  log,        \* the attempts recorded in the history of commands
  world,      \* the step whose command each device obeyed last, 0 for none
  \* History variables.
  read,       \* the action steps whose targets were read
  obeyed,     \* the attempts a box has carried out
  unrecorded  \* the attempts whose line of history could not be written

vars == <<pc, at, todo, calls, ok, fail, cancelled, verdict, log, world,
          read, obeyed, unrecorded>>

Attempt == [step : Steps, device : Devices, first : BOOLEAN]
Stage   == {"armed", "sent", "obeyed", "failed", "succeeded"}

TypeOK ==
  /\ pc \in {"step", "targets", "retries", "done"}
  /\ at \in 1..Len(Program) + 1
  /\ todo \in Seq(Devices)
  /\ calls \subseteq [attempt : Attempt, stage : Stage]
  /\ ok \in Nat /\ fail \in Nat
  /\ cancelled \in BOOLEAN
  /\ verdict \in {"", "success", "partial", "failed"}
  /\ log \subseteq [attempt : Attempt, success : BOOLEAN]
  /\ world \in [Devices -> Steps \cup {0}]
  /\ read \subseteq Steps
  /\ obeyed \subseteq Attempt
  /\ unrecorded \subseteq Attempt

-----------------------------------------------------------------------------
Init ==
  /\ pc = "step" /\ at = 1 /\ todo = <<>>
  /\ calls = {}
  /\ ok = 0 /\ fail = 0
  /\ cancelled = FALSE
  /\ verdict = ""
  /\ log = {}
  /\ world = [d \in Devices |-> 0]
  /\ read = {} /\ obeyed = {} /\ unrecorded = {}

counters == <<ok, fail>>
outside  == <<log, world, obeyed, unrecorded>>

(* The attempt the goroutine of the execution is blocked on. *)
Blocked == \E c \in calls : c.attempt.first

(* Send returns at once when the device cannot be driven, or when the      *)
(* context is done: the request is not made.                               *)
Sent(attempt) ==
  [attempt |-> attempt,
   stage   |-> IF attempt.device \in Refusing \/ cancelled THEN "failed" ELSE "sent"]

(***************************************************************************)
(* The goroutine of the execution.                                         *)
(***************************************************************************)

(* A wait lasts one minute at least.  By then every retry of an earlier    *)
(* step has been sent, and has ended if its box answers within thirty      *)
(* seconds.                                                                *)
WaitOverAtOnce == TRUE
WaitOver ==
  \A c \in calls : c.stage # "armed" /\ c.attempt.device \in Slow

Wait ==
  /\ pc = "step" /\ ~cancelled /\ at \in Steps
  /\ Program[at].type = "wait"
  /\ WaitOver
  /\ at' = at + 1
  /\ UNCHANGED <<pc, todo, calls, counters, cancelled, verdict, outside, read>>

(* An action: the devices are read, and the step's targets found in them. *)
Resolve ==
  /\ pc = "step" /\ ~cancelled /\ at \in Steps
  /\ Program[at].type = "action"
  /\ pc' = "targets"
  /\ todo' = Program[at].targets
  /\ read' = read \cup {at}
  /\ UNCHANGED <<at, calls, counters, cancelled, verdict, outside>>

(* ListDevices fails: the step is skipped, and counted nowhere. *)
Skip ==
  /\ pc = "step" /\ ~cancelled /\ at \in Steps
  /\ Program[at].type = "action"
  /\ at' = at + 1
  /\ UNCHANGED <<pc, todo, calls, counters, cancelled, verdict, outside, read>>

SendNext ==
  /\ pc = "targets" /\ todo # <<>> /\ ~Blocked
  /\ calls' = calls \cup
       {Sent([step |-> at, device |-> Head(todo), first |-> TRUE])}
  /\ todo' = Tail(todo)
  /\ UNCHANGED <<pc, at, counters, cancelled, verdict, outside, read>>

StepDone ==
  /\ pc = "targets" /\ todo = <<>> /\ ~Blocked
  /\ pc' = "step"
  /\ at' = at + 1
  /\ UNCHANGED <<todo, calls, counters, cancelled, verdict, outside, read>>

(* The loop ends, after the last step or because ctx is done, which a wait *)
(* notices at once.                                                        *)
LastStep ==
  /\ pc = "step"
  /\ cancelled \/ at \notin Steps
  /\ pc' = "retries"
  /\ UNCHANGED <<at, todo, calls, counters, cancelled, verdict, outside, read>>

(* retries.Wait *)
RetriesOverIgnored == TRUE
RetriesOver == calls = {}

VerdictOfSuccesses == IF ok > 0 THEN "success" ELSE "failed"
Verdict ==
  CASE ok + fail = 0        -> "failed"
    [] fail = 0 /\ ok > 0   -> "success"
    [] fail > 0 /\ ok = 0   -> "failed"
    [] fail > 0 /\ ok > 0   -> "partial"

Finish ==
  /\ pc = "retries"
  /\ RetriesOver
  /\ pc' = "done"
  /\ verdict' = IF cancelled THEN "" ELSE Verdict
  /\ UNCHANGED <<at, todo, calls, counters, cancelled, outside, read>>

(***************************************************************************)
(* An attempt.                                                             *)
(***************************************************************************)

Moved(c, stage) == (calls \ {c}) \cup {[c EXCEPT !.stage = stage]}

(* The box carries out the command. *)
Obey(c) ==
  /\ c.stage = "sent"
  /\ calls' = Moved(c, "obeyed")
  /\ world' = [world EXCEPT ![c.attempt.device] = c.attempt.step]
  /\ obeyed' = obeyed \cup {c.attempt}
  /\ UNCHANGED <<pc, at, todo, counters, cancelled, verdict, log, read, unrecorded>>

(* Its answer arrives; or the call fails: refused connection, timeout,     *)
(* cancelled context, lost answer.  A box that has not carried out a call  *)
(* its caller gave up does not do it later.                                *)
Answer(c) ==
  /\ c.stage \in {"sent", "obeyed"}
  /\ \/ c.stage = "obeyed" /\ calls' = Moved(c, "succeeded")
     \/ calls' = Moved(c, "failed")
  /\ UNCHANGED <<pc, at, todo, counters, cancelled, verdict, outside, read>>

(* Record is detached from the cancellation of its caller. *)
RecordedUnlessCancelled(entry) == IF cancelled THEN log ELSE log \cup {entry}
Recorded(entry) == log \cup {entry}

(* A failure worth a second attempt, on the first one. *)
RetryAlways(c) == c.stage = "failed" /\ c.attempt.device \notin Refusing /\ ~cancelled
Retried(c) == RetryAlways(c) /\ c.attempt.first

(* A retry is counted once, when it has ended. *)
CountedAtOnce(c) == TRUE
CountedNow(c) == ~Retried(c)

(* Send records the attempt and returns; its caller counts it, or arms a   *)
(* second attempt.  A line of history that cannot be written is logged and *)
(* the attempt is judged as it would have been.                            *)
Return(c) ==
  LET success == c.stage = "succeeded"
      entry   == [attempt |-> c.attempt, success |-> success]
  IN
  /\ c.stage \in {"succeeded", "failed"}
  /\ \/ log' = Recorded(entry) /\ UNCHANGED unrecorded
     \/ unrecorded' = unrecorded \cup {c.attempt} /\ UNCHANGED log
  /\ calls' = IF Retried(c)
                THEN (calls \ {c}) \cup
                       {[attempt |-> [c.attempt EXCEPT !.first = FALSE], stage |-> "armed"]}
                ELSE calls \ {c}
  /\ ok' = IF CountedNow(c) /\ success THEN ok + 1 ELSE ok
  /\ fail' = IF CountedNow(c) /\ ~success THEN fail + 1 ELSE fail
  /\ UNCHANGED <<pc, at, todo, cancelled, verdict, world, read, obeyed>>

(* The retry's delay is over. *)
Retry(c) ==
  /\ c.stage = "armed"
  /\ calls' = (calls \ {c}) \cup {Sent(c.attempt)}
  /\ UNCHANGED <<pc, at, todo, counters, cancelled, verdict, outside, read>>

(* The retry sees its context done. *)
GiveUp(c) ==
  /\ c.stage = "armed" /\ cancelled
  /\ calls' = calls \ {c}
  /\ fail' = fail + 1
  /\ UNCHANGED <<pc, at, todo, ok, cancelled, verdict, outside, read>>

Cancel ==
  /\ ~cancelled /\ pc # "done"
  /\ cancelled' = TRUE
  /\ UNCHANGED <<pc, at, todo, calls, counters, verdict, outside, read>>

-----------------------------------------------------------------------------
Goroutine == Wait \/ Resolve \/ Skip \/ SendNext \/ StepDone \/ LastStep \/ Finish

Attempting(c) == Obey(c) \/ Answer(c) \/ Return(c) \/ Retry(c) \/ GiveUp(c)

Next == Goroutine \/ Cancel \/ \E c \in calls : Attempting(c)

Spec == Init /\ [][Next]_vars

(* Goroutines are scheduled, timers fire and calls have timeouts.  Nothing *)
(* obliges a box to carry out a command.                                   *)
Fairness ==
  /\ WF_vars(Goroutine)
  /\ WF_vars(\E c \in calls : Answer(c) \/ Return(c) \/ Retry(c) \/ GiveUp(c))

FairSpec == Spec /\ Fairness

-----------------------------------------------------------------------------
(***************************************************************************)
(* Properties.                                                             *)
(***************************************************************************)

(* The commands the execution owes: one for each target of each step read. *)
Owed == {o \in Steps \X Devices : o[1] \in read /\ o[2] \in TargetsOf(o[1])}

(* Still to be counted: a target not reached yet, an attempt in progress.  *)
Pending == Len(todo) + Cardinality(calls)

(* Every owed command is counted once and once only, however its attempts  *)
(* and its retry interleave with the rest of the scene.                    *)
CountsAddUp == ok + fail + Pending = Cardinality(Owed)

(* When execute returns success, each command of each step that was read   *)
(* was carried out by its box and acknowledged, at one attempt or the      *)
(* other; the history shows it unless that very line could not be written. *)
SuccessIsComplete ==
  verdict = "success" => \A o \in Owed : \E first \in BOOLEAN :
    LET attempt == [step |-> o[1], device |-> o[2], first |-> first]
    IN  /\ attempt \in obeyed
        /\ \/ [attempt |-> attempt, success |-> TRUE] \in log
           \/ attempt \in unrecorded

(* An execution that has returned drives no device, writes no line of      *)
(* history and counts nothing any more: retries.Wait holds it for its last *)
(* retry.  (e.wg and the stop of the service rely on it.)                  *)
SilentOnceDone == [][pc = "done" => UNCHANGED <<world, log, ok, fail>>]_vars

(* Once an execution has returned, the history tells every command a box   *)
(* carried out for it, even the ones whose answer was lost or cut by a     *)
(* cancellation, save those whose line could not be written.               *)
HistoryIsComplete ==
  pc = "done" => \A attempt \in obeyed \ unrecorded :
                   \E entry \in log : entry.attempt = attempt

(* A device never obeys a command of a step after one of a later step,     *)
(* when a wait separates the steps that drive it: a retry then never       *)
(* undoes what a later step did.                                           *)
Separated(d) ==
  \A i, j \in Steps : i < j /\ d \in TargetsOf(i) /\ d \in TargetsOf(j) =>
    \E k \in i..j : Program[k].type = "wait"

StepsInOrder ==
  [][\A d \in Devices \ Slow : Separated(d) => world'[d] >= world[d]]_vars

(* Every execution ends, cancelled or not: one retry at most, and none is  *)
(* waited for in vain.                                                     *)
Terminates == <>(pc = "done")
=============================================================================
