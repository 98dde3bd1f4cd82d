------------------------ MODULE SceneExecutionProofs ------------------------
(***************************************************************************)
(* What an execution returns is what it did: for any program, devices,     *)
(* failures and cancellation, nothing is driven, written or counted once   *)
(* it has returned, the history tells what was unless a line of it could   *)
(* not be written, and "success" means every command of the steps read was *)
(* carried out and acknowledged.                                           *)
(*                                                                         *)
(* Each command owed is followed from the list of targets to an attempt,   *)
(* then to its retry, until the history has it; each command obeyed, from  *)
(* the attempt to the history.                                             *)
(*                                                                         *)
(* A second invariant says that a command owed has one attempt in progress *)
(* at most, that a wait ends only once the earlier steps have no attempt   *)
(* left but on slow boxes: each command is then counted once, and a retry  *)
(* does not come after what a later step did.                              *)
(***************************************************************************)
EXTENDS SceneExecution, FiniteSetTheorems, FunctionTheorems, TLAPS

\* Only the targets of the step in progress are left to drive, and nothing is once done.
Quiet == (pc # "targets" => todo = <<>>) /\ (pc = "done" => calls = {})

\* Targets are those of an action.
AtAction == pc = "targets" => at \in Steps /\ Program[at].type = "action"

\* What a box carried out is in the history unless its line could not be written, or its
\* attempt is not over.
Traced == \A attempt \in obeyed \ unrecorded :
  \/ \E entry \in log : entry.attempt = attempt
  \/ \E c \in calls : c.attempt = attempt /\ c.stage \in {"obeyed", "failed", "succeeded"}

\* What a box answers for was carried out.
Carried == \A c \in calls : c.stage \in {"obeyed", "succeeded"} => c.attempt \in obeyed

\* A command owed was acknowledged, is being attempted, or is still to be sent.
Shown(attempt) ==
  /\ attempt \in obeyed
  /\ [attempt |-> attempt, success |-> TRUE] \in log \/ attempt \in unrecorded
Acknowledged(o) ==
  \E first \in BOOLEAN : Shown([step |-> o[1], device |-> o[2], first |-> first])
Attempted(o) == \E c \in calls : c.attempt.step = o[1] /\ c.attempt.device = o[2]
ToSend(o) == pc = "targets" /\ o[1] = at /\ \E n \in DOMAIN todo : todo[n] = o[2]
Tracked(o) == Acknowledged(o) \/ Attempted(o) \/ ToSend(o)
Followed == fail = 0 => \A o \in Owed : Tracked(o)

Judged == verdict = "success" => pc = "done" /\ fail = 0

IInv == TypeOK /\ AtAction /\ Quiet /\ Traced /\ Carried /\ Followed /\ Judged

(* The steps, and the targets of an action. *)
LEMMA StepsAre == Steps = 1 .. Len(Program) /\ Len(Program) \in Nat
<1>1. Program \in Seq(Waiting \cup Acting)
  BY SceneExecutionAssumption
<1> QED
  BY <1>1 DEF Steps

LEMMA TargetsType ==
  ASSUME NEW i \in Steps, Program[i].type = "action"
  PROVE  Program[i].targets \in Seq(Devices)
<1>1. Program[i] \in Waiting \cup Acting
  BY SceneExecutionAssumption DEF Steps
<1>2. Program[i] \notin Waiting
  BY DEF Waiting
<1> QED
  BY <1>1, <1>2 DEF Acting

-----------------------------------------------------------------------------
(* The types, in parts: the goroutine, its attempts, what is counted and   *)
(* concluded, what is left behind.                                         *)
Call == [attempt : Attempt, stage : Stage]

Place ==
  /\ pc \in {"step", "targets", "retries", "done"}
  /\ at \in 1 .. Len(Program) + 1 /\ todo \in Seq(Devices)
Counts == ok \in Nat /\ fail \in Nat
Flags == cancelled \in BOOLEAN /\ verdict \in {"", "success", "partial", "failed"}
Memory ==
  /\ log \subseteq [attempt : Attempt, success : BOOLEAN]
  /\ world \in [Devices -> Steps \cup {0}]
  /\ read \subseteq Steps /\ obeyed \subseteq Attempt /\ unrecorded \subseteq Attempt

LEMMA TypeIsItsParts == TypeOK <=> Place /\ calls \subseteq Call /\ Counts /\ Flags /\ Memory
  BY DEF TypeOK, Place, Call, Counts, Flags, Memory

LEMMA InitType == Init => TypeOK /\ AtAction
<1> SUFFICES ASSUME Init PROVE TypeOK /\ AtAction
  OBVIOUS
<1>1. Place
  <2>1. 1 \in 1 .. Len(Program) + 1 /\ <<>> \in Seq(Devices)
    BY StepsAre
  <2> QED
    BY <2>1 DEF Init, Place
<1>2. calls \subseteq Call /\ Counts
  BY DEF Init, Counts
<1>3. Flags
  BY DEF Init, Flags
<1>4. Memory
  BY DEF Init, Memory
<1> QED
  BY <1>1, <1>2, <1>3, <1>4, TypeIsItsParts DEF Init, AtAction

LEMMA SentType ==
  ASSUME NEW attempt \in Attempt
  PROVE  Sent(attempt) \in Call /\ Sent(attempt).attempt = attempt
  BY DEF Sent, Call, Stage

LEMMA MovedType ==
  ASSUME calls \subseteq Call, NEW c \in calls, NEW stage \in Stage
  PROVE  Moved(c, stage) \subseteq Call
  BY DEF Moved, Call

LEMMA PlaceStep ==
  ASSUME Place, AtAction, [Next]_vars
  PROVE  Place' /\ AtAction'
<1> USE DEF Place, AtAction
<1>1. CASE Wait
  BY <1>1, StepsAre DEF Wait
<1>2. CASE Resolve
  BY <1>2, TargetsType DEF Resolve
<1>3. CASE Skip
  BY <1>3, StepsAre DEF Skip
<1>4. CASE SendNext
  BY <1>4 DEF SendNext
<1>5. CASE StepDone
  BY <1>5, StepsAre DEF StepDone
<1>6. CASE LastStep
  BY <1>6 DEF LastStep
<1>7. CASE Finish
  BY <1>7 DEF Finish
<1>8. CASE Cancel
  BY <1>8 DEF Cancel
<1>9. ASSUME NEW c \in calls, Obey(c) PROVE Place' /\ AtAction'
  BY <1>9 DEF Obey
<1>10. ASSUME NEW c \in calls, Answer(c) PROVE Place' /\ AtAction'
  BY <1>10 DEF Answer
<1>11. ASSUME NEW c \in calls, Return(c) PROVE Place' /\ AtAction'
  BY <1>11 DEF Return
<1>12. ASSUME NEW c \in calls, Retry(c) PROVE Place' /\ AtAction'
  BY <1>12 DEF Retry
<1>13. ASSUME NEW c \in calls, GiveUp(c) PROVE Place' /\ AtAction'
  BY <1>13 DEF GiveUp
<1>14. CASE UNCHANGED vars
  BY <1>14 DEF vars
<1> QED
  BY <1>1, <1>2, <1>3, <1>4, <1>5, <1>6, <1>7, <1>8, <1>9, <1>10, <1>11, <1>12, <1>13, <1>14
     DEF Next, Goroutine, Attempting

LEMMA CallsStep ==
  ASSUME Place, AtAction, calls \subseteq Call, [Next]_vars
  PROVE  calls' \subseteq Call
<1> USE DEF counters, outside
<1>1. CASE Wait
  BY <1>1 DEF Wait
<1>2. CASE Resolve
  BY <1>2 DEF Resolve
<1>3. CASE Skip
  BY <1>3 DEF Skip
<1>4. CASE SendNext
  <2>1. at \in Steps /\ Head(todo) \in Devices
    BY <1>4 DEF SendNext, Place, AtAction
  <2>2. [step |-> at, device |-> Head(todo), first |-> TRUE] \in Attempt
    BY <2>1 DEF Attempt
  <2> QED
    BY <1>4, <2>2, SentType DEF SendNext
<1>5. CASE StepDone
  BY <1>5 DEF StepDone
<1>6. CASE LastStep
  BY <1>6 DEF LastStep
<1>7. CASE Finish
  BY <1>7 DEF Finish
<1>8. CASE Cancel
  BY <1>8 DEF Cancel
<1>9. ASSUME NEW c \in calls, Obey(c) PROVE calls' \subseteq Call
  BY <1>9, MovedType DEF Obey, Stage
<1>10. ASSUME NEW c \in calls, Answer(c) PROVE calls' \subseteq Call
  BY <1>10, MovedType DEF Answer, Stage
<1>11. ASSUME NEW c \in calls, Return(c) PROVE calls' \subseteq Call
  <2>1. [attempt |-> [c.attempt EXCEPT !.first = FALSE], stage |-> "armed"] \in Call
    BY DEF Call, Attempt, Stage
  <2> QED
    BY <1>11, <2>1 DEF Return
<1>12. ASSUME NEW c \in calls, Retry(c) PROVE calls' \subseteq Call
  <2>1. c.attempt \in Attempt
    BY DEF Call
  <2> QED
    BY <1>12, <2>1, SentType DEF Retry
<1>13. ASSUME NEW c \in calls, GiveUp(c) PROVE calls' \subseteq Call
  BY <1>13 DEF GiveUp
<1>14. CASE UNCHANGED vars
  BY <1>14 DEF vars
<1> QED
  BY <1>1, <1>2, <1>3, <1>4, <1>5, <1>6, <1>7, <1>8, <1>9, <1>10, <1>11, <1>12, <1>13, <1>14
     DEF Next, Goroutine, Attempting

LEMMA CountsStep ==
  ASSUME Counts, [Next]_vars
  PROVE  Counts'
<1> USE DEF Counts, counters, outside
<1>1. CASE Wait
  BY <1>1 DEF Wait
<1>2. CASE Resolve
  BY <1>2 DEF Resolve
<1>3. CASE Skip
  BY <1>3 DEF Skip
<1>4. CASE SendNext
  BY <1>4 DEF SendNext
<1>5. CASE StepDone
  BY <1>5 DEF StepDone
<1>6. CASE LastStep
  BY <1>6 DEF LastStep
<1>7. CASE Finish
  BY <1>7 DEF Finish
<1>8. CASE Cancel
  BY <1>8 DEF Cancel
<1>9. ASSUME NEW c \in calls, Obey(c) PROVE Counts'
  BY <1>9 DEF Obey
<1>10. ASSUME NEW c \in calls, Answer(c) PROVE Counts'
  BY <1>10 DEF Answer
<1>11. ASSUME NEW c \in calls, Return(c) PROVE Counts'
  <2>1. ok' \in {ok, ok + 1} /\ fail' \in {fail, fail + 1}
    BY <1>11, Zenon DEF Return
  <2> QED
    BY <2>1
<1>12. ASSUME NEW c \in calls, Retry(c) PROVE Counts'
  BY <1>12 DEF Retry
<1>13. ASSUME NEW c \in calls, GiveUp(c) PROVE Counts'
  BY <1>13 DEF GiveUp
<1>14. CASE UNCHANGED vars
  BY <1>14 DEF vars
<1> QED
  BY <1>1, <1>2, <1>3, <1>4, <1>5, <1>6, <1>7, <1>8, <1>9, <1>10, <1>11, <1>12, <1>13, <1>14
     DEF Next, Goroutine, Attempting

LEMMA VerdictType ==
  ASSUME Counts
  PROVE  Verdict \in {"success", "partial", "failed"}
<1>1. ok + fail = 0 \/ (fail = 0 /\ ok > 0) \/ (fail > 0 /\ ok = 0) \/ (fail > 0 /\ ok > 0)
  BY DEF Counts
<1> QED
  BY <1>1 DEF Verdict

LEMMA FlagsStep ==
  ASSUME Counts, Flags, [Next]_vars
  PROVE  Flags'
<1> USE DEF Flags
<1>1. CASE Wait
  BY <1>1 DEF Wait
<1>2. CASE Resolve
  BY <1>2 DEF Resolve
<1>3. CASE Skip
  BY <1>3 DEF Skip
<1>4. CASE SendNext
  BY <1>4 DEF SendNext
<1>5. CASE StepDone
  BY <1>5 DEF StepDone
<1>6. CASE LastStep
  BY <1>6 DEF LastStep
<1>7. CASE Finish
  <2>1. verdict' \in {"", Verdict}
    BY <1>7, Zenon DEF Finish
  <2>2. cancelled' = cancelled
    BY <1>7 DEF Finish
  <2> QED
    BY <2>1, <2>2, VerdictType
<1>8. CASE Cancel
  BY <1>8 DEF Cancel
<1>9. ASSUME NEW c \in calls, Obey(c) PROVE Flags'
  BY <1>9 DEF Obey
<1>10. ASSUME NEW c \in calls, Answer(c) PROVE Flags'
  BY <1>10 DEF Answer
<1>11. ASSUME NEW c \in calls, Return(c) PROVE Flags'
  BY <1>11 DEF Return
<1>12. ASSUME NEW c \in calls, Retry(c) PROVE Flags'
  BY <1>12 DEF Retry
<1>13. ASSUME NEW c \in calls, GiveUp(c) PROVE Flags'
  BY <1>13 DEF GiveUp
<1>14. CASE UNCHANGED vars
  BY <1>14 DEF vars
<1> QED
  BY <1>1, <1>2, <1>3, <1>4, <1>5, <1>6, <1>7, <1>8, <1>9, <1>10, <1>11, <1>12, <1>13, <1>14
     DEF Next, Goroutine, Attempting

LEMMA MemoryStep ==
  ASSUME calls \subseteq Call, Memory, [Next]_vars
  PROVE  Memory'
<1> USE DEF Memory, counters, outside
<1>1. CASE Wait
  BY <1>1 DEF Wait
<1>2. CASE Resolve
  BY <1>2 DEF Resolve
<1>3. CASE Skip
  BY <1>3 DEF Skip
<1>4. CASE SendNext
  BY <1>4 DEF SendNext
<1>5. CASE StepDone
  BY <1>5 DEF StepDone
<1>6. CASE LastStep
  BY <1>6 DEF LastStep
<1>7. CASE Finish
  BY <1>7 DEF Finish
<1>8. CASE Cancel
  BY <1>8 DEF Cancel
<1>9. ASSUME NEW c \in calls, Obey(c) PROVE Memory'
  <2>1. c.attempt \in Attempt /\ c.attempt.step \in Steps
    BY DEF Call, Attempt
  <2> QED
    BY <1>9, <2>1 DEF Obey
<1>10. ASSUME NEW c \in calls, Answer(c) PROVE Memory'
  BY <1>10 DEF Answer
<1>11. ASSUME NEW c \in calls, Return(c) PROVE Memory'
  <2>1. /\ [attempt |-> c.attempt, success |-> c.stage = "succeeded"] \in [attempt : Attempt, success : BOOLEAN]
        /\ c.attempt \in Attempt
    BY DEF Call
  <2>2. UNCHANGED <<world, read, obeyed>>
    BY <1>11 DEF Return
  <2>3. /\ log' \subseteq log \cup {[attempt |-> c.attempt, success |-> c.stage = "succeeded"]}
        /\ unrecorded' \subseteq unrecorded \cup {c.attempt}
    BY <1>11 DEF Return, Recorded
  <2> QED
    BY <2>1, <2>2, <2>3
<1>12. ASSUME NEW c \in calls, Retry(c) PROVE Memory'
  BY <1>12 DEF Retry
<1>13. ASSUME NEW c \in calls, GiveUp(c) PROVE Memory'
  BY <1>13 DEF GiveUp
<1>14. CASE UNCHANGED vars
  BY <1>14 DEF vars
<1> QED
  BY <1>1, <1>2, <1>3, <1>4, <1>5, <1>6, <1>7, <1>8, <1>9, <1>10, <1>11, <1>12, <1>13, <1>14
     DEF Next, Goroutine, Attempting

-----------------------------------------------------------------------------
(* The goroutine's bounds: nothing to drive outside a step, no attempt     *)
(* once it has returned.                                                   *)
LEMMA QuietStep ==
  ASSUME Quiet, [Next]_vars
  PROVE  Quiet'
<1> USE DEF Quiet
<1>1. CASE Wait
  BY <1>1 DEF Wait
<1>2. CASE Resolve
  BY <1>2 DEF Resolve
<1>3. CASE Skip
  BY <1>3 DEF Skip
<1>4. CASE SendNext
  BY <1>4 DEF SendNext
<1>5. CASE StepDone
  BY <1>5 DEF StepDone
<1>6. CASE LastStep
  BY <1>6 DEF LastStep
<1>7. CASE Finish
  BY <1>7 DEF Finish, RetriesOver
<1>8. CASE Cancel
  BY <1>8 DEF Cancel
<1>9. ASSUME NEW c \in calls, Obey(c) PROVE Quiet'
  BY <1>9 DEF Obey, Moved
<1>10. ASSUME NEW c \in calls, Answer(c) PROVE Quiet'
  BY <1>10 DEF Answer, Moved
<1>11. ASSUME NEW c \in calls, Return(c) PROVE Quiet'
  BY <1>11 DEF Return
<1>12. ASSUME NEW c \in calls, Retry(c) PROVE Quiet'
  BY <1>12 DEF Retry
<1>13. ASSUME NEW c \in calls, GiveUp(c) PROVE Quiet'
  BY <1>13 DEF GiveUp
<1>14. CASE UNCHANGED vars
  BY <1>14 DEF vars
<1> QED
  BY <1>1, <1>2, <1>3, <1>4, <1>5, <1>6, <1>7, <1>8, <1>9, <1>10, <1>11, <1>12, <1>13, <1>14
     DEF Next, Goroutine, Attempting

(* What a box carried out is followed into the history. *)
LEMMA TracedStep ==
  ASSUME Traced, [Next]_vars
  PROVE  Traced'
<1> USE DEF Traced, outside
<1>1. CASE Wait
  BY <1>1 DEF Wait
<1>2. CASE Resolve
  BY <1>2 DEF Resolve
<1>3. CASE Skip
  BY <1>3 DEF Skip
<1>4. CASE SendNext
  BY <1>4 DEF SendNext
<1>5. CASE StepDone
  BY <1>5 DEF StepDone
<1>6. CASE LastStep
  BY <1>6 DEF LastStep
<1>7. CASE Finish
  BY <1>7 DEF Finish
<1>8. CASE Cancel
  BY <1>8 DEF Cancel
<1>9. ASSUME NEW c \in calls, Obey(c) PROVE Traced'
  <2> DEFINE d == [c EXCEPT !.stage = "obeyed"]
  <2>1. d.attempt = c.attempt /\ d.stage = "obeyed" /\ d \in calls'
    BY <1>9 DEF Obey, Moved
  <2>2. \A e \in calls : e # c => e \in calls'
    BY <1>9 DEF Obey, Moved
  <2>3. /\ c.stage = "sent" /\ log' = log /\ obeyed' = obeyed \cup {c.attempt}
        /\ unrecorded' = unrecorded
    BY <1>9 DEF Obey
  <2> QED
    BY <2>1, <2>2, <2>3
<1>10. ASSUME NEW c \in calls, Answer(c) PROVE Traced'
  <2>1. PICK stage \in {"failed", "succeeded"} : calls' = Moved(c, stage)
    BY <1>10 DEF Answer
  <2> DEFINE d == [c EXCEPT !.stage = stage]
  <2>2. d.attempt = c.attempt /\ d.stage = stage /\ d \in calls'
    BY <2>1 DEF Moved
  <2>3. \A e \in calls : e # c => e \in calls'
    BY <2>1 DEF Moved
  <2>4. UNCHANGED <<log, obeyed, unrecorded>>
    BY <1>10 DEF Answer
  <2> QED
    BY <2>1, <2>2, <2>3, <2>4
<1>11. ASSUME NEW c \in calls, Return(c) PROVE Traced'
  <2>1. \A e \in calls : e # c => e \in calls'
    BY <1>11 DEF Return
  <2>2. obeyed' = obeyed /\ log \subseteq log' /\ unrecorded \subseteq unrecorded'
    BY <1>11 DEF Return, Recorded
  <2> DEFINE entry == [attempt |-> c.attempt, success |-> c.stage = "succeeded"]
  <2>3. (entry \in log' \/ c.attempt \in unrecorded') /\ entry.attempt = c.attempt
    BY <1>11 DEF Return, Recorded
  <2> QED
    BY <2>1, <2>2, <2>3
<1>12. ASSUME NEW c \in calls, Retry(c) PROVE Traced'
  BY <1>12 DEF Retry
<1>13. ASSUME NEW c \in calls, GiveUp(c) PROVE Traced'
  BY <1>13 DEF GiveUp
<1>14. CASE UNCHANGED vars
  BY <1>14 DEF vars
<1> QED
  BY <1>1, <1>2, <1>3, <1>4, <1>5, <1>6, <1>7, <1>8, <1>9, <1>10, <1>11, <1>12, <1>13, <1>14
     DEF Next, Goroutine, Attempting

(* A box answers for what it has carried out. *)
LEMMA CarriedStep ==
  ASSUME Carried, [Next]_vars
  PROVE  Carried'
<1> USE DEF Carried, outside
<1>1. CASE Wait \/ Resolve \/ Skip \/ StepDone \/ LastStep \/ Finish \/ Cancel
  BY <1>1 DEF Wait, Resolve, Skip, StepDone, LastStep, Finish, Cancel
<1>2. CASE SendNext
  BY <1>2 DEF SendNext, Sent
<1>3. ASSUME NEW c \in calls, Obey(c) PROVE Carried'
  <2>1. /\ calls' = Moved(c, "obeyed") /\ obeyed' = obeyed \cup {c.attempt}
    BY <1>3 DEF Obey
  <2>2. [c EXCEPT !.stage = "obeyed"].attempt = c.attempt
    OBVIOUS
  <2> QED
    BY <2>1, <2>2 DEF Moved
<1>4. ASSUME NEW c \in calls, Answer(c) PROVE Carried'
  <2>1. obeyed' = obeyed
    BY <1>4 DEF Answer
  <2>2. PICK stage \in {"failed", "succeeded"} :
          calls' = Moved(c, stage) /\ (stage = "succeeded" => c.stage = "obeyed")
    BY <1>4 DEF Answer
  <2>3. /\ [c EXCEPT !.stage = stage].attempt = c.attempt
        /\ [c EXCEPT !.stage = stage].stage \in {"obeyed", "succeeded"} => c.stage = "obeyed"
    <3>1. CASE stage = "failed"
      <4>1. [c EXCEPT !.stage = stage].stage = stage \/ [c EXCEPT !.stage = stage] = c
        OBVIOUS
      <4> QED
        BY <3>1, <4>1, <1>4 DEF Answer
    <3>2. CASE stage = "succeeded"
      BY <2>2, <3>2
    <3> QED
      BY <3>1, <3>2
  <2> QED
    BY <2>1, <2>2, <2>3 DEF Moved
<1>5. ASSUME NEW c \in calls, Return(c) PROVE Carried'
  BY <1>5 DEF Return
<1>6. ASSUME NEW c \in calls, Retry(c) PROVE Carried'
  BY <1>6 DEF Retry, Sent
<1>7. ASSUME NEW c \in calls, GiveUp(c) PROVE Carried'
  BY <1>7 DEF GiveUp
<1>8. CASE UNCHANGED vars
  BY <1>8 DEF vars
<1> QED
  BY <1>1, <1>2, <1>3, <1>4, <1>5, <1>6, <1>7, <1>8 DEF Next, Goroutine, Attempting

(* What is owed is followed to its acknowledgement, as long as nothing     *)
(* failed for good.                                                        *)
LEMMA MovedKeeps ==
  ASSUME NEW c \in calls, NEW stage, calls' = Moved(c, stage), NEW o, Attempted(o)
  PROVE  Attempted(o)'
<1> DEFINE d == [c EXCEPT !.stage = stage]
<1>1. d.attempt = c.attempt /\ d \in calls'
  BY DEF Moved
<1>2. \A e \in calls : e # c => e \in calls'
  BY DEF Moved
<1> QED
  BY <1>1, <1>2 DEF Attempted

LEMMA FollowedStep ==
  ASSUME TypeOK, Quiet, Carried, Followed, [Next]_vars
  PROVE  Followed'
<1> USE DEF outside, counters, Shown
<1>1. CASE Wait
  BY <1>1 DEF Wait, Followed, Owed, Tracked, Acknowledged, Attempted, ToSend
<1>2. CASE Resolve
  <2> SUFFICES ASSUME fail = 0, NEW o \in Owed' PROVE Tracked(o)'
    BY <1>2 DEF Resolve, Followed
  <2>1. CASE o \in Owed
    BY <1>2, <2>1 DEF Resolve, Followed, Tracked, Acknowledged, Attempted, ToSend
  <2>2. CASE o \notin Owed
    <3>1. o[1] = at /\ o[2] \in TargetsOf(at)
      BY <1>2, <2>2 DEF Resolve, Owed
    <3>2. \E n \in DOMAIN todo' : todo'[n] = o[2]
      BY <1>2, <3>1 DEF Resolve, TargetsOf
    <3> QED
      BY <1>2, <3>1, <3>2 DEF Resolve, Tracked, ToSend
  <2> QED
    BY <2>1, <2>2
<1>3. CASE Skip
  BY <1>3 DEF Skip, Followed, Owed, Tracked, Acknowledged, Attempted, ToSend
<1>4. CASE SendNext
  <2> SUFFICES ASSUME fail = 0, NEW o \in Owed PROVE Tracked(o)'
    BY <1>4 DEF SendNext, Followed, Owed
  <2>1. Tracked(o)
    BY DEF Followed
  <2>2. CASE Acknowledged(o) \/ Attempted(o)
    BY <1>4, <2>2 DEF SendNext, Tracked, Acknowledged, Attempted
  <2>3. CASE ToSend(o)
    <3>1. PICK n \in DOMAIN todo : todo[n] = o[2]
      BY <2>3 DEF ToSend
    <3>2. todo \in Seq(Devices) /\ todo # <<>> /\ o[1] = at
      BY <1>4, <2>3 DEF SendNext, TypeOK, ToSend
    <3>3. CASE n = 1
      <4> DEFINE attempt == [step |-> at, device |-> Head(todo), first |-> TRUE]
      <4>1. Sent(attempt) \in calls' /\ Sent(attempt).attempt = attempt
        BY <1>4 DEF SendNext, Sent
      <4>2. attempt.step = o[1] /\ attempt.device = o[2]
        BY <3>1, <3>2, <3>3
      <4> QED
        BY <4>1, <4>2 DEF Tracked, Attempted
    <3>4. CASE n # 1
      <4>1. n - 1 \in DOMAIN Tail(todo) /\ Tail(todo)[n - 1] = todo[n]
        BY <3>1, <3>2, <3>4
      <4> QED
        BY <1>4, <3>1, <3>2, <4>1 DEF SendNext, Tracked, ToSend
    <3> QED
      BY <3>3, <3>4
  <2> QED
    BY <2>1, <2>2, <2>3 DEF Tracked
<1>5. CASE StepDone
  <2>1. \A o : ~ToSend(o)
    BY <1>5 DEF StepDone, ToSend
  <2> QED
    BY <1>5, <2>1 DEF StepDone, Followed, Owed, Tracked, Acknowledged, Attempted, ToSend
<1>6. CASE LastStep
  BY <1>6 DEF LastStep, Followed, Owed, Tracked, Acknowledged, Attempted, ToSend
<1>7. CASE Finish
  BY <1>7 DEF Finish, Followed, Owed, Tracked, Acknowledged, Attempted, ToSend
<1>8. CASE Cancel
  BY <1>8 DEF Cancel, Followed, Owed, Tracked, Acknowledged, Attempted, ToSend
<1>9. ASSUME NEW c \in calls, Obey(c) PROVE Followed'
  <2>1. /\ UNCHANGED <<pc, at, todo, fail, log, read, unrecorded>>
        /\ obeyed \subseteq obeyed' /\ calls' = Moved(c, "obeyed")
    BY <1>9 DEF Obey
  <2> QED
    BY <2>1, MovedKeeps DEF Followed, Owed, Tracked, Acknowledged, ToSend
<1>10. ASSUME NEW c \in calls, Answer(c) PROVE Followed'
  <2>1. UNCHANGED <<pc, at, todo, fail, log, read, obeyed, unrecorded>>
    BY <1>10 DEF Answer
  <2>2. PICK stage \in {"failed", "succeeded"} : calls' = Moved(c, stage)
    BY <1>10 DEF Answer
  <2> QED
    BY <2>1, <2>2, MovedKeeps DEF Followed, Owed, Tracked, Acknowledged, ToSend
<1>11. ASSUME NEW c \in calls, Return(c) PROVE Followed'
  <2> SUFFICES ASSUME fail' = 0, NEW o \in Owed PROVE Tracked(o)'
    BY <1>11 DEF Return, Followed, Owed
  <2>1. /\ log \subseteq log' /\ unrecorded \subseteq unrecorded'
        /\ UNCHANGED <<pc, at, todo, read, obeyed>>
    BY <1>11 DEF Return, Recorded
  <2>2. fail = 0 /\ (c.stage = "succeeded" \/ Retried(c))
    <3>1. fail' = fail \/ fail' = fail + 1
      BY <1>11, Zenon DEF Return
    <3>2. fail \in Nat /\ fail + 1 # fail
      <4>1. fail \in Nat
        BY DEF TypeOK
      <4> QED
        BY <4>1
    <3>3. fail' = fail => c.stage = "succeeded" \/ Retried(c)
      <4> SUFFICES ASSUME ~(c.stage = "succeeded" \/ Retried(c)) PROVE fail' = fail + 1
        BY <3>2
      <4> QED
        BY <1>11, Zenon DEF Return, CountedNow
    <3> QED
      BY <3>1, <3>2, <3>3
  <2>3. CASE Acknowledged(o) \/ ToSend(o)
    BY <2>1, <2>3 DEF Tracked, Acknowledged, ToSend
  <2>4. CASE \E e \in calls : e # c /\ e.attempt.step = o[1] /\ e.attempt.device = o[2]
    BY <1>11, <2>4 DEF Return, Tracked, Attempted
  <2>5. CASE c.attempt.step = o[1] /\ c.attempt.device = o[2]
    <3>1. c.attempt \in Attempt
      BY DEF TypeOK
    <3>2. CASE c.stage = "succeeded"
      <4>1. /\ \/ [attempt |-> c.attempt, success |-> TRUE] \in log'
               \/ c.attempt \in unrecorded'
            /\ c.attempt \in obeyed'
        <5>1. \/ log' = log \cup {[attempt |-> c.attempt, success |-> c.stage = "succeeded"]}
              \/ unrecorded' = unrecorded \cup {c.attempt}
          BY <1>11 DEF Return, Recorded
        <5>2. (c.stage = "succeeded") = TRUE /\ c.attempt \in obeyed
          BY <3>2 DEF Carried
        <5> QED
          BY <2>1, <5>1, <5>2
      <4>2. c.attempt = [step |-> o[1], device |-> o[2], first |-> c.attempt.first] /\ c.attempt.first \in BOOLEAN
        BY <2>5, <3>1 DEF Attempt
      <4> QED
        BY <4>1, <4>2 DEF Tracked, Acknowledged
    <3>3. CASE Retried(c)
      <4> DEFINE d == [attempt |-> [c.attempt EXCEPT !.first = FALSE], stage |-> "armed"]
      <4>1. d \in calls'
        BY <1>11, <3>3 DEF Return
      <4>2. d.attempt.step = o[1] /\ d.attempt.device = o[2]
        BY <2>5, <3>1 DEF Attempt
      <4> QED
        BY <4>1, <4>2 DEF Tracked, Attempted
    <3> QED
      BY <2>2, <3>2, <3>3
  <2> QED
    BY <2>2, <2>3, <2>4, <2>5 DEF Followed, Tracked, Attempted
<1>12. ASSUME NEW c \in calls, Retry(c) PROVE Followed'
  <2> SUFFICES ASSUME fail = 0, NEW o \in Owed PROVE Tracked(o)'
    BY <1>12 DEF Retry, Followed, Owed
  <2>1. UNCHANGED <<pc, at, todo, log, obeyed, unrecorded>>
    BY <1>12 DEF Retry
  <2>2. Sent(c.attempt) \in calls' /\ Sent(c.attempt).attempt = c.attempt
    BY <1>12 DEF Retry, Sent
  <2>3. \A e \in calls : e # c => e \in calls'
    BY <1>12 DEF Retry
  <2>4. Attempted(o) => Attempted(o)'
    BY <2>2, <2>3 DEF Attempted
  <2> QED
    BY <2>1, <2>4 DEF Followed, Tracked, Acknowledged, ToSend
<1>13. ASSUME NEW c \in calls, GiveUp(c) PROVE Followed'
  <2>1. fail' = fail + 1 /\ fail \in Nat
    BY <1>13 DEF GiveUp, TypeOK
  <2>2. fail' # 0
    BY <2>1
  <2> QED
    BY <2>2 DEF Followed
<1>14. CASE UNCHANGED vars
  BY <1>14 DEF vars, Followed, Owed, Tracked, Acknowledged, Attempted, ToSend
<1> QED
  BY <1>1, <1>2, <1>3, <1>4, <1>5, <1>6, <1>7, <1>8, <1>9, <1>10, <1>11, <1>12, <1>13, <1>14
     DEF Next, Goroutine, Attempting

(* The verdict. *)
LEMMA JudgedStep ==
  ASSUME TypeOK, Quiet, Judged, [Next]_vars
  PROVE  Judged'
<1> USE DEF Judged, outside, counters
<1>1. CASE Wait
  BY <1>1 DEF Wait
<1>2. CASE Resolve
  BY <1>2 DEF Resolve
<1>3. CASE Skip
  BY <1>3 DEF Skip
<1>4. CASE SendNext
  BY <1>4 DEF SendNext
<1>5. CASE StepDone
  BY <1>5 DEF StepDone
<1>6. CASE LastStep
  BY <1>6 DEF LastStep
<1>7. CASE Finish
  <2>1. verdict' = "success" => verdict' = Verdict /\ Verdict = "success"
    BY <1>7, Zenon DEF Finish
  <2>2. ok \in Nat /\ fail \in Nat
    BY DEF TypeOK
  <2>3. Verdict = "success" => fail = 0
    <3>1. ok + fail = 0 \/ (fail = 0 /\ ok > 0) \/ (fail > 0 /\ ok = 0) \/ (fail > 0 /\ ok > 0)
      BY <2>2
    <3> QED
      BY <2>2, <3>1 DEF Verdict
  <2>4. pc' = "done" /\ fail' = fail
    BY <1>7 DEF Finish
  <2> QED
    BY <2>1, <2>3, <2>4
<1>8. CASE Cancel
  BY <1>8 DEF Cancel
<1>9. ASSUME NEW c \in calls, Obey(c) PROVE Judged'
  BY <1>9 DEF Obey
<1>10. ASSUME NEW c \in calls, Answer(c) PROVE Judged'
  BY <1>10 DEF Answer
<1>11. ASSUME NEW c \in calls, Return(c) PROVE Judged'
  BY <1>11 DEF Return, Quiet
<1>12. ASSUME NEW c \in calls, Retry(c) PROVE Judged'
  BY <1>12 DEF Retry
<1>13. ASSUME NEW c \in calls, GiveUp(c) PROVE Judged'
  BY <1>13 DEF GiveUp, Quiet
<1>14. CASE UNCHANGED vars
  BY <1>14 DEF vars
<1> QED
  BY <1>1, <1>2, <1>3, <1>4, <1>5, <1>6, <1>7, <1>8, <1>9, <1>10, <1>11, <1>12, <1>13, <1>14
     DEF Next, Goroutine, Attempting

-----------------------------------------------------------------------------
(* One attempt in progress at most for each command owed: the calls, the   *)
(* targets left and the commands owed can then be counted against each     *)
(* other, and the attempts on a device are ordered by their steps.         *)
Command(c) == <<c.attempt.step, c.attempt.device>>

Apart ==
  /\ \A c, d \in calls : Command(c) = Command(d) => c = d
  /\ \A m, n \in DOMAIN todo : todo[m] = todo[n] => m = n
  /\ \A c \in calls, n \in DOMAIN todo : Command(c) # <<at, todo[n]>>

\* A step's targets are read when it begins, and commands are those of the steps read.
Reading ==
  /\ \A i \in read : i < at \/ (i = at /\ pc = "targets")
  /\ \A c \in calls : Command(c) \in Owed
  /\ \A n \in DOMAIN todo : <<at, todo[n]>> \in Owed

\* What a step of an attempt does to the commands: the command stays in progress, or is counted.
Kept(c) == \E d \in Call :
  /\ calls' = (calls \ {c}) \cup {d} /\ Command(d) = Command(c)
  /\ ok' + fail' = ok + fail
Over(c) == calls' = calls \ {c} /\ ok' + fail' = ok + fail + 1

LEMMA AttemptMoves ==
  ASSUME TypeOK, NEW c \in calls, Attempting(c)
  PROVE  UNCHANGED <<pc, at, todo, read>> /\ (Kept(c) \/ Over(c))
<1>1. UNCHANGED <<pc, at, todo, read>>
  BY DEF Attempting, Obey, Answer, Return, Retry, GiveUp
<1>2. c \in Call /\ c.attempt \in Attempt /\ ok \in Nat /\ fail \in Nat
  BY DEF TypeOK, Call
<1>3. ASSUME NEW stage \in Stage, calls' = Moved(c, stage), UNCHANGED counters PROVE Kept(c)
  <2> DEFINE d == [c EXCEPT !.stage = stage]
  <2>1. d \in Call /\ Command(d) = Command(c)
    BY <1>2 DEF Call, Command
  <2> HIDE DEF d
  <2> QED
    BY <1>3, <2>1 DEF Kept, Moved, d, counters
<1>4. CASE Obey(c)
  BY <1>3, <1>4 DEF Obey, Stage
<1>5. CASE Answer(c)
  BY <1>3, <1>5 DEF Answer, Stage
<1>6. CASE Return(c)
  <2>1. CASE Retried(c)
    <3> DEFINE d == [attempt |-> [c.attempt EXCEPT !.first = FALSE], stage |-> "armed"]
    <3>1. d \in Call /\ Command(d) = Command(c)
      BY <1>2 DEF Call, Command, Attempt, Stage
    <3>2. calls' = (calls \ {c}) \cup {d} /\ ok' = ok /\ fail' = fail
      BY <1>6, <2>1, Zenon DEF Return, CountedNow
    <3>3. ok' + fail' = ok + fail
      BY <3>2
    <3> HIDE DEF d
    <3> QED
      BY <1>1, <3>1, <3>2, <3>3, Zenon DEF Kept
  <2>2. CASE ~Retried(c)
    <3>1. calls' = calls \ {c}
      BY <1>6, <2>2 DEF Return
    <3>2. CASE c.stage = "succeeded"
      <4>1. ok' = ok + 1 /\ fail' = fail
        BY <1>6, <2>2, <3>2, Zenon DEF Return, CountedNow
      <4>2. ok' + fail' = ok + fail + 1
        BY <1>2, <4>1
      <4> QED
        BY <1>1, <3>1, <4>2, Zenon DEF Over
    <3>3. CASE c.stage # "succeeded"
      <4>1. ok' = ok /\ fail' = fail + 1
        BY <1>6, <2>2, <3>3, Zenon DEF Return, CountedNow
      <4>2. ok' + fail' = ok + fail + 1
        BY <1>2, <4>1
      <4> QED
        BY <1>1, <3>1, <4>2, Zenon DEF Over
    <3> QED
      BY <3>2, <3>3
  <2> QED
    BY <2>1, <2>2
<1>7. CASE Retry(c)
  <2>1. Sent(c.attempt) \in Call /\ Command(Sent(c.attempt)) = Command(c)
    BY <1>2, SentType DEF Command
  <2> QED
    BY <1>7, <2>1 DEF Retry, Kept, counters
<1>8. CASE GiveUp(c)
  BY <1>2, <1>8 DEF GiveUp, Over
<1> QED
  BY <1>1, <1>4, <1>5, <1>6, <1>7, <1>8 DEF Attempting

\* A command sent is one more attempt, of the first target left.
LEMMA SendMoves ==
  ASSUME TypeOK, AtAction, SendNext
  PROVE  \E d \in Call :
           /\ calls' = calls \cup {d} /\ Command(d) = <<at, todo[1]>> /\ d.stage \in {"sent", "failed"}
           /\ 1 \in DOMAIN todo /\ Len(todo') = Len(todo) - 1
           /\ \A n \in DOMAIN todo' : n + 1 \in DOMAIN todo /\ todo'[n] = todo[n + 1]
<1> DEFINE attempt == [step |-> at, device |-> Head(todo), first |-> TRUE]
<1>1. todo \in Seq(Devices) /\ todo # <<>> /\ todo' = Tail(todo) /\ at \in Steps
  BY DEF SendNext, TypeOK, AtAction
<1>2. 1 \in DOMAIN todo /\ Head(todo) = todo[1] /\ Head(todo) \in Devices
  BY <1>1
<1>3. Len(todo') = Len(todo) - 1 /\ \A n \in DOMAIN todo' : n + 1 \in DOMAIN todo /\ todo'[n] = todo[n + 1]
  BY <1>1
<1>4. attempt \in Attempt
  BY <1>1, <1>2 DEF Attempt
<1>5. Sent(attempt) \in Call /\ Sent(attempt).attempt = attempt
  BY <1>4, SentType
<1>6. Sent(attempt).stage \in {"sent", "failed"}
  BY DEF Sent
<1>7. Command(Sent(attempt)) = <<at, todo[1]>>
  BY <1>2, <1>5 DEF Command
<1>8. calls' = calls \cup {Sent(attempt)}
  BY DEF SendNext
<1> QED
  BY <1>2, <1>3, <1>5, <1>6, <1>7, <1>8

\* A step to be read has no command yet.
LEMMA ResolveMoves ==
  ASSUME TypeOK, Quiet, Reading, Resolve
  PROVE  /\ todo = <<>> /\ todo' \in Seq(Devices) /\ calls' = calls
         /\ \A m, n \in DOMAIN todo' : todo'[m] = todo'[n] => m = n
         /\ Owed' = Owed \cup {<<at, todo'[n]>> : n \in DOMAIN todo'}
         /\ \A o \in Owed : o[1] < at
<1>1. at \in Steps /\ Program[at].type = "action" /\ todo' = Program[at].targets /\ calls' = calls
      /\ read' = read \cup {at} /\ pc = "step"
  BY DEF Resolve
<1>2. todo = <<>>
  BY <1>1 DEF Quiet
<1>3. todo' \in Seq(Devices)
  BY <1>1, TargetsType
<1>4. \A m, n \in DOMAIN todo' : todo'[m] = todo'[n] => m = n
  BY <1>1, SceneExecutionAssumption
<1>5. TargetsOf(at) = {todo'[n] : n \in DOMAIN todo'}
  BY <1>1 DEF TargetsOf
<1>6. \A n \in DOMAIN todo' : todo'[n] \in Devices
  BY <1>3
<1>7. Owed' = Owed \cup {<<at, todo'[n]>> : n \in DOMAIN todo'}
  BY <1>1, <1>5, <1>6 DEF Owed
<1>8. \A o \in Owed : o[1] < at
  BY <1>1 DEF Owed, Reading
<1> QED
  BY <1>1, <1>2, <1>3, <1>4, <1>7, <1>8

LEMMA ApartStep ==
  ASSUME TypeOK, AtAction, Quiet, Apart, Reading, [Next]_vars
  PROVE  Apart'
<1>1. CASE Wait
  BY <1>1 DEF Wait, Quiet, Apart
<1>2. CASE Resolve
  <2>1. \A c \in calls : Command(c) \in Owed
    BY DEF Reading
  <2>2. \A c \in calls, n \in DOMAIN todo' : Command(c) # <<at, todo'[n]>>
    <3> SUFFICES ASSUME NEW c \in calls, c.attempt.step = at PROVE FALSE
      BY DEF Command
    <3>1. Command(c)[1] < at
      BY <1>2, <2>1, ResolveMoves
    <3>2. at \in Nat
      BY TypeIsItsParts DEF Place
    <3> QED
      BY <3>1, <3>2 DEF Command
  <2> QED
    BY <1>2, <2>2, ResolveMoves DEF Apart, Command, Resolve
<1>3. CASE Skip
  BY <1>3 DEF Skip, Quiet, Apart
<1>4. CASE SendNext
  <2>1. at' = at
    BY <1>4 DEF SendNext
  <2>2. PICK d \in Call :
          /\ calls' = calls \cup {d} /\ Command(d) = <<at, todo[1]>>
          /\ 1 \in DOMAIN todo
          /\ \A n \in DOMAIN todo' : n + 1 \in DOMAIN todo /\ todo'[n] = todo[n + 1]
    BY <1>4, SendMoves
  <2>3. DOMAIN todo' \subseteq Nat \ {0}
    <3>1. todo \in Seq(Devices) /\ todo # <<>> /\ todo' = Tail(todo)
      BY <1>4, TypeIsItsParts DEF SendNext, Place
    <3> QED
      BY <3>1
  <2>4. \A m, n \in DOMAIN todo' : todo'[m] = todo'[n] => m = n
    BY <2>2, <2>3 DEF Apart
  <2>5. \A c \in calls : Command(c) # Command(d)
    BY <2>2 DEF Apart
  <2>6. \A n \in DOMAIN todo' : Command(d) # <<at, todo'[n]>>
    BY <2>2, <2>3 DEF Apart
  <2>7. \A c \in calls, n \in DOMAIN todo' : Command(c) # <<at, todo'[n]>>
    BY <2>2 DEF Apart
  <2>8. \A c, e \in calls : Command(c) = Command(e) => c = e
    BY DEF Apart
  <2> HIDE DEF Command
  <2> QED
    BY <2>1, <2>2, <2>4, <2>5, <2>6, <2>7, <2>8 DEF Apart
<1>5. CASE StepDone
  BY <1>5 DEF StepDone, Apart
<1>6. CASE LastStep
  BY <1>6 DEF LastStep, Apart
<1>7. CASE Finish
  BY <1>7 DEF Finish, Apart
<1>8. CASE Cancel
  BY <1>8 DEF Cancel, Apart
<1>9. ASSUME NEW c \in calls, Attempting(c) PROVE Apart'
  <2>1. UNCHANGED <<at, todo>>
    BY <1>9, AttemptMoves
  <2>2. CASE Over(c)
    BY <2>1, <2>2 DEF Over, Apart, Command
  <2>3. CASE Kept(c)
    <3>1. PICK d \in Call : calls' = (calls \ {c}) \cup {d} /\ Command(d) = Command(c)
      BY <2>3 DEF Kept
    <3> QED
      BY <2>1, <3>1 DEF Apart, Command
  <2> QED
    BY <1>9, <2>2, <2>3, AttemptMoves
<1>10. CASE UNCHANGED vars
  BY <1>10 DEF vars, Apart, Command
<1> QED
  BY <1>1, <1>2, <1>3, <1>4, <1>5, <1>6, <1>7, <1>8, <1>9, <1>10 DEF Next, Goroutine

LEMMA ReadingStep ==
  ASSUME TypeOK, AtAction, Quiet, Reading, [Next]_vars
  PROVE  Reading'
<1>0. ASSUME at' = at + 1, pc # "step" => pc' = "step", pc \in {"step", "targets"},
             UNCHANGED <<todo, calls, read>>, todo = <<>>
      PROVE  Reading'
  <2>1. Owed' = Owed /\ \A c \in calls : Command(c) \in Owed
    BY <1>0 DEF Owed, Reading
  <2>2. at \in Nat /\ \A i \in read : i \in Nat
    BY StepsAre, TypeIsItsParts DEF Place, Memory
  <2>3. \A i \in read : i < at + 1
    BY <2>2 DEF Reading
  <2> QED
    BY <1>0, <2>1, <2>3 DEF Reading, Command
<1>1. CASE Wait
  BY <1>0, <1>1 DEF Wait, Quiet
<1>2. CASE Resolve
  <2>1. at' = at /\ pc' = "targets" /\ pc = "step" /\ read' = read \cup {at}
    BY <1>2 DEF Resolve
  <2> QED
    BY <1>2, <2>1, ResolveMoves DEF Reading, Command
<1>3. CASE Skip
  BY <1>0, <1>3 DEF Skip, Quiet
<1>4. CASE SendNext
  <2>1. UNCHANGED <<pc, at, read>> /\ Owed' = Owed
    BY <1>4 DEF SendNext, Owed
  <2> QED
    BY <1>4, <2>1, SendMoves DEF Reading, Command
<1>5. CASE StepDone
  BY <1>0, <1>5 DEF StepDone
<1>6. CASE LastStep
  BY <1>6 DEF LastStep, Reading, Owed, Command
<1>7. CASE Finish
  BY <1>7 DEF Finish, Reading, Owed, Command
<1>8. CASE Cancel
  BY <1>8 DEF Cancel, Reading, Owed, Command
<1>9. ASSUME NEW c \in calls, Attempting(c) PROVE Reading'
  <2>1. UNCHANGED <<pc, at, todo, read>> /\ Owed' = Owed
    BY <1>9, AttemptMoves DEF Owed
  <2>2. \A d \in calls' : \E e \in calls : Command(d) = Command(e)
    BY <1>9, AttemptMoves DEF Kept, Over
  <2> QED
    BY <2>1, <2>2 DEF Reading, Command
<1>10. CASE UNCHANGED vars
  BY <1>10 DEF vars, Reading, Owed, Command
<1> QED
  BY <1>1, <1>2, <1>3, <1>4, <1>5, <1>6, <1>7, <1>8, <1>9, <1>10 DEF Next, Goroutine

(* The counts.  A step read owes as many commands as it has targets.       *)
Finite == IsFiniteSet(calls) /\ IsFiniteSet(Owed)

LEMMA TargetsAreDistinct ==
  ASSUME NEW s \in Seq(Devices), NEW i, \A m, n \in DOMAIN s : s[m] = s[n] => m = n
  PROVE  /\ IsFiniteSet({<<i, s[n]>> : n \in DOMAIN s})
         /\ Cardinality({<<i, s[n]>> : n \in DOMAIN s}) = Len(s)
<1> DEFINE T == {<<i, s[n]>> : n \in DOMAIN s}
           f == [n \in DOMAIN s |-> <<i, s[n]>>]
<1>1. DOMAIN s = 1 .. Len(s) /\ Len(s) \in Nat
  OBVIOUS
<1>2. IsFiniteSet(DOMAIN s) /\ Cardinality(DOMAIN s) = Len(s)
  BY <1>1, FS_Interval
<1>3. f \in Surjection(DOMAIN s, T)
  BY Fun_IsSurj
<1>4. f \in Injection(DOMAIN s, T)
  BY Fun_IsInj
<1> QED
  BY <1>2, <1>3, <1>4, FS_Surjection

LEMMA FiniteStep ==
  ASSUME TypeOK, AtAction, Quiet, Reading, Finite, [Next]_vars
  PROVE  Finite'
<1> USE DEF Finite
<1>1. CASE Wait
  BY <1>1 DEF Wait, Owed
<1>2. CASE Resolve
  <2>1. IsFiniteSet({<<at, todo'[n]>> : n \in DOMAIN todo'})
    BY <1>2, ResolveMoves, TargetsAreDistinct
  <2>2. IsFiniteSet(Owed \cup {<<at, todo'[n]>> : n \in DOMAIN todo'})
    BY <2>1, FS_Union
  <2> QED
    BY <1>2, <2>2, ResolveMoves
<1>3. CASE Skip
  BY <1>3 DEF Skip, Owed
<1>4. CASE SendNext
  <2>1. PICK d \in Call : calls' = calls \cup {d}
    BY <1>4, SendMoves
  <2>2. Owed' = Owed
    BY <1>4 DEF SendNext, Owed
  <2> QED
    BY <2>1, <2>2, FS_AddElement
<1>5. CASE StepDone
  BY <1>5 DEF StepDone, Owed
<1>6. CASE LastStep
  BY <1>6 DEF LastStep, Owed
<1>7. CASE Finish
  BY <1>7 DEF Finish, Owed
<1>8. CASE Cancel
  BY <1>8 DEF Cancel, Owed
<1>9. ASSUME NEW c \in calls, Attempting(c) PROVE Finite'
  <2>1. Owed' = Owed /\ (Kept(c) \/ Over(c))
    BY <1>9, AttemptMoves DEF Owed
  <2>2. IsFiniteSet(calls \ {c})
    BY FS_RemoveElement
  <2> QED
    BY <2>1, <2>2, FS_AddElement DEF Kept, Over
<1>10. CASE UNCHANGED vars
  BY <1>10 DEF vars, Owed
<1> QED
  BY <1>1, <1>2, <1>3, <1>4, <1>5, <1>6, <1>7, <1>8, <1>9, <1>10 DEF Next, Goroutine

LEMMA CountsAddUpStep ==
  ASSUME TypeOK, AtAction, Quiet, Apart, Reading, Finite, CountsAddUp, [Next]_vars
  PROVE  CountsAddUp'
<1>a. /\ ok \in Nat /\ fail \in Nat /\ Len(todo) \in Nat /\ Cardinality(calls) \in Nat
      /\ ok + fail + (Len(todo) + Cardinality(calls)) = Cardinality(Owed)
  BY TypeIsItsParts, FS_CardinalityType DEF Place, Counts, Finite, CountsAddUp, Pending
<1>b. SUFFICES ok' + fail' + (Len(todo') + Cardinality(calls')) = Cardinality(Owed')
  BY DEF CountsAddUp, Pending
<1>c. ASSUME UNCHANGED <<ok, fail, todo, calls, read>>
      PROVE  ok' + fail' + (Len(todo') + Cardinality(calls')) = Cardinality(Owed')
  BY <1>a, <1>c DEF Owed
<1>1. CASE Wait
  BY <1>1, <1>c DEF Wait, counters
<1>2. CASE Resolve
  <2> DEFINE T == {<<at, todo'[n]>> : n \in DOMAIN todo'}
  <2>1. IsFiniteSet(T) /\ Cardinality(T) = Len(todo') /\ Len(todo') \in Nat
    <3>1. todo' \in Seq(Devices) /\ \A m, n \in DOMAIN todo' : todo'[m] = todo'[n] => m = n
      BY <1>2, ResolveMoves
    <3>2. Len(todo') \in Nat
      BY <3>1
    <3> QED
      BY <3>1, <3>2, TargetsAreDistinct
  <2>2. Owed \cap T = {}
    <3> SUFFICES ASSUME NEW o \in Owed, o \in T PROVE FALSE
      OBVIOUS
    <3>1. o[1] < at /\ o[1] = at
      BY <1>2, ResolveMoves
    <3>2. at \in Nat
      BY TypeIsItsParts DEF Place
    <3> QED
      BY <3>1, <3>2
  <2>3. Cardinality(Owed \cup T) = Cardinality(Owed) + Len(todo')
    <3>1. Cardinality(Owed \cap T) = 0
      BY <2>2, FS_EmptySet
    <3>2. Cardinality(Owed \cup T) = Cardinality(Owed) + Cardinality(T) - Cardinality(Owed \cap T)
      BY <2>1, FS_Union DEF Finite
    <3>3. Cardinality(Owed) \in Nat
      BY FS_CardinalityType DEF Finite
    <3> QED
      BY <2>1, <3>1, <3>2, <3>3
  <2>4. Owed' = Owed \cup T /\ calls' = calls /\ Len(todo) = 0 /\ ok' = ok /\ fail' = fail
    BY <1>2, ResolveMoves DEF Resolve, counters
  <2> QED
    BY <1>a, <2>1, <2>3, <2>4
<1>3. CASE Skip
  BY <1>3, <1>c DEF Skip, counters
<1>4. CASE SendNext
  <2>1. PICK d \in Call :
          /\ calls' = calls \cup {d} /\ Command(d) = <<at, todo[1]>>
          /\ 1 \in DOMAIN todo /\ Len(todo') = Len(todo) - 1
    BY <1>4, SendMoves
  <2>2. d \notin calls
    BY <2>1 DEF Apart
  <2>3. Cardinality(calls') = Cardinality(calls) + 1
    BY <2>1, <2>2, FS_AddElement DEF Finite
  <2>4. ok' = ok /\ fail' = fail /\ Owed' = Owed
    BY <1>4 DEF SendNext, counters, Owed
  <2> QED
    BY <1>a, <2>1, <2>3, <2>4
<1>5. CASE StepDone
  BY <1>5, <1>c DEF StepDone, counters
<1>6. CASE LastStep
  BY <1>6, <1>c DEF LastStep, counters
<1>7. CASE Finish
  BY <1>7, <1>c DEF Finish, counters
<1>8. CASE Cancel
  BY <1>8, <1>c DEF Cancel, counters
<1>9. ASSUME NEW c \in calls, Attempting(c)
      PROVE  ok' + fail' + (Len(todo') + Cardinality(calls')) = Cardinality(Owed')
  <2>1. Len(todo') = Len(todo) /\ Cardinality(Owed') = Cardinality(Owed)
    BY <1>9, AttemptMoves DEF Owed
  <2>2. IsFiniteSet(calls \ {c}) /\ Cardinality(calls \ {c}) = Cardinality(calls) - 1
    BY FS_RemoveElement DEF Finite
  <2>3. CASE Over(c)
    <3>1. ok' + fail' = ok + fail + 1 /\ Cardinality(calls') = Cardinality(calls) - 1
      BY <2>2, <2>3 DEF Over
    <3> QED
      BY <1>a, <2>1, <3>1
  <2>4. CASE Kept(c)
    <3>1. PICK d \in Call : /\ calls' = (calls \ {c}) \cup {d} /\ Command(d) = Command(c)
                            /\ ok' + fail' = ok + fail
      BY <2>4 DEF Kept
    <3>2. d \notin calls \ {c}
      BY <3>1 DEF Apart
    <3>3. Cardinality(calls') = Cardinality(calls)
      <4>1. Cardinality(calls') = Cardinality(calls \ {c}) + 1
        BY <2>2, <3>1, <3>2, FS_AddElement
      <4> QED
        BY <1>a, <2>2, <4>1
    <3> QED
      BY <1>a, <2>1, <3>1, <3>3
  <2> QED
    BY <1>9, <2>3, <2>4, AttemptMoves
<1>10. CASE UNCHANGED vars
  BY <1>10, <1>c DEF vars
<1> QED
  BY <1>1, <1>2, <1>3, <1>4, <1>5, <1>6, <1>7, <1>8, <1>9, <1>10 DEF Next, Goroutine

-----------------------------------------------------------------------------
(* The order of the commands.  A wait lets no attempt of an earlier step   *)
(* through, but on a slow box; so two attempts in progress on a device     *)
(* whose steps waits separate are of the same step.                        *)
Past == \A d \in Devices : world[d] <= at

Fresh == \A c \in calls : c.attempt.device \notin Slow =>
  \A k \in c.attempt.step .. at - 1 : Program[k].type # "wait"

Onward == \A c \in calls :
  c.attempt.device \notin Slow /\ Separated(c.attempt.device) =>
    world[c.attempt.device] <= c.attempt.step

\* Each attempt in progress after a step of an attempt was in progress before it.
LEMMA CommandsStay ==
  ASSUME TypeOK, NEW c \in calls, Attempting(c)
  PROVE  \A d \in calls' : \E e \in calls :
           d.attempt.step = e.attempt.step /\ d.attempt.device = e.attempt.device
<1>1. \A d \in calls' : \E e \in calls : Command(d) = Command(e)
  BY AttemptMoves DEF Kept, Over
<1> QED
  BY <1>1 DEF Command

\* An attempt is of an action already read that has its device for target.
LEMMA CallIs ==
  ASSUME TypeOK, Reading, NEW c \in calls
  PROVE  /\ c.attempt.step \in Steps /\ c.attempt.device \in Devices
         /\ c.attempt.device \in TargetsOf(c.attempt.step)
         /\ Program[c.attempt.step].type = "action"
         /\ at \in Nat /\ c.attempt.step \in Nat /\ c.attempt.step <= at
<1>1. Command(c) \in Owed
  BY DEF Reading
<1>2. /\ c.attempt.step \in read /\ c.attempt.step \in Steps /\ c.attempt.device \in Devices
      /\ c.attempt.device \in TargetsOf(c.attempt.step)
  BY <1>1 DEF Owed, Command
<1>3. at \in Nat /\ c.attempt.step \in Nat
  BY <1>2, StepsAre, TypeIsItsParts DEF Place
<1>4. c.attempt.step <= at
  BY <1>2, <1>3 DEF Reading
<1>5. Program[c.attempt.step].type = "action"
  BY <1>2 DEF TargetsOf
<1> QED
  BY <1>2, <1>3, <1>4, <1>5

LEMMA NotBefore ==
  ASSUME TypeOK, Reading, Fresh, NEW c \in calls, NEW e \in calls,
         c.attempt.device = e.attempt.device, c.attempt.device \notin Slow,
         Separated(c.attempt.device)
  PROVE  c.attempt.step >= e.attempt.step
<1> DEFINE i == c.attempt.step
           j == e.attempt.step
<1>1. /\ i \in Steps /\ i \in Nat /\ j \in Steps /\ j \in Nat /\ at \in Nat /\ j <= at
      /\ Program[j].type = "action"
      /\ c.attempt.device \in TargetsOf(i) /\ c.attempt.device \in TargetsOf(j)
  BY CallIs
<1>2. SUFFICES ASSUME i < j PROVE FALSE
  BY <1>1
<1>3. PICK k \in i .. j : Program[k].type = "wait"
  BY <1>1, <1>2 DEF Separated
<1>4. k # j
  BY <1>1, <1>3
<1>5. k \in i .. at - 1
  BY <1>1, <1>4
<1> QED
  BY <1>3, <1>5 DEF Fresh

LEMMA PastStep ==
  ASSUME TypeOK, Reading, Past, [Next]_vars
  PROVE  Past'
<1> USE DEF outside
<1>0. /\ at \in Nat /\ world \in [Devices -> Steps \cup {0}]
      /\ \A d \in Devices : world[d] \in Nat /\ world[d] <= at
  BY StepsAre, TypeIsItsParts DEF Place, Memory, Past
<1>1. CASE Wait \/ Skip \/ StepDone
  <2>1. at' = at + 1 /\ world' = world
    BY <1>1 DEF Wait, Skip, StepDone
  <2> QED
    BY <1>0, <2>1 DEF Past
<1>2. CASE Resolve \/ SendNext \/ LastStep \/ Finish \/ Cancel
  BY <1>2 DEF Resolve, SendNext, LastStep, Finish, Cancel, Past
<1>3. ASSUME NEW c \in calls, Obey(c) PROVE Past'
  <2>1. /\ at' = at /\ c.attempt.step <= at
        /\ world' = [world EXCEPT ![c.attempt.device] = c.attempt.step]
    BY <1>3, CallIs DEF Obey
  <2> QED
    BY <1>0, <2>1 DEF Past
<1>4. ASSUME NEW c \in calls, Answer(c) \/ Return(c) \/ Retry(c) \/ GiveUp(c) PROVE Past'
  BY <1>4 DEF Answer, Return, Retry, GiveUp, Past
<1>5. CASE UNCHANGED vars
  BY <1>5 DEF vars, Past
<1> QED
  BY <1>1, <1>2, <1>3, <1>4, <1>5 DEF Next, Goroutine, Attempting

LEMMA FreshStep ==
  ASSUME TypeOK, AtAction, Reading, Fresh, [Next]_vars
  PROVE  Fresh'
<1>1. CASE Wait
  BY <1>1 DEF Wait, WaitOver, Fresh
<1>2. CASE Skip \/ StepDone
  <2>1. at' = at + 1 /\ calls' = calls /\ Program[at].type = "action"
    BY <1>2 DEF Skip, StepDone, AtAction
  <2> SUFFICES ASSUME NEW c \in calls, c.attempt.device \notin Slow,
                      NEW k \in c.attempt.step .. at
               PROVE  Program[k].type # "wait"
    <3>1. at \in Nat
      BY TypeIsItsParts DEF Place
    <3> QED
      BY <2>1, <3>1 DEF Fresh
  <2>2. k = at \/ k \in c.attempt.step .. at - 1
    BY CallIs
  <2> QED
    BY <2>1, <2>2 DEF Fresh
<1>3. CASE SendNext
  <2>1. PICK d \in Call : calls' = calls \cup {d} /\ Command(d) = <<at, todo[1]>>
    BY <1>3, SendMoves
  <2>2. at' = at /\ d.attempt.step = at /\ at \in Nat
    BY <1>3, <2>1, TypeIsItsParts DEF SendNext, Command, Place
  <2>3. at .. at - 1 = {}
    BY <2>2
  <2> QED
    BY <2>1, <2>2, <2>3 DEF Fresh
<1>4. CASE Resolve \/ LastStep \/ Finish \/ Cancel
  BY <1>4 DEF Resolve, LastStep, Finish, Cancel, Fresh
<1>5. ASSUME NEW c \in calls, Attempting(c) PROVE Fresh'
  <2>1. at' = at
    BY <1>5, AttemptMoves
  <2> QED
    BY <1>5, <2>1, CommandsStay DEF Fresh
<1>6. CASE UNCHANGED vars
  BY <1>6 DEF vars, Fresh
<1> QED
  BY <1>1, <1>2, <1>3, <1>4, <1>5, <1>6 DEF Next, Goroutine

LEMMA OnwardStep ==
  ASSUME TypeOK, AtAction, Reading, Past, Fresh, Onward, [Next]_vars
  PROVE  Onward'
<1> USE DEF outside, Separated
<1>1. CASE SendNext
  <2>1. PICK d \in Call : calls' = calls \cup {d} /\ Command(d) = <<at, todo[1]>>
    BY <1>1, SendMoves
  <2>2. world' = world /\ d.attempt.step = at /\ d.attempt.device \in Devices
    BY <1>1, <2>1 DEF SendNext, Command, Call, Attempt
  <2> QED
    BY <2>1, <2>2 DEF Onward, Past
<1>2. CASE Wait \/ Resolve \/ Skip \/ StepDone \/ LastStep \/ Finish \/ Cancel
  BY <1>2 DEF Wait, Resolve, Skip, StepDone, LastStep, Finish, Cancel, Onward
<1>3. ASSUME NEW c \in calls, Obey(c) PROVE Onward'
  <2> SUFFICES ASSUME NEW d \in calls', d.attempt.device \notin Slow, Separated(d.attempt.device)
               PROVE  world'[d.attempt.device] <= d.attempt.step
    BY DEF Onward
  <2>1. PICK e \in calls : d.attempt.step = e.attempt.step /\ d.attempt.device = e.attempt.device
    BY <1>3, CommandsStay DEF Attempting
  <2>2. /\ world' = [world EXCEPT ![c.attempt.device] = c.attempt.step]
        /\ world \in [Devices -> Steps \cup {0}] /\ c.attempt.device \in Devices
    BY <1>3, CallIs, TypeIsItsParts DEF Obey, Memory
  <2>3. CASE e.attempt.device = c.attempt.device
    <3>1. e.attempt.step >= c.attempt.step
      BY <2>1, <2>3, NotBefore
    <3>2. world'[d.attempt.device] = c.attempt.step
      BY <2>1, <2>2, <2>3
    <3>3. e.attempt.step \in Nat /\ c.attempt.step \in Nat
      BY CallIs
    <3> QED
      BY <2>1, <3>1, <3>2, <3>3
  <2>4. CASE e.attempt.device # c.attempt.device
    <3>1. world'[d.attempt.device] = world[e.attempt.device]
      BY <2>1, <2>2, <2>4, CallIs
    <3> QED
      BY <2>1, <3>1 DEF Onward
  <2> QED
    BY <2>3, <2>4
<1>4. ASSUME NEW c \in calls, Answer(c) \/ Return(c) \/ Retry(c) \/ GiveUp(c) PROVE Onward'
  <2>1. world' = world
    BY <1>4 DEF Answer, Return, Retry, GiveUp
  <2> QED
    BY <1>4, <2>1, CommandsStay DEF Attempting, Onward
<1>5. CASE UNCHANGED vars
  BY <1>5 DEF vars, Onward
<1> QED
  BY <1>1, <1>2, <1>3, <1>4, <1>5 DEF Next, Goroutine, Attempting

-----------------------------------------------------------------------------
LEMMA InitHolds == Init => IInv
<1>1. Init => Quiet /\ Traced /\ Carried /\ Followed /\ Judged
  BY DEF Init, Quiet, Traced, Carried, Followed, Judged, Owed
<1> QED
  BY <1>1, InitType DEF IInv

LEMMA StepHolds == IInv /\ [Next]_vars => IInv'
<1>1. TypeOK /\ AtAction /\ [Next]_vars => TypeOK' /\ AtAction'
  <2>1. (Place /\ calls \subseteq Call /\ Counts /\ Flags /\ Memory)' => TypeOK'
    BY DEF TypeOK, Place, Call, Counts, Flags, Memory
  <2> QED
    BY <2>1, TypeIsItsParts, PlaceStep, CallsStep, CountsStep, FlagsStep, MemoryStep
<1> QED
  BY <1>1, QuietStep, TracedStep, CarriedStep, FollowedStep, JudgedStep DEF IInv

LEMMA Invariance == Spec => []IInv
  BY InitHolds, StepHolds, PTL DEF Spec

(* What is counted, and in which order boxes are driven. *)
OInv == IInv /\ Apart /\ Reading /\ Finite /\ CountsAddUp /\ Past /\ Fresh /\ Onward

LEMMA OInvariance == Spec => []OInv
<1>1. Init => OInv
  <2> SUFFICES ASSUME Init PROVE OInv
    OBVIOUS
  <2>1. todo = <<>> /\ calls = {} /\ read = {} /\ Owed = {} /\ ok = 0 /\ fail = 0 /\ at = 1
    BY DEF Init, Owed
  <2>2. Finite /\ CountsAddUp
    BY <2>1, FS_EmptySet DEF Finite, CountsAddUp, Pending
  <2>3. Past
    <3>1. at = 1 /\ world = [d \in Devices |-> 0]
      BY DEF Init
    <3> QED
      BY <3>1 DEF Past
  <2>4. Apart /\ Reading /\ Fresh /\ Onward
    BY <2>1 DEF Apart, Reading, Fresh, Onward
  <2> QED
    BY <2>2, <2>3, <2>4, InitHolds DEF OInv
<1>2. OInv /\ [Next]_vars => OInv'
  <2> SUFFICES ASSUME OInv, [Next]_vars PROVE OInv'
    OBVIOUS
  <2>1. TypeOK /\ AtAction /\ Quiet
    BY DEF OInv, IInv
  <2> QED
    BY <2>1, StepHolds, ApartStep, ReadingStep, FiniteStep, CountsAddUpStep, PastStep, FreshStep,
       OnwardStep DEF OInv
<1> QED
  BY <1>1, <1>2, PTL DEF Spec

-----------------------------------------------------------------------------
\* The state of an execution, of its attempts and of what it leaves behind stays in its
\* types.
THEOREM TypeCorrect == Spec => []TypeOK
<1>1. IInv => TypeOK
  BY DEF IInv
<1> QED
  BY <1>1, Invariance, PTL

\* execute drives nothing, writes no line of history and counts nothing after it has
\* returned: retries.Wait holds it.
THEOREM NothingOnceDone == Spec => SilentOnceDone
<1>1. IInv /\ [Next]_vars => [pc = "done" => UNCHANGED <<world, log, ok, fail>>]_vars
  <2> SUFFICES ASSUME IInv, Next, pc = "done" PROVE UNCHANGED <<world, log, ok, fail>>
    OBVIOUS
  <2>1. calls = {}
    BY DEF IInv, Quiet
  <2> QED
    BY <2>1 DEF Next, Goroutine, Wait, Resolve, Skip, SendNext, StepDone, LastStep, Finish, Cancel,
                outside, counters
<1> QED
  BY <1>1, Invariance, PTL DEF Spec, SilentOnceDone

\* The history of commands tells everything a box carried out for an execution that has
\* returned, lost answers and cancellations included, save the lines that could not be
\* written (Send, Record).
THEOREM HistoryComplete == Spec => []HistoryIsComplete
<1>1. IInv => HistoryIsComplete
  BY DEF IInv, Quiet, Traced, HistoryIsComplete
<1> QED
  BY <1>1, Invariance, PTL

\* A scene whose verdict is "success" has had each command of each step it read carried out
\* and acknowledged, at one attempt or the other, and the history shows it unless that line
\* could not be written (execute, verdict).
THEOREM SuccessComplete == Spec => []SuccessIsComplete
<1>1. IInv => SuccessIsComplete
  <2> SUFFICES ASSUME IInv, verdict = "success", NEW o \in Owed PROVE Acknowledged(o)
    BY DEF SuccessIsComplete, Acknowledged, Shown
  <2>1. pc = "done" /\ fail = 0 /\ calls = {}
    BY DEF IInv, Judged, Quiet
  <2> QED
    BY <2>1 DEF IInv, Followed, Tracked, Attempted, ToSend
<1> QED
  BY <1>1, Invariance, PTL

\* Each command of each step read is counted once, as a success or a failure, however its
\* attempts and its retry interleave with the scene (execute: successCount, failureCount).
THEOREM CountsAgree == Spec => []CountsAddUp
<1>1. OInv => CountsAddUp
  BY DEF OInv
<1> QED
  BY <1>1, OInvariance, PTL

\* When a wait separates the steps that drive a device, a retry of the earlier one never
\* undoes the later one, unless its box may take thirty seconds to fail (execute, retries).
THEOREM InOrder == Spec => StepsInOrder
<1> DEFINE Ordered == \A d \in Devices \ Slow : Separated(d) => world'[d] >= world[d]
<1>1. OInv /\ [Next]_vars => [Ordered]_vars
  <2> SUFFICES ASSUME OInv, Next, NEW d \in Devices \ Slow, Separated(d)
               PROVE  world'[d] >= world[d]
    OBVIOUS
  <2>1. world \in [Devices -> Steps \cup {0}] /\ world[d] \in Nat
    BY StepsAre, TypeIsItsParts DEF OInv, IInv, Memory
  <2>2. ASSUME NEW c \in calls, Obey(c) PROVE world'[d] >= world[d]
    <3>1. world' = [world EXCEPT ![c.attempt.device] = c.attempt.step]
      BY <2>2 DEF Obey
    <3>2. c.attempt.step \in Nat
      BY CallIs DEF OInv, IInv
    <3>3. c.attempt.device = d => world[d] <= c.attempt.step
      BY DEF OInv, Onward
    <3> QED
      BY <2>1, <3>1, <3>2, <3>3
  <2>3. CASE world' = world
    BY <2>1, <2>3
  <2>4. (\E c \in calls : Obey(c)) \/ world' = world
    BY DEF Next, Goroutine, Attempting, Wait, Resolve, Skip, SendNext, StepDone, LastStep, Finish,
           Cancel, Answer, Return, Retry, GiveUp, outside
  <2> QED
    BY <2>2, <2>3, <2>4
<1> QED
  BY <1>1, OInvariance, PTL DEF Spec, StepsInOrder
=============================================================================
