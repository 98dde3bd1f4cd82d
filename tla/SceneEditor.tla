----------------------------- MODULE SceneEditor -----------------------------
(***************************************************************************)
(* The dialog that edits a scene (scene-editor.ts, its fields in           *)
(* scene-editor.html) and what it asks of the API: the preview of the      *)
(* targets, a short while after a change of the steps, and the recording   *)
(* of the scene.  Both send the draft as toSpec reduces it.  Requests are  *)
(* served, and answers come back, in any order; meanwhile the user goes    *)
(* on: changes the draft, submits the form once more, closes the dialog,   *)
(* opens it on another scene.                                              *)
(*                                                                         *)
(* Devices change room or state, and someone else may edit or delete the   *)
(* scenes.  The list of scenes the dialog opens from is up to date here    *)
(* (SceneTabs models it when it is not).  The button of the dashboard and  *)
(* the switch of a schedule are left out: toSpec copies them, nothing else *)
(* here reads them.                                                        *)
(***************************************************************************)
EXTENDS SceneTargets

CONSTANTS
  Homes,           \* the states the devices may be in, as the store lists them
  FirstSteps,      \* the steps of the scene that exists at first
  Names, Bare,     \* the names a field may hold, and each without its outer spaces
  Commands, Targets, Amounts,  \* what the fields of a step offer
  Schedules,       \* the lists of schedules a user may compose
  HasCoordinates,  \* whether solar schedules are possible
  MaxSteps,        \* bound: steps of a draft
  MaxCalls,        \* bound: requests under way at a time
  MaxMoves         \* bound: openings, changes of the draft, changes elsewhere, failed requests

\* An id is a primary key of table device; a scene is recorded once Validate accepts it;
\* the days of a schedule are ticked, each once.
ASSUME SceneEditorAssumption ==
  /\ Homes \subseteq Seq(Device)
  /\ \A devices \in Homes : \A i, j \in DOMAIN devices : devices[i].id = devices[j].id => i = j
  /\ FirstSteps \in Seq(Step) /\ \A i \in DOMAIN FirstSteps : ValidStep(FirstSteps[i])
  /\ {"", "evening", "renamed"} \subseteq Names
  /\ Bare \in [Names -> Names] /\ \A name \in Names : Bare[Bare[name]] = Bare[name]
  /\ Commands \subseteq Command /\ Targets \subseteq Target /\ Amounts \subseteq Int
  /\ Schedules \subseteq Seq(Schedule)

VARIABLES
  home,        \* table device
  scene,       \* the scene in table scene, or NoScene; others are out of sight
  created,     \* the scene the dialog created last, or NoScene
  visible, editedId, draft, saving,  \* the dialog; editedId is 1, or 0 for a new scene
  preview,     \* the answer it shows: for which steps, resolved with which devices
  timer,       \* previewTimer is armed
  calls,       \* requests under way
  asked,       \* how many previews were asked for
  moves,
  shown,       \* history: the request whose answer is shown, 0 when there is none
  crossed      \* history: the draft, the dialog or the scene changed during a Save

dialog == <<visible, editedId, draft, saving>>
shownPreview == <<preview, timer, asked, shown>>
server == <<home, scene, created>>
vars == <<server, dialog, shownPreview, calls, moves, crossed>>

NoScene == [name |-> "", steps |-> <<>>, schedules |-> <<>>]
Wait == [type |-> "wait", minutes |-> 5, command |-> "", parameters |-> <<>>, targets |-> NoTargets]
NewAction == [type |-> "action", minutes |-> Empty, command |-> "on", parameters |-> <<>>,
              targets |-> NoTargets]
NoPreview == [steps |-> <<>>, home |-> <<>>]
EmptyDraft == [name |-> "", steps |-> <<NewAction>>, schedules |-> <<>>]

Move == moves < MaxMoves /\ moves' = moves + 1
OfSave(c) == c.op \in {"save", "saved"}
SavesAmong(requests) == {c \in requests : OfSave(c)}

(***************************************************************************)
(* toSpec: what is sent of the draft.                                      *)
(***************************************************************************)
OrZero(n) == IF n = Empty THEN 0 ELSE n

\* The days in order; a draft has each of them once.
DaysInOrder(days) ==
  LET upTo[d \in 0 .. 7] ==
        IF d = 0 THEN <<>>
        ELSE IF d \in ToSet(days) THEN Append(upTo[d - 1], d) ELSE upTo[d - 1]
  IN upTo[7]

\* A wait keeps its minutes alone, an action all but those.
StepSpec(step) ==
  IF step.type = "wait" THEN [Wait EXCEPT !.minutes = OrZero(step.minutes)]
  ELSE [step EXCEPT !.minutes = Empty]

\* A fixed hour keeps its time alone, a solar one its offset and its bounds.
ScheduleSpec(s) ==
  IF s.at = "time"
  THEN [s EXCEPT !.days = DaysInOrder(@), !.offset = Empty, !.notBefore = Empty, !.notAfter = Empty]
  ELSE [s EXCEPT !.days = DaysInOrder(@), !.time = Empty, !.offset = OrZero(@)]

ToSpec(typed) ==
  [name |-> Bare[typed.name],
   steps |-> [i \in DOMAIN typed.steps |-> StepSpec(typed.steps[i])],
   schedules |-> [i \in DOMAIN typed.schedules |-> ScheduleSpec(typed.schedules[i])]]

(***************************************************************************)
(* The dialog.                                                             *)
(***************************************************************************)
Crossing == crossed' = (SavesAmong(calls) # {})

\* open: a copy of the scene or an empty draft, no preview yet, and one asked for at once.
Open(id) ==
  /\ ~visible /\ Move
  /\ id = 1 => scene # NoScene
  /\ visible' = TRUE /\ editedId' = id
  /\ draft' = IF id = 1 THEN scene ELSE EmptyDraft
  /\ preview' = NoPreview /\ timer' = TRUE /\ shown' = 0
  /\ Crossing
  /\ UNCHANGED <<server, saving, asked, calls>>

Close == visible /\ visible' = FALSE /\ Crossing
  /\ UNCHANGED <<server, editedId, draft, saving, shownPreview, calls, moves>>

Edit(newDraft) ==
  /\ visible /\ Move
  /\ draft' = newDraft /\ draft' # draft /\ Crossing
  /\ UNCHANGED <<server, visible, editedId, saving, preview, asked, shown, calls>>

\* A change of the steps that calls changed(): the timer is armed again.
EditSteps(steps) == Edit([draft EXCEPT !.steps = steps]) /\ timer' = TRUE
EditStep(i, step) == EditSteps([draft.steps EXCEPT ![i] = step])

AddStep == Len(draft.steps) < MaxSteps /\ \E s \in {NewAction, Wait} : EditSteps(Append(draft.steps, s))
RemoveStep == Len(draft.steps) > 1 /\ \E i \in DOMAIN draft.steps : EditSteps(RemoveAt(draft.steps, i))
MoveStep == \E i, to \in DOMAIN draft.steps :
  to = i + 1 /\ EditSteps(InsertAt(RemoveAt(draft.steps, i), to, draft.steps[i]))

\* The fields of an action: its command brings its default parameters.
DefaultParameters(command) ==
  CASE command = "setBrightness" -> <<[is |-> "number", value |-> 50]>>
    [] command = "setColorTemperature" -> <<[is |-> "number", value |-> 2700]>>
    [] command = "setColor" -> <<[is |-> "color", value |-> 0]>>
    [] OTHER -> <<>>
SetCommand == \E i \in DOMAIN draft.steps, command \in Commands :
  /\ draft.steps[i].type = "action"
  /\ EditStep(i, [draft.steps[i] EXCEPT !.command = command, !.parameters = DefaultParameters(command)])
SetColor == \E i \in DOMAIN draft.steps, color \in Amounts :
  /\ draft.steps[i].type = "action" /\ draft.steps[i].command = "setColor"
  /\ EditStep(i, [draft.steps[i] EXCEPT !.parameters = <<[is |-> "color", value |-> color]>>])
SetTargets == \E i \in DOMAIN draft.steps, targets \in Targets :
  /\ draft.steps[i].type = "action"
  /\ EditStep(i, [draft.steps[i] EXCEPT !.targets = targets])

\* A number of minutes, a brightness, a temperature, kept within its range or cleared:
\* bound to the draft, without a call of changed().
RangeOf(step) ==
  CASE step.type = "wait" -> 1 .. 720
    [] step.type = "action" /\ step.command = "setBrightness" -> 0 .. 100
    [] step.type = "action" /\ step.command = "setColorTemperature" -> 2000 .. 6500
    [] OTHER -> {}
Typed(step, n) ==
  IF step.type = "wait" THEN [step EXCEPT !.minutes = n]
  ELSE [step EXCEPT !.parameters = <<[is |-> IF n = Empty THEN "null" ELSE "number", value |-> n]>>]
SetAmount == \E i \in DOMAIN draft.steps, n \in Amounts \cup {Empty} :
  /\ RangeOf(draft.steps[i]) # {} /\ (n \in RangeOf(draft.steps[i]) \/ n = Empty)
  /\ Edit([draft EXCEPT !.steps[i] = Typed(@, n)])
  /\ UNCHANGED timer

SetName == \E name \in Names : Edit([draft EXCEPT !.name = name]) /\ UNCHANGED timer
SetSchedules == \E s \in Schedules : Edit([draft EXCEPT !.schedules = s]) /\ UNCHANGED timer

(***************************************************************************)
(* The preview.                                                            *)
(***************************************************************************)

\* refreshPreview: the steps of the draft of that moment are sent.
TimerFires ==
  /\ timer /\ Cardinality(calls) < MaxCalls /\ timer' = FALSE /\ asked' = asked + 1
  /\ calls' = calls \cup {[op |-> "resolve", n |-> asked + 1, steps |-> ToSpec(draft).steps]}
  /\ UNCHANGED <<server, dialog, preview, shown, moves, crossed>>

\* resolve-scene-steps: the devices are read once for all the steps.  The answer is
\* ResolveAll of the two; what it shows is worked out where it is looked at.
ServeResolve(c) ==
  /\ c.op = "resolve"
  /\ calls' = (calls \ {c}) \cup
       {[op |-> "resolved", n |-> c.n, answer |-> [steps |-> c.steps, home |-> home]]}
  /\ UNCHANGED <<server, dialog, shownPreview, moves, crossed>>

Shows(c, answer, n) ==
  /\ calls' = calls \ {c}
  /\ preview' = answer /\ shown' = n
  /\ UNCHANGED <<server, dialog, timer, asked, crossed>>

PreviewArrives(c) == c.op = "resolved" /\ Shows(c, c.answer, c.n) /\ UNCHANGED moves
PreviewFails(c) ==
  /\ c.op \in {"resolve", "resolved"} /\ Move
  /\ Shows(c, NoPreview, 0)

(***************************************************************************)
(* The recording.                                                          *)
(***************************************************************************)

\* save: the button turns until the answer, but the form can still be submitted.  The
\* Saves under way have a number each, the least that is free.
Free(n) == \A c \in SavesAmong(calls) : c.n # n
Save ==
  /\ visible /\ Cardinality(calls) < MaxCalls
  /\ saving' = TRUE
  /\ \E n \in 1 .. MaxCalls :
       /\ Free(n) /\ \A k \in 1 .. (n - 1) : ~Free(k)
       /\ calls' = calls \cup {[op |-> "save", n |-> n, id |-> editedId, spec |-> ToSpec(draft)]}
  /\ UNCHANGED <<server, visible, editedId, draft, shownPreview, moves, crossed>>

\* create-scene and update-scene: Validate, then the store; a scene deleted meanwhile is
\* not found.
Accepted(c) == Validate(c.spec, HasCoordinates) /\ (c.id = 1 => scene # NoScene)
ServeSave(c) ==
  /\ c.op = "save"
  /\ calls' = (calls \ {c}) \cup {[op |-> "saved", n |-> c.n, ok |-> Accepted(c)]}
  /\ scene' = IF Accepted(c) /\ c.id = 1 THEN c.spec ELSE scene
  /\ created' = IF Accepted(c) /\ c.id = 0 THEN c.spec ELSE created
  /\ UNCHANGED <<home, dialog, shownPreview, moves, crossed>>

\* A success closes the dialog, a refusal leaves it open with the reason.
StillCrossed(c) == crossed' = (crossed /\ SavesAmong(calls \ {c}) # {})
SaveAnsweredClosed(c, ok) ==
  /\ calls' = calls \ {c} /\ saving' = FALSE /\ StillCrossed(c)
  /\ visible' = FALSE
  /\ UNCHANGED <<server, editedId, draft, shownPreview>>
SaveAnswered(c, ok) ==
  /\ calls' = calls \ {c} /\ saving' = FALSE /\ StillCrossed(c)
  /\ visible' = (visible /\ ~ok)
  /\ UNCHANGED <<server, editedId, draft, shownPreview>>
SaveArrives(c) == c.op = "saved" /\ SaveAnswered(c, c.ok) /\ UNCHANGED moves
SaveFails(c) ==
  /\ OfSave(c) /\ Move
  /\ SaveAnswered(c, FALSE)

(***************************************************************************)
(* Elsewhere.                                                              *)
(***************************************************************************)
Elsewhere ==
  /\ Move
  /\ \/ home' \in Homes \ {home} /\ UNCHANGED <<scene, crossed>>
     \/ scene # NoScene /\ scene' \in {NoScene, [scene EXCEPT !.name = "renamed"]}
          /\ Crossing /\ UNCHANGED home
  /\ UNCHANGED <<created, dialog, shownPreview, calls>>

(***************************************************************************)
(* Specification.                                                          *)
(***************************************************************************)
Init ==
  /\ home \in Homes /\ created = NoScene
  /\ scene = [name |-> "evening", steps |-> FirstSteps, schedules |-> <<>>]
  /\ visible = FALSE /\ editedId = 0 /\ draft = EmptyDraft /\ saving = FALSE
  /\ preview = NoPreview /\ timer = FALSE /\ calls = {} /\ asked = 0
  /\ moves = 0
  /\ shown = 0 /\ crossed = FALSE

Serve == \E c \in calls : ServeResolve(c) \/ ServeSave(c)
Arrive == \E c \in calls : PreviewArrives(c) \/ SaveArrives(c)
User == \/ \E id \in {0, 1} : Open(id)
        \/ Close \/ Save
        \/ AddStep \/ RemoveStep \/ MoveStep
        \/ SetCommand \/ SetColor \/ SetTargets \/ SetAmount
        \/ SetName \/ SetSchedules

Next == \/ User \/ Elsewhere
        \/ TimerFires \/ Serve \/ Arrive
        \/ \E c \in calls : PreviewFails(c) \/ SaveFails(c)

Spec == Init /\ [][Next]_vars

(***************************************************************************)
(* Properties.                                                             *)
(***************************************************************************)

\* The answer shown is the last one asked for; an older one may come last, and stay
\* until the next change.
LastAnswerShown == visible /\ ~timer /\ shown = asked /\ asked > 0
Shown == ResolveAll(preview.steps, preview.home)

\* Then the dialog tells of each step of the draft exactly the devices it would reach and
\* those set aside (scene-editor.ts:48-52, resolve.go Resolve).
PreviewTellsTargets ==
  LastAnswerShown => /\ DOMAIN preview.steps = DOMAIN draft.steps
                     /\ \A i \in DOMAIN Shown : Exact(draft.steps[i], preview.home, Shown[i])

\* Then too, the dialog warns of a relay exactly when some action of the draft is meant
\* for one and the scene has a schedule, and the list of scenes would ask a confirmation
\* of the draft, once recorded, exactly when some action is (touchesRelays, in
\* scene-editor.ts over the targets shown, in state.go over those of the steps).
IsRelay(id, devices) == ById(id, devices).kind = "switch"
Warned ==
  /\ \E i \in DOMAIN Shown : \E id \in ToSet(Shown[i].targets) : IsRelay(id, preview.home)
  /\ draft.schedules # <<>>
RelaysAreAnnounced ==
  LastAnswerShown =>
    LET drives == DrivesRelay(draft.steps, preview.home) IN
      /\ Warned <=> drives /\ draft.schedules # <<>>
      /\ TouchesRelays(ToSpec(draft).steps, preview.home) <=> drives

\* Whatever was recorded, no device is ever set aside for an action nobody knows: the
\* actions validate.go accepts are those resolve.go has a rule for.
KnownIn(spec) == \A i \in DOMAIN spec.steps :
  \A told \in ToSet(Resolve(spec.steps[i], home).ignored) : told[2] # "unknown action"
RecordedIsKnown ==
  [][\A spec \in {created', scene'} \ {created, scene} : KnownIn(spec)]_vars

\* What a scene says of what was typed: the name but for its outer spaces, each step and
\* each schedule with the fields its kind has.
SaysStep(r, t) ==
  /\ r.type = t.type
  /\ t.type = "wait" => r.minutes = t.minutes
  /\ t.type = "action" => /\ r.command = t.command /\ r.parameters = t.parameters
                         /\ r.targets = t.targets
SaysSchedule(r, t) ==
  /\ r.at = t.at /\ ToSet(r.days) = ToSet(t.days)
  /\ IF t.at = "time" THEN r.time = t.time
     ELSE /\ t.offset # Empty => r.offset = t.offset
          /\ r.notBefore = t.notBefore /\ r.notAfter = t.notAfter
Says(recorded, typed) ==
  /\ Bare[recorded.name] = Bare[typed.name]
  /\ DOMAIN recorded.steps = DOMAIN typed.steps
  /\ \A i \in DOMAIN typed.steps : SaysStep(recorded.steps[i], typed.steps[i])
  /\ DOMAIN recorded.schedules = DOMAIN typed.schedules
  /\ \A i \in DOMAIN typed.schedules : SaysSchedule(recorded.schedules[i], typed.schedules[i])

\* A dialog closed by the answer of a Save has what it shows in the store: nothing typed
\* is lost by toSpec, by the API or by a second Save, unless the draft, the dialog or the
\* scene changed while an answer was awaited (scene-editor.ts save: it closes anyway).
ClosedIsRecorded ==
  [][\A c \in calls : visible /\ ~visible' /\ SaveArrives(c) /\ ~crossed =>
       Says(IF editedId = 1 THEN scene ELSE created, draft)]_vars
=============================================================================
